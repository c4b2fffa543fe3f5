------------------------- MODULE AccountPagesProofs -------------------------
(***************************************************************************)
(* What the pages of an account show is what the server holds: the         *)
(* profile, the lists of notifications, blocks and reports, and an         *)
(* administrator's page of a report.  Each has an invariant, true while it *)
(* is on the screen, as in ExchangePagesProofs.                            *)
(***************************************************************************)
EXTENDS ExchangePagesProofs

-----------------------------------------------------------------------------
(***************************************************************************)
(* The student's own profile.                                              *)
(***************************************************************************)
Alone(r) == r # F!None /\ r.alone
Holds(r) == Alone(r) /\ r.phase \in {"answered", "read"}

\* A request that nothing else has touched is the only one, and the answer
\* it got is what the server has; a reread follows an answer that did not
\* have the profile to itself.
AloneIsOnly ==
    /\ Alone(saving) => mutating = F!None /\ late = {}
    /\ Alone(mutating) => saving = F!None /\ late = {}
    /\ Holds(saving) => saving.profile = stored
    /\ Holds(mutating) => mutating.profile = stored
    /\ mutating.phase \in {"failed", "read"} => ~certain

ProfileTyped ==
    /\ stored \in F!Profiles /\ shown \in F!Profiles
    /\ draft \in Abouts
    /\ saving \in F!Requests(F!Saves)
    /\ mutating \in F!Requests(F!Changes)
    /\ late \subseteq F!Saves \union F!Changes
    /\ adding \in BOOLEAN /\ certain \in BOOLEAN

ProfileInv == ProfileTyped /\ AloneIsOnly /\ F!ProfileIsCurrent

LEMMA NotAloneKept ==
    ASSUME NEW W, NEW r \in F!Requests(W)
    PROVE  /\ F!NotAlone(r) \in F!Requests(W)
           /\ ~Alone(F!NotAlone(r))
           /\ F!NotAlone(r) = F!None <=> r = F!None
           /\ F!NotAlone(r).phase = r.phase
<1>1. CASE r = F!None
  BY <1>1 DEF F!NotAlone, F!Requests, Alone
<1>2. CASE r \in [phase : {"asked", "refused", "failed"}, write : W, alone : BOOLEAN]
  BY <1>2 DEF F!NotAlone, F!Requests, Alone, F!None
<1>3. CASE r \in [phase : {"answered", "read"}, write : W, alone : BOOLEAN, profile : F!Profiles]
  BY <1>3 DEF F!NotAlone, F!Requests, Alone, F!None
<1> QED BY <1>1, <1>2, <1>3 DEF F!Requests

LEMMA WrittenIsProfile ==
    ASSUME stored \in F!Profiles, NEW w \in F!Saves \union F!Changes
    PROVE  F!Written(w) \in F!Profiles
<1>1. CASE w \in F!Saves
  BY <1>1 DEF F!Saves, F!Written, F!Profiles
<1>2. CASE w \in F!Changes
  <2>1. w.op \in {"POST", "PATCH", "DELETE"} /\ w.entry \in Entries /\ w.level \in EntryLevels
    BY <1>2 DEF F!Changes
  <2>2. ASSUME NEW l \in EntryLevels \union {F!Absent}
        PROVE  [stored EXCEPT !.skills[w.entry] = l] \in F!Profiles
    <3>1. [stored.skills EXCEPT ![w.entry] = l] \in [Entries -> EntryLevels \union {F!Absent}]
      BY <2>1 DEF F!Profiles
    <3> QED BY <3>1 DEF F!Profiles
  <2>3. F!Written(w) \in {[stored EXCEPT !.skills[w.entry] = F!Absent],
                          [stored EXCEPT !.skills[w.entry] = w.level]}
    BY <2>1 DEF F!Written
  <2> QED BY <2>1, <2>2, <2>3
<1> QED BY <1>1, <1>2

LEMMA RequestIs ==
    ASSUME NEW W, NEW r \in F!Requests(W), r # F!None
    PROVE  /\ r.write \in W /\ r.alone \in BOOLEAN
           /\ r.phase \in {"asked", "refused", "failed", "answered", "read"}
           /\ r.phase \in {"answered", "read"} => r.profile \in F!Profiles
           /\ r.phase \notin {"answered", "read"} =>
                 r \in [phase : {"asked", "refused", "failed"}, write : W, alone : BOOLEAN]
BY DEF F!Requests

LEMMA NoneIsNone == F!None.phase = "none"
BY DEF F!None

LEMMA AnswerKept ==
    ASSUME stored \in F!Profiles, NEW W, W \subseteq F!Saves \union F!Changes,
           NEW r \in F!Requests(W), r.phase = "asked"
    PROVE  /\ F!Answer(r) \in F!Requests(W) /\ F!Answer(r) # F!None
           /\ F!Answer(r).alone <=> r.alone
           /\ F!Answer(r).phase \in {"answered", "refused"}
           /\ F!Answer(r).phase = "answered" =>
                 F!changeAllowed(r.write) /\ F!Answer(r).profile = F!Written(r.write)
<1>1. /\ r.write \in W /\ r.alone \in BOOLEAN
      /\ r \in [phase : {"asked", "refused", "failed"}, write : W, alone : BOOLEAN]
  BY NoneIsNone, RequestIs
<1>2. F!Written(r.write) \in F!Profiles
  BY <1>1, WrittenIsProfile
<1>3. CASE F!changeAllowed(r.write)
  <2> DEFINE a == [phase |-> "answered", write |-> r.write, alone |-> r.alone,
                   profile |-> F!Written(r.write)]
  <2>1. F!Answer(r) = a
    BY <1>3 DEF F!Answer
  <2>2. /\ a \in [phase : {"answered", "read"}, write : W, alone : BOOLEAN, profile : F!Profiles]
        /\ a.alone <=> r.alone
        /\ a.phase = "answered" /\ a.profile = F!Written(r.write)
    BY <1>1, <1>2
  <2> HIDE DEF a
  <2> QED BY <1>3, <2>1, <2>2, NoneIsNone DEF F!Requests
<1>4. CASE ~F!changeAllowed(r.write)
  <2>1. F!Answer(r) = [r EXCEPT !.phase = "refused"]
    BY <1>4 DEF F!Answer
  <2>2. /\ [r EXCEPT !.phase = "refused"] \in
              [phase : {"asked", "refused", "failed"}, write : W, alone : BOOLEAN]
        /\ [r EXCEPT !.phase = "refused"].alone <=> r.alone
        /\ [r EXCEPT !.phase = "refused"].phase = "refused"
    BY <1>1
  <2> QED BY <2>1, <2>2, NoneIsNone DEF F!Requests
<1> QED BY <1>3, <1>4

(* A request that leaves.                                                   *)

LEMMA AskedIs ==
    ASSUME NEW W, NEW w \in W, NEW b \in BOOLEAN,
           NEW p \in {"asked", "refused", "failed"}
    PROVE  LET r == [phase |-> p, write |-> w, alone |-> b]
           IN  /\ r \in F!Requests(W) /\ r # F!None
               /\ Alone(r) <=> b
               /\ r.phase = p
<1> DEFINE r == [phase |-> p, write |-> w, alone |-> b]
<1>1. r \in [phase : {"asked", "refused", "failed"}, write : W, alone : BOOLEAN]
  OBVIOUS
<1>2. (r.alone <=> b) /\ r.phase = p
  OBVIOUS
<1>3. F!None.phase = "none"
  BY NoneIsNone
<1> HIDE DEF r
<1>4. r # F!None
  BY <1>2, <1>3
<1>5. r \in F!Requests(W) /\ (Alone(r) <=> b)
  BY <1>1, <1>2, <1>4 DEF F!Requests, Alone
<1> QED BY <1>2, <1>4, <1>5 DEF r

LEMMA ProfileInitHolds ==
    ASSUME F!ProfileInit
    PROVE  ProfileInv
BY
DEF F!ProfileInit, ProfileInv, ProfileTyped, AloneIsOnly, Alone, Holds, F!ProfileIsCurrent,
    F!Requests, F!None, F!Profiles

LEMMA ProfileStep ==
    ASSUME ProfileInv, F!ProfileNext
    PROVE  ProfileInv'
<1> USE DEF ProfileInv
<1>0. /\ stored \in F!Profiles /\ shown \in F!Profiles
      /\ saving \in F!Requests(F!Saves) /\ mutating \in F!Requests(F!Changes)
  BY DEF ProfileTyped
<1>00. saving.phase # "none" => saving # F!None /\ saving.write \in F!Saves /\ saving.alone \in BOOLEAN
  BY <1>0, NoneIsNone, RequestIs
<1>01. mutating.phase # "none" => mutating # F!None /\ mutating.write \in F!Changes /\ mutating.alone \in BOOLEAN
  BY <1>0, NoneIsNone, RequestIs
<1>02. /\ F!NotAlone(saving) \in F!Requests(F!Saves) /\ ~Alone(F!NotAlone(saving))
       /\ F!NotAlone(saving) = F!None <=> saving = F!None
       /\ F!NotAlone(saving).phase = saving.phase
  BY <1>0, NotAloneKept
<1>03. /\ F!NotAlone(mutating) \in F!Requests(F!Changes) /\ ~Alone(F!NotAlone(mutating))
       /\ F!NotAlone(mutating) = F!None <=> mutating = F!None
       /\ F!NotAlone(mutating).phase = mutating.phase
  BY <1>0, NotAloneKept
<1>04. ~Alone(F!None) /\ F!None \in F!Requests(F!Saves) /\ F!None \in F!Requests(F!Changes)
  BY DEF Alone, F!Requests
<1>1. CASE F!ServeSave
  <2>1. saving # F!None /\ saving.write \in F!Saves
    BY <1>00, <1>1 DEF F!ServeSave
  <2>2. /\ F!Answer(saving) \in F!Requests(F!Saves) /\ F!Answer(saving) # F!None
        /\ F!Answer(saving).alone <=> saving.alone
        /\ F!Answer(saving).phase = "answered" => F!Answer(saving).profile = F!Written(saving.write)
        /\ F!Answer(saving).phase \in {"answered", "refused"}
    BY <1>0, <1>1, AnswerKept DEF F!ServeSave
  <2>3. F!Written(saving.write) \in F!Profiles
    BY <1>0, <2>1, WrittenIsProfile
  <2>4. /\ saving' = F!Answer(saving) /\ stored' = F!Written(saving.write)
        /\ UNCHANGED <<shown, draft, mutating, late, adding, certain>>
    BY <1>1 DEF F!ServeSave
  <2>5. ProfileTyped'
    BY <2>2, <2>3, <2>4 DEF ProfileTyped
  <2>6. (Alone(saving)' <=> Alone(saving)) /\ ~Alone(mutating)'
    BY <2>1, <2>2, <2>4 DEF Alone, AloneIsOnly
  <2>7. AloneIsOnly'
    BY <2>1, <2>2, <2>4, <2>6 DEF AloneIsOnly, Holds
  <2>8. F!ProfileIsCurrent'
    BY <2>2, <2>4 DEF F!ProfileIsCurrent, F!Idle
  <2> QED BY <2>5, <2>7, <2>8
<1>2. CASE F!ServeSkill
  <2>1. mutating # F!None /\ mutating.write \in F!Changes
    BY <1>01, <1>2 DEF F!ServeSkill
  <2>2. /\ F!Answer(mutating) \in F!Requests(F!Changes) /\ F!Answer(mutating) # F!None
        /\ F!Answer(mutating).alone <=> mutating.alone
        /\ F!Answer(mutating).phase = "answered" =>
              F!changeAllowed(mutating.write) /\ F!Answer(mutating).profile = F!Written(mutating.write)
        /\ F!Answer(mutating).phase \in {"answered", "refused"}
    BY <1>0, <1>2, AnswerKept DEF F!ServeSkill
  <2>3. F!Written(mutating.write) \in F!Profiles
    BY <1>0, <2>1, WrittenIsProfile
  <2>4. /\ mutating' = F!Answer(mutating)
        /\ stored' = IF F!changeAllowed(mutating.write) THEN F!Written(mutating.write) ELSE stored
        /\ UNCHANGED <<shown, draft, saving, late, adding, certain>>
    BY <1>2 DEF F!ServeSkill
  <2>5. ProfileTyped'
    BY <2>2, <2>3, <2>4 DEF ProfileTyped
  <2>6. (Alone(mutating)' <=> Alone(mutating)) /\ ~Alone(saving)'
    BY <2>1, <2>2, <2>4 DEF Alone, AloneIsOnly
  <2>7. AloneIsOnly'
    BY <2>1, <2>2, <2>4, <2>6 DEF AloneIsOnly, Holds
  <2>8. F!ProfileIsCurrent'
    BY <2>2, <2>4 DEF F!ProfileIsCurrent, F!Idle
  <2> QED BY <2>5, <2>7, <2>8
<1>3. CASE F!ServeLate \/ F!OtherTab
  <2>1. /\ saving' = F!NotAlone(saving) /\ mutating' = F!NotAlone(mutating) /\ certain' = FALSE
        /\ UNCHANGED <<shown, draft, adding>>
    BY <1>3 DEF F!ServeLate, F!OtherTab
  <2>2. stored' \in F!Profiles /\ late' \subseteq late
    <3>1. CASE F!OtherTab
      BY <3>1 DEF F!OtherTab
    <3>2. CASE F!ServeLate
      <4>1. PICK w \in late : late' = late \ {w} /\ stored' = IF F!changeAllowed(w) THEN F!Written(w) ELSE stored
        BY <3>2 DEF F!ServeLate
      <4>2. F!Written(w) \in F!Profiles
        BY <1>0, WrittenIsProfile DEF ProfileTyped
      <4> QED BY <1>0, <4>1, <4>2
    <3> QED BY <1>3, <3>1, <3>2
  <2>3. ProfileTyped'
    BY <1>02, <1>03, <2>1, <2>2 DEF ProfileTyped
  <2>4. ~Alone(saving)' /\ ~Alone(mutating)'
    BY <1>02, <1>03, <2>1
  <2>5. AloneIsOnly'
    BY <2>1, <2>4 DEF AloneIsOnly, Holds
  <2> QED BY <2>1, <2>3, <2>5 DEF F!ProfileIsCurrent
<1>4. CASE F!change \/ F!discard \/ F!showCatalog
  <2>1. UNCHANGED <<stored, shown, saving, mutating, late, certain>>
    BY <1>4 DEF F!change, F!discard, F!showCatalog
  <2>2. draft' \in Abouts /\ adding' \in BOOLEAN
    BY <1>0, <1>4 DEF F!change, F!discard, F!showCatalog, ProfileTyped, F!Profiles
  <2>3. ProfileTyped'
    BY <2>1, <2>2 DEF ProfileTyped
  <2>4. AloneIsOnly'
    BY <2>1 DEF AloneIsOnly, Holds, Alone
  <2> QED BY <2>1, <2>3, <2>4 DEF F!ProfileIsCurrent, F!Idle
<1>5. CASE F!submit
  <2> DEFINE alone == mutating = F!None /\ late = {}
             w == [op |-> "PATCH profile", about |-> draft]
  <2>1. w \in F!Saves /\ alone \in BOOLEAN
    BY <1>5 DEF F!submit, F!Saves, ProfileTyped
  <2>2. /\ saving = F!None
        /\ saving' = [phase |-> "asked", write |-> w, alone |-> alone]
        /\ mutating' = F!NotAlone(mutating)
        /\ UNCHANGED <<stored, shown, draft, late, adding, certain>>
    BY <1>5 DEF F!submit, F!MayEdit
  <2>3. alone <=> mutating = F!None /\ late = {}
    OBVIOUS
  <2> HIDE DEF alone, w
  <2>4. LET r == [phase |-> "asked", write |-> w, alone |-> alone]
        IN  r \in F!Requests(F!Saves) /\ r # F!None /\ (Alone(r) <=> alone) /\ r.phase = "asked"
    BY <2>1, AskedIs
  <2>5. /\ saving' \in F!Requests(F!Saves) /\ saving' # F!None /\ saving'.phase = "asked"
        /\ Alone(saving)' <=> alone
    BY <2>2, <2>4
  <2>6. ProfileTyped'
    BY <1>03, <2>2, <2>5 DEF ProfileTyped
  <2>7. ~Alone(mutating)' /\ mutating'.phase = mutating.phase /\ (mutating' = F!None <=> mutating = F!None)
    BY <1>03, <2>2
  <2>8. AloneIsOnly'
    BY <2>2, <2>3, <2>5, <2>7 DEF AloneIsOnly, Holds
  <2> QED BY <2>5, <2>6, <2>8 DEF F!ProfileIsCurrent, F!Idle
<1>6. CASE F!Saved
  <2>1. saving # F!None /\ saving.alone \in BOOLEAN /\ saving.profile \in F!Profiles
    BY <1>0, <1>00, <1>6, RequestIs DEF F!Saved
  <2>2. /\ shown' = saving.profile /\ draft' = saving.profile.about /\ saving' = F!None
        /\ saving.phase = "answered" /\ certain' = saving.alone
        /\ UNCHANGED <<stored, mutating, late, adding>>
    BY <1>6 DEF F!Saved
  <2>3. saving.profile.about \in Abouts
    BY <2>1 DEF F!Profiles
  <2>4. ProfileTyped'
    BY <1>04, <2>1, <2>2, <2>3 DEF ProfileTyped
  <2>5. Alone(saving) <=> saving.alone
    BY <2>1 DEF Alone
  <2>6. saving.alone => mutating = F!None /\ saving.profile = stored
    BY <2>2, <2>5 DEF AloneIsOnly, Holds
  <2>7. AloneIsOnly'
    BY <1>04, <2>2, <2>6, NoneIsNone DEF AloneIsOnly, Holds, Alone
  <2> QED BY <2>2, <2>4, <2>6, <2>7 DEF F!ProfileIsCurrent
<1>7. CASE F!SaveFails
  <2>1. saving # F!None /\ saving.write \in F!Saves
    BY <1>00, <1>7 DEF F!SaveFails
  <2>2. /\ late' \in {{}, {saving.write}, late} /\ certain' = FALSE /\ saving' = F!None
        /\ mutating' = F!NotAlone(mutating)
        /\ UNCHANGED <<stored, shown, draft, adding>>
    BY <1>7 DEF F!SaveFails
  <2>3. ProfileTyped'
    BY <1>03, <1>04, <2>1, <2>2 DEF ProfileTyped
  <2>4. AloneIsOnly'
    BY <1>03, <1>04, <2>2 DEF AloneIsOnly, Holds
  <2> QED BY <2>2, <2>3, <2>4 DEF F!ProfileIsCurrent
<1>8. CASE F!mutate
  <2> DEFINE alone == saving = F!None /\ late = {}
  <2>1. PICK w \in F!Changes : mutating' = [phase |-> "asked", write |-> w, alone |-> alone]
    BY <1>8 DEF F!mutate
  <2>2. /\ mutating = F!None
        /\ saving' = F!NotAlone(saving)
        /\ UNCHANGED <<stored, shown, draft, late, adding, certain>>
    BY <1>8 DEF F!mutate, F!MayChange
  <2>3. alone \in BOOLEAN /\ (alone <=> saving = F!None /\ late = {})
    OBVIOUS
  <2> HIDE DEF alone
  <2>4. LET r == [phase |-> "asked", write |-> w, alone |-> alone]
        IN  r \in F!Requests(F!Changes) /\ r # F!None /\ (Alone(r) <=> alone) /\ r.phase = "asked"
    BY <2>3, AskedIs
  <2>5. /\ mutating' \in F!Requests(F!Changes) /\ mutating' # F!None /\ mutating'.phase = "asked"
        /\ Alone(mutating)' <=> alone
    BY <2>1, <2>4
  <2>6. ProfileTyped'
    BY <1>02, <2>2, <2>5 DEF ProfileTyped
  <2>7. ~Alone(saving)' /\ (saving' = F!None <=> saving = F!None)
    BY <1>02, <2>2
  <2>8. AloneIsOnly'
    BY <2>2, <2>3, <2>5, <2>7 DEF AloneIsOnly, Holds
  <2> QED BY <2>5, <2>6, <2>8 DEF F!ProfileIsCurrent, F!Idle
<1>9. CASE F!Mutated \/ F!Reconciled
  <2>1. /\ shown' = mutating.profile /\ mutating' = F!None
        /\ mutating.phase \in {"answered", "read"} /\ certain' = mutating.alone
        /\ UNCHANGED <<stored, draft, saving, late>>
    BY <1>9 DEF F!Mutated, F!Reconciled
  <2>2. mutating # F!None /\ mutating.alone \in BOOLEAN /\ mutating.profile \in F!Profiles
    BY <1>0, <1>01, <2>1, RequestIs
  <2>3. adding' \in BOOLEAN
    BY <1>9 DEF F!Mutated, F!Reconciled, ProfileTyped
  <2>4. ProfileTyped'
    BY <1>04, <2>1, <2>2, <2>3 DEF ProfileTyped
  <2>5. Alone(mutating) <=> mutating.alone
    BY <2>2 DEF Alone
  <2>6. mutating.alone => saving = F!None /\ mutating.profile = stored
    BY <2>1, <2>5 DEF AloneIsOnly, Holds
  <2>7. AloneIsOnly'
    BY <1>04, <2>1, <2>6, NoneIsNone DEF AloneIsOnly, Holds, Alone
  <2> QED BY <2>1, <2>4, <2>6, <2>7 DEF F!ProfileIsCurrent
<1>10. CASE F!MutateFails
  <2> DEFINE alone == mutating.alone /\ late' = {}
             w == mutating.write
  <2>1. mutating # F!None /\ w \in F!Changes /\ mutating.alone \in BOOLEAN
    BY <1>01, <1>10 DEF F!MutateFails
  <2>2. /\ late' \in {{}, {w}, late} /\ certain' = FALSE
        /\ mutating' = [phase |-> "failed", write |-> w, alone |-> alone]
        /\ saving' = F!NotAlone(saving)
        /\ UNCHANGED <<stored, shown, draft, adding>>
    BY <1>10 DEF F!MutateFails
  <2>3. alone \in BOOLEAN /\ (alone => mutating.alone /\ late' = {})
    BY <2>1
  <2> HIDE DEF alone, w
  <2>4. LET r == [phase |-> "failed", write |-> w, alone |-> alone]
        IN  r \in F!Requests(F!Changes) /\ r # F!None /\ (Alone(r) <=> alone) /\ r.phase = "failed"
    BY <2>1, <2>3, AskedIs
  <2>5. /\ mutating' \in F!Requests(F!Changes) /\ mutating' # F!None /\ mutating'.phase = "failed"
        /\ Alone(mutating)' <=> alone
    BY <2>2, <2>4
  <2>6. ProfileTyped'
    BY <1>02, <2>1, <2>2, <2>5 DEF ProfileTyped
  <2>7. ~Alone(saving)' /\ (saving' = F!None <=> saving = F!None)
    BY <1>02, <2>2
  <2>8. mutating.alone => saving = F!None
    BY <2>1 DEF AloneIsOnly, Alone
  <2>9. AloneIsOnly'
    BY <2>2, <2>3, <2>5, <2>7, <2>8 DEF AloneIsOnly, Holds
  <2> QED BY <2>2, <2>6, <2>9 DEF F!ProfileIsCurrent
<1>11. CASE F!ServeReread
  <2> DEFINE r == [phase |-> "read", write |-> mutating.write, alone |-> mutating.alone,
                   profile |-> stored]
  <2>1. mutating # F!None /\ mutating.write \in F!Changes /\ mutating.alone \in BOOLEAN
    BY <1>01, <1>11 DEF F!ServeReread
  <2>2. /\ mutating.phase = "failed" /\ mutating' = r
        /\ UNCHANGED <<stored, shown, draft, saving, late, adding, certain>>
    BY <1>11 DEF F!ServeReread
  <2>3. /\ r \in [phase : {"answered", "read"}, write : F!Changes, alone : BOOLEAN, profile : F!Profiles]
        /\ r.phase = "read" /\ r.profile = stored
        /\ r.alone <=> mutating.alone
    BY <1>0, <2>1
  <2> HIDE DEF r
  <2>4. r \in F!Requests(F!Changes) /\ r # F!None
    BY <2>3, NoneIsNone DEF F!Requests
  <2>5. ProfileTyped'
    BY <2>2, <2>4 DEF ProfileTyped
  <2>6. Alone(mutating)' <=> Alone(mutating)
    BY <2>1, <2>2, <2>3, <2>4 DEF Alone
  <2>7. AloneIsOnly'
    BY <2>1, <2>2, <2>3, <2>4, <2>6 DEF AloneIsOnly, Holds, Alone
  <2> QED BY <2>2, <2>4, <2>5, <2>7 DEF F!ProfileIsCurrent, F!Idle
<1>12. CASE F!RereadFails
  <2>1. /\ mutating.phase \in {"failed", "read"} /\ mutating' = F!None
        /\ UNCHANGED <<stored, shown, draft, saving, late, adding, certain>>
    BY <1>12 DEF F!RereadFails
  <2>2. ~certain
    BY <2>1 DEF AloneIsOnly
  <2>3. ProfileTyped'
    BY <1>04, <2>1 DEF ProfileTyped
  <2>4. AloneIsOnly'
    BY <1>04, <2>1, <2>2 DEF AloneIsOnly, Holds, Alone
  <2> QED BY <2>1, <2>2, <2>3, <2>4 DEF F!ProfileIsCurrent
<1> QED BY <1>1, <1>2, <1>3, <1>4, <1>5, <1>6, <1>7, <1>8, <1>9, <1>10, <1>11, <1>12
DEF F!ProfileNext

LEMMA ProfileInvHolds == Spec => [](screen = "profile" => ProfileInv)
<1> DEFINE Inv == screen = "profile" => ProfileInv
<1>1. Init => Inv
  BY ProfileInitHolds DEF Init
<1>2. Inv /\ [Next]_vars => Inv'
  <2> SUFFICES ASSUME Inv, [Next]_vars, screen' = "profile" PROVE ProfileInv'
    OBVIOUS
  <2>1. CASE Next
    BY <2>1, StepOfPage, ProfileStep
  <2>2. CASE UNCHANGED vars
    <3>1. UNCHANGED profileVars /\ ProfileInv
      BY <2>2 DEF vars
    <3> QED BY <3>1
    DEF profileVars, ProfileInv, ProfileTyped, AloneIsOnly, Holds, Alone, F!ProfileIsCurrent,
        F!Idle
  <2> QED BY <2>1, <2>2
<1> QED BY <1>1, <1>2, PTL DEF Spec

\* Once an answer that had the profile to itself was taken and nothing is
\* on its way, the student's profile page shows what the server has; what
\* it shows after a reread that failed or a save that was lost is left open.
THEOREM ProfileIsCurrentHolds == Spec => []ProfileIsCurrent
<1>1. (screen = "profile" => ProfileInv) => ProfileIsCurrent
  BY DEF ProfileIsCurrent, ProfileInv
<1> QED BY <1>1, ProfileInvHolds, PTL

-----------------------------------------------------------------------------
(***************************************************************************)
(* The lists of notifications.                                             *)
(***************************************************************************)
ListData == [unread : SUBSET N!Notes]
BellQueries == N!Queries({N!ClosedKey} \union N!BellKeys, ListData)
FeedQueries == N!Queries(N!FeedKeys, ListData)
ListTyped(q) == q \in FeedQueries \/ q \in BellQueries
Counted == {N!Nothing} \union N!BellKeys

NotificationsTyped ==
    /\ inbox \in [arrived : 0 .. MaxNotes, read : SUBSET N!Notes]
    /\ counters \in [shown : 0 .. MaxNotes, polls : Seq(Counted)]
    /\ ListTyped(list)
    /\ act \in {N!NoAct} \union [kind : {"read", "open", "all"}, notes : SUBSET N!Notes,
                                 phase : {"asked", "ok"}]
    /\ acked \subseteq inbox.read

Offers(q, read) ==
    /\ q.call = "served" => q.answer.unread \intersect read = {}
    /\ q.status = "ready" => q.data.unread \intersect read = {}

\* What the server said is unread was never told to be read, neither in
\* the answer on its way nor in the one that is held, whichever key it is for.
UnreadIsNotAcked ==
    /\ Offers(list, acked)
    /\ act.phase = "ok" => act.notes \subseteq inbox.read

NotificationsInv == NotificationsTyped /\ UnreadIsNotAcked

LEMMA MaxNotesIsNat == MaxNotes \in Nat
BY PagesAssumption DEF N!NotesAssumption

LEMMA FeedOrBell ==
    ASSUME NotificationsTyped
    PROVE  /\ N!isFeed => list \in FeedQueries
           /\ ~N!isFeed => list \in BellQueries
<1>1. ASSUME NEW k \in N!FeedKeys PROVE Len(k) = 2
  <2>1. \A b \in BOOLEAN : Len(<<b, 1>>) = 2
    OBVIOUS
  <2> QED BY <2>1, Zenon DEF N!FeedKeys
<1>2. ASSUME NEW k \in {N!ClosedKey} \union N!BellKeys PROVE Len(k) # 2
  BY DEF N!ClosedKey, N!BellKeys
<1>3. list \in N!Queries(N!FeedKeys, ListData) => list.key \in N!FeedKeys
  BY DEF N!Queries
<1>4. list \in N!Queries({N!ClosedKey} \union N!BellKeys, ListData) => list.key \in {N!ClosedKey} \union N!BellKeys
  BY DEF N!Queries
<1> QED BY <1>1, <1>2, <1>3, <1>4
DEF NotificationsTyped, N!isFeed, ListTyped, FeedQueries, BellQueries

(* What becomes of a query leaves it one, and what it holds an answer.      *)

LEMMA ListQueryKept ==
    ASSUME NEW K, NEW k \in K, NEW q \in N!Queries(K, ListData), NEW d \in ListData
    PROVE  /\ N!Load(k) \in N!Queries(K, ListData)
           /\ N!Retry(q) \in N!Queries(K, ListData)
           /\ N!Rekey(q, k) \in N!Queries(K, ListData)
           /\ N!Served(q, d) \in N!Queries(K, ListData)
           /\ N!Taken(q) \in N!Queries(K, ListData)
           /\ N!Failed(q) \in N!Queries(K, ListData)
           /\ [q EXCEPT !.key = k, !.call = "none", !.answer = N!Nothing] \in N!Queries(K, ListData)
<1>1. q.key \in K
  BY DEF N!Queries
<1>2. ASSUME NEW x \in K PROVE N!Load(x) \in N!Queries(K, ListData)
  BY DEF N!Load, N!Queries
<1>3. N!Retry(q) \in N!Queries(K, ListData)
  BY <1>1, <1>2 DEF N!Retry
<1>4. N!Rekey(q, k) \in N!Queries(K, ListData)
  BY DEF N!Rekey, N!Queries
<1>5. N!Served(q, d) \in N!Queries(K, ListData)
  BY DEF N!Served, N!Queries
<1>6. N!Taken(q) \in N!Queries(K, ListData)
  BY DEF N!Taken, N!Queries
<1>7. N!Failed(q) \in N!Queries(K, ListData)
  BY DEF N!Failed, N!Queries
<1>8. [q EXCEPT !.key = k, !.call = "none", !.answer = N!Nothing] \in N!Queries(K, ListData)
  BY DEF N!Queries
<1> QED BY <1>2, <1>3, <1>4, <1>5, <1>6, <1>7, <1>8

(* A counter is one of the keys of the bell.                                *)

LEMMA CountIsCounted ==
    ASSUME inbox \in [arrived : 0 .. MaxNotes, read : SUBSET N!Notes]
    PROVE  /\ N!unreadNotifications \subseteq N!Notes
           /\ N!Cardinality(N!unreadNotifications) \in 0 .. MaxNotes
<1> USE MaxNotesIsNat
<1>1. N!unreadNotifications \subseteq 1 .. MaxNotes
  BY DEF N!unreadNotifications
<1>2. IsFiniteSet(1 .. MaxNotes) /\ Cardinality(1 .. MaxNotes) = MaxNotes
  BY FS_Interval
<1>3. /\ IsFiniteSet(N!unreadNotifications)
      /\ Cardinality(N!unreadNotifications) <= MaxNotes
  BY <1>1, <1>2, FS_Subset
<1>4. Cardinality(N!unreadNotifications) \in Nat
  BY <1>3, FS_CardinalityType
<1>5. N!Cardinality(N!unreadNotifications) = Cardinality(N!unreadNotifications)
  BY Zenon DEF N!Cardinality, Cardinality
<1> QED BY <1>1, <1>3, <1>4, <1>5 DEF N!Notes

LEMMA PollRemoved ==
    ASSUME NEW s \in Seq(Counted), NEW i \in DOMAIN s
    PROVE  N!RemoveAt(s, i) \in Seq(Counted) /\ s[i] \in Counted
<1>1. SubSeq(s, 1, i - 1) \in Seq(Counted)
  BY SubSeqProperties
<1>2. SubSeq(s, i + 1, Len(s)) \in Seq(Counted)
  BY SubSeqProperties
<1> QED BY <1>1, <1>2, ConcatProperties DEF N!RemoveAt

LEMMA OffersKept ==
    ASSUME NEW K, NEW k \in K, NEW q \in N!Queries(K, ListData), NEW d \in ListData, NEW read,
           Offers(q, read)
    PROVE  /\ \A x, r : Offers(N!Load(x), r)
           /\ Offers(N!Retry(q), read)
           /\ Offers(N!Rekey(q, k), read)
           /\ d.unread \intersect read = {} => Offers(N!Served(q, d), read)
           /\ N!Arriving(q) => Offers(N!Taken(q), read)
           /\ Offers(N!Failed(q), read)
           /\ Offers([q EXCEPT !.key = k, !.call = "none", !.answer = N!Nothing], read)
<1> USE DEF Offers
<1>1. ASSUME NEW x, NEW r PROVE Offers(N!Load(x), r)
  BY DEF N!Load
<1>2. Offers(N!Retry(q), read)
  BY DEF N!Load, N!Retry
<1>3. Offers(N!Rekey(q, k), read)
  BY DEF N!Rekey, N!Queries
<1>4. d.unread \intersect read = {} => Offers(N!Served(q, d), read)
  BY DEF N!Served, N!Queries
<1>5. N!Arriving(q) => Offers(N!Taken(q), read)
  BY DEF N!Taken, N!Arriving, N!Queries
<1>6. Offers(N!Failed(q), read)
  BY DEF N!Failed, N!Queries
<1>7. Offers([q EXCEPT !.key = k, !.call = "none", !.answer = N!Nothing], read)
  BY DEF N!Queries
<1> QED BY <1>1, <1>2, <1>3, <1>4, <1>5, <1>6, <1>7

(* A list that mounts anew.                                                 *)

LEMMA Remounts ==
    /\ N!Feed \in FeedQueries /\ \A r : Offers(N!Feed, r)
    /\ N!Bell \in BellQueries /\ \A r : Offers(N!Bell, r)
<1>1. N!Feed \in FeedQueries /\ \A r : Offers(N!Feed, r)
  BY DEF N!Feed, N!Load, FeedQueries, N!Queries, N!FeedKeys, Offers
<1>2. N!Bell \in BellQueries
  BY DEF N!Bell, N!Load, BellQueries, N!Queries
<1>3. N!Bell.call = "none" /\ N!Bell.status = "loading"
  BY DEF N!Bell, N!Load
<1> QED BY <1>1, <1>2, <1>3 DEF Offers

LEMMA NotificationsInitHolds ==
    ASSUME N!NotificationsInit
    PROVE  NotificationsInv
<1>1. NotificationsTyped
  BY Remounts, MaxNotesIsNat DEF N!NotificationsInit, NotificationsTyped, ListTyped, Counted
<1>2. UnreadIsNotAcked
  BY Remounts DEF N!NotificationsInit, UnreadIsNotAcked, N!NoAct
<1> QED BY <1>1, <1>2 DEF NotificationsInv

LEMMA NotificationsStep ==
    ASSUME NotificationsInv, N!NotificationsNext
    PROVE  NotificationsInv'
<1> USE MaxNotesIsNat DEF NotificationsInv
<1>0. /\ inbox \in [arrived : 0 .. MaxNotes, read : SUBSET N!Notes]
      /\ counters \in [shown : 0 .. MaxNotes, polls : Seq(Counted)]
      /\ ListTyped(list) /\ Offers(list, acked)
      /\ act \in {N!NoAct} \union [kind : {"read", "open", "all"}, notes : SUBSET N!Notes,
                                   phase : {"asked", "ok"}]
      /\ acked \subseteq inbox.read
  BY DEF NotificationsTyped, UnreadIsNotAcked
<1>1. CASE N!Arrives
  <2>1. inbox' \in [arrived : 0 .. MaxNotes, read : SUBSET N!Notes] /\ inbox'.read = inbox.read
    BY <1>0, <1>1 DEF N!Arrives
  <2>2. UNCHANGED <<counters, list, act, acked>>
    BY <1>1 DEF N!Arrives
  <2> QED BY <2>1, <2>2 DEF NotificationsTyped, UnreadIsNotAcked
<1>2. CASE N!ReadElsewhere
  <2>1. inbox' \in [arrived : 0 .. MaxNotes, read : SUBSET N!Notes] /\ inbox.read \subseteq inbox'.read
    BY <1>0, <1>2, CountIsCounted DEF N!ReadElsewhere
  <2>2. UNCHANGED <<counters, list, act, acked>>
    BY <1>2 DEF N!ReadElsewhere
  <2> QED BY <2>1, <2>2 DEF NotificationsTyped, UnreadIsNotAcked
<1>3. CASE N!ServeAct
  <2> DEFINE marked == IF act.kind = "all" THEN 1 .. inbox.arrived ELSE act.notes
  <2>1. act \in [kind : {"read", "open", "all"}, notes : SUBSET N!Notes, phase : {"asked", "ok"}]
    BY <1>0, <1>3 DEF N!ServeAct, N!NoAct
  <2>2. marked \subseteq N!Notes
    BY <1>0, <2>1 DEF N!Notes
  <2>3. /\ inbox' = [inbox EXCEPT !.read = @ \union marked]
        /\ act' = [act EXCEPT !.phase = "ok", !.notes = marked]
        /\ UNCHANGED <<counters, list, acked>>
    BY <1>3 DEF N!ServeAct
  <2> HIDE DEF marked
  <2>4. /\ inbox' \in [arrived : 0 .. MaxNotes, read : SUBSET N!Notes]
        /\ inbox'.read = inbox.read \union marked
    BY <1>0, <2>2, <2>3
  <2>5. /\ act' \in [kind : {"read", "open", "all"}, notes : SUBSET N!Notes, phase : {"asked", "ok"}]
        /\ act'.notes = marked
    BY <2>1, <2>2, <2>3
  <2> QED BY <2>3, <2>4, <2>5 DEF NotificationsTyped, UnreadIsNotAcked
<1>4. CASE N!Poll \/ N!ServePoll
  <2>1. counters' \in [shown : 0 .. MaxNotes, polls : Seq(Counted)]
    <3>1. CASE N!Poll
      <4>1. counters' = [counters EXCEPT !.polls = Append(counters.polls, N!Nothing)]
        BY <3>1 DEF N!Poll
      <4>2. Append(counters.polls, N!Nothing) \in Seq(Counted)
        BY <1>0 DEF Counted
      <4> QED BY <1>0, <4>1, <4>2
    <3>2. CASE N!ServePoll
      <4> DEFINE c == <<N!Cardinality(N!unreadNotifications)>>
      <4>1. PICK i \in DOMAIN counters.polls : counters' = [counters EXCEPT !.polls[i] = c]
        BY <3>2 DEF N!ServePoll
      <4>2. c \in Counted
        BY <1>0, CountIsCounted DEF Counted, N!BellKeys
      <4> HIDE DEF c
      <4>3. [counters.polls EXCEPT ![i] = c] \in Seq(Counted)
        BY <1>0, <4>2
      <4> QED BY <1>0, <4>1, <4>3
    <3> QED BY <1>4, <3>1, <3>2
  <2>2. UNCHANGED <<inbox, list, act, acked>>
    BY <1>4 DEF N!Poll, N!ServePoll
  <2> QED BY <2>1, <2>2 DEF NotificationsTyped, UnreadIsNotAcked
<1>5. CASE N!PollEnds
  <2>1. PICK i \in DOMAIN counters.polls :
           LET rest == N!RemoveAt(counters.polls, i)
               unreadCount == counters.polls[i]
           IN  /\ \/ /\ unreadCount # N!Nothing
                     /\ counters' = [shown |-> unreadCount[1], polls |-> rest]
                     /\ list' = IF N!isOpen THEN N!Rekey(list, unreadCount) ELSE list
                  \/ counters' = [counters EXCEPT !.polls = rest] /\ UNCHANGED list
               /\ UNCHANGED <<inbox, act, acked>>
    BY <1>5 DEF N!PollEnds
  <2>2. N!RemoveAt(counters.polls, i) \in Seq(Counted) /\ counters.polls[i] \in Counted
    BY <1>0, PollRemoved
  <2>3. counters.polls[i] # N!Nothing =>
           counters.polls[i] \in N!BellKeys /\ counters.polls[i][1] \in 0 .. MaxNotes
    BY <2>2 DEF Counted, N!BellKeys
  <2>4. counters' \in [shown : 0 .. MaxNotes, polls : Seq(Counted)]
    BY <1>0, <2>1, <2>2, <2>3
  <2>5. ListTyped(list)' /\ Offers(list, acked)'
    <3>1. CASE UNCHANGED list
      BY <1>0, <2>1, <3>1
    <3>2. CASE N!isOpen /\ counters.polls[i] \in N!BellKeys /\ list' = N!Rekey(list, counters.polls[i])
      <4> DEFINE K == {N!ClosedKey} \union N!BellKeys
                 k == counters.polls[i]
      <4>1. list \in N!Queries(K, ListData) /\ k \in K /\ [unread |-> {}] \in ListData
        BY <3>2, FeedOrBell DEF N!isOpen, BellQueries, ListData
      <4> HIDE DEF K, k
      <4>2. N!Rekey(list, k) \in N!Queries(K, ListData) /\ Offers(N!Rekey(list, k), acked)
        BY <1>0, <4>1, ListQueryKept, OffersKept
      <4> QED BY <2>1, <3>2, <4>2 DEF ListTyped, BellQueries, K, k
    <3> QED BY <2>1, <2>3, <3>1, <3>2
  <2>6. UNCHANGED <<inbox, act, acked>>
    BY <2>1
  <2> QED BY <2>4, <2>5, <2>6 DEF NotificationsTyped, UnreadIsNotAcked
<1>6. CASE N!ListAnswers \/ N!ToggleBell \/ \E key \in N!FeedKeys : N!ShowFilter(key)
  <2> DEFINE d == [unread |-> N!unreadNotifications]
             K == IF N!isFeed THEN N!FeedKeys ELSE {N!ClosedKey} \union N!BellKeys
  <2>1. list \in N!Queries(K, ListData)
    BY FeedOrBell DEF FeedQueries, BellQueries
  <2>2. d \in ListData /\ d.unread \intersect acked = {}
    BY <1>0, CountIsCounted DEF ListData, N!unreadNotifications
  <2>3. N!ListAnswers =>
           \/ list' = N!Served(list, d)
           \/ N!Arriving(list) /\ list' = N!Taken(list)
           \/ list' = N!Failed(list)
           \/ list' = N!Retry(list)
    BY DEF N!ListAnswers
  <2>4. N!ToggleBell =>
           \E k \in K : \/ list' = N!Rekey(list, k)
                       \/ list' = [list EXCEPT !.key = k, !.call = "none", !.answer = N!Nothing]
    <3>1. N!ToggleBell => ~N!isFeed /\ (list' = N!CloseBell \/ list' = N!Rekey(list, <<counters.shown>>))
      BY DEF N!ToggleBell
    <3>2. ~N!isFeed => N!ClosedKey \in K /\ <<counters.shown>> \in K
      BY <1>0 DEF N!BellKeys
    <3> HIDE DEF K
    <3> QED BY <3>1, <3>2 DEF N!CloseBell
  <2>5. ASSUME NEW key \in N!FeedKeys, N!ShowFilter(key)
        PROVE  key \in K /\ list' = N!Rekey(list, key)
    BY <2>5 DEF N!ShowFilter
  <2>6. list.key \in K /\ UNCHANGED <<inbox, counters, act, acked>>
    BY <1>6, <2>1 DEF N!ListAnswers, N!ToggleBell, N!ShowFilter, N!Queries
  <2> HIDE DEF d, K
  <2>7. list' \in N!Queries(K, ListData) /\ Offers(list', acked)
    <3>1. CASE N!ListAnswers
      <4>1. /\ N!Served(list, d) \in N!Queries(K, ListData) /\ N!Taken(list) \in N!Queries(K, ListData)
            /\ N!Failed(list) \in N!Queries(K, ListData) /\ N!Retry(list) \in N!Queries(K, ListData)
        BY <2>1, <2>2, <2>6, ListQueryKept
      <4>2. /\ Offers(N!Served(list, d), acked) /\ (N!Arriving(list) => Offers(N!Taken(list), acked))
            /\ Offers(N!Failed(list), acked) /\ Offers(N!Retry(list), acked)
        BY <1>0, <2>1, <2>2, <2>6, OffersKept
      <4> QED BY <2>3, <2>6, <3>1, <4>1, <4>2, Zenon
    <3>2. ASSUME NEW k \in K, list' = N!Rekey(list, k)
          PROVE  list' \in N!Queries(K, ListData) /\ Offers(list', acked)
      BY <1>0, <2>1, <2>2, <3>2, ListQueryKept, OffersKept
    <3>3. ASSUME NEW k \in K, list' = [list EXCEPT !.key = k, !.call = "none", !.answer = N!Nothing]
          PROVE  list' \in N!Queries(K, ListData) /\ Offers(list', acked)
      BY <1>0, <2>1, <2>2, <3>3, ListQueryKept, OffersKept
    <3> QED BY <1>6, <2>4, <2>5, <3>1, <3>2, <3>3
  <2>8. ListTyped(list')
    BY <2>7 DEF ListTyped, FeedQueries, BellQueries, K
  <2> QED BY <2>6, <2>7, <2>8 DEF NotificationsTyped, UnreadIsNotAcked
<1>7. CASE N!markAll \/ \E n \in N!Notes : N!markRead(n) \/ N!open(n)
  <2>1. /\ act' \in [kind : {"read", "open", "all"}, notes : SUBSET N!Notes, phase : {"asked", "ok"}]
        /\ act'.phase = "asked"
    BY <1>7 DEF N!markAll, N!markRead, N!open, N!run
  <2>2. UNCHANGED <<inbox, counters, acked>> /\ (UNCHANGED list \/ (~N!isFeed /\ list' = N!CloseBell))
    BY <1>7 DEF N!markAll, N!markRead, N!open, N!run, N!isOpen
  <2>3. ListTyped(list)' /\ Offers(list, acked)'
    <3>1. CASE UNCHANGED list
      BY <1>0, <2>2, <3>1
    <3>2. CASE ~N!isFeed /\ list' = N!CloseBell
      <4> DEFINE K == {N!ClosedKey} \union N!BellKeys
      <4>1. list \in N!Queries(K, ListData) /\ N!ClosedKey \in K /\ [unread |-> {}] \in ListData
        BY <3>2, FeedOrBell DEF BellQueries, ListData
      <4> HIDE DEF K
      <4>2. N!CloseBell \in N!Queries(K, ListData) /\ Offers(N!CloseBell, acked)
        BY <1>0, <4>1, ListQueryKept, OffersKept DEF N!CloseBell
      <4> QED BY <2>2, <3>2, <4>2 DEF ListTyped, BellQueries, K
    <3> QED BY <2>2, <3>1, <3>2
  <2> QED BY <2>1, <2>2, <2>3 DEF NotificationsTyped, UnreadIsNotAcked
<1>8. CASE N!Visit \/ N!OpenEnds
  <2>1. /\ list' = (IF N!isFeed THEN N!Feed ELSE N!Bell)
        /\ counters' = [shown |-> 0, polls |-> <<N!Nothing>>]
        /\ act' = N!NoAct
        /\ UNCHANGED <<inbox, acked>>
    BY <1>8 DEF N!Visit, N!OpenEnds
  <2>2. ListTyped(list') /\ Offers(list', acked)
    BY <2>1, Remounts DEF ListTyped
  <2>3. counters' \in [shown : 0 .. MaxNotes, polls : Seq(Counted)]
    BY <2>1 DEF Counted
  <2>4. act'.phase = "none"
    BY <2>1 DEF N!NoAct
  <2> QED BY <2>1, <2>2, <2>3, <2>4 DEF NotificationsTyped, UnreadIsNotAcked
<1>9. ASSUME NEW answered \in BOOLEAN, N!ActEnds(answered) PROVE NotificationsInv'
  <2>1. /\ act' = N!NoAct /\ UNCHANGED inbox
        /\ acked' = IF answered THEN acked \union act.notes ELSE acked
        /\ answered => act.phase = "ok"
        /\ counters' = [counters EXCEPT !.polls = <<N!Nothing>>]
        /\ list' = IF N!isFeed \/ N!isOpen THEN N!Load(list.key) ELSE N!Bell
    BY <1>9 DEF N!ActEnds, N!onChanged
  <2>2. acked' \subseteq inbox.read
    BY <1>0, <2>1 DEF UnreadIsNotAcked
  <2>3. counters' \in [shown : 0 .. MaxNotes, polls : Seq(Counted)]
    <3>1. <<N!Nothing>> \in Seq(Counted)
      BY DEF Counted
    <3> QED BY <1>0, <2>1, <3>1
  <2>4. ListTyped(N!Load(list.key)) /\ \A r : Offers(N!Load(list.key), r)
    <3>1. ASSUME NEW K, list \in N!Queries(K, ListData) PROVE N!Load(list.key) \in N!Queries(K, ListData)
      BY <3>1 DEF N!Queries, N!Load
    <3>2. \A r : Offers(N!Load(list.key), r)
      BY DEF N!Load, Offers
    <3> QED BY <1>0, <3>1, <3>2 DEF ListTyped, FeedQueries, BellQueries
  <2>5. ListTyped(list') /\ \A r : Offers(list', r)
    BY <2>1, <2>4, Remounts DEF ListTyped
  <2>6. act'.phase = "none"
    BY <2>1 DEF N!NoAct
  <2> QED BY <2>1, <2>2, <2>3, <2>5, <2>6 DEF NotificationsTyped, UnreadIsNotAcked
<1> QED BY <1>1, <1>2, <1>3, <1>4, <1>5, <1>6, <1>7, <1>8, <1>9 DEF N!NotificationsNext

LEMMA NotificationsSafe ==
    ASSUME NotificationsInv
    PROVE  N!MarkedIsRead
BY DEF NotificationsInv, UnreadIsNotAcked, Offers, N!MarkedIsRead, N!shown, N!Ready, N!Shows

LEMMA NotificationsInvHolds == Spec => [](screen = "notifications" => NotificationsInv)
<1> DEFINE Inv == screen = "notifications" => NotificationsInv
<1>1. Init => Inv
  BY NotificationsInitHolds DEF Init
<1>2. Inv /\ [Next]_vars => Inv'
  <2> SUFFICES ASSUME Inv, [Next]_vars, screen' = "notifications" PROVE NotificationsInv'
    OBVIOUS
  <2>1. CASE Next
    BY <2>1, StepOfPage, NotificationsStep
  <2>2. CASE UNCHANGED vars
    <3>1. UNCHANGED notificationVars /\ NotificationsInv
      BY <2>2 DEF vars
    <3> QED BY <3>1
    DEF notificationVars, NotificationsInv, NotificationsTyped, UnreadIsNotAcked, Offers,
        ListTyped
  <2> QED BY <2>1, <2>2
<1> QED BY <1>1, <1>2, PTL DEF Spec

\* A list never offers as unread a notification that it was told is read,
\* whichever polls and loads are still in flight.
THEOREM MarkedIsReadHolds == Spec => []MarkedIsRead
<1>1. (screen = "notifications" => NotificationsInv) => MarkedIsRead
  BY NotificationsSafe DEF MarkedIsRead
<1> QED BY <1>1, NotificationsInvHolds, PTL

-----------------------------------------------------------------------------
(***************************************************************************)
(* The pages of blocks and reports.                                        *)
(***************************************************************************)
SafetyQueried ==
    /\ safetyQuery \in S!Queries(S!SafetyScreens, S!Trust)
    /\ safetyQuery.held = safetyQuery.key
    /\ safetyQuery.call = "served" => safetyQuery.answer \in S!Trust
    /\ safetyQuery.status = "ready" => safetyQuery.data \in S!Trust

\* A report that is open can still be closed.
SafetyTyped ==
    /\ S!SafetyTypeOK /\ SafetyQueried
    /\ trust.open => trust.closed < MaxReports

\* Reports are not made from the lists, and a write whose page is open
\* answers that page.
SafetyWritten ==
    /\ safety.dialog = "report" => safetyQuery.key # "reports"
    /\ safetyWrite.from \in S!SafetyScreens => safetyWrite.from = safetyQuery.key
    /\ safetyWrite.action = "report" => safetyWrite.from # "reports"

\* What the page was told holds on the server, and no other write of the
\* page is on its way to change it.
Unheard == IF safetyWrite.action = "report" /\ safetyWrite.phase = "ok" THEN 1 ELSE 0

SafetyHeard ==
    /\ safetyTold.block # "unknown" =>
          /\ trust.blocked = (safetyTold.block = "block")
          /\ safetyWrite.action \in {"none", "report"}
    /\ safetyTold.reports + Unheard <= S!Reports(trust)

\* So does what the server answered, where it is shown.
SafetyTells(t) ==
    /\ safetyTold.block # "unknown" => t.blocked = (safetyTold.block = "block")
    /\ safetyQuery.key = "reports" => S!Reports(t) >= safetyTold.reports

SafetyAnswered ==
    /\ safetyQuery.call = "served" => SafetyTells(safetyQuery.answer)
    /\ safetyQuery.status = "ready" => SafetyTells(safetyQuery.data)
    /\ safetyQuery.status = "ready" /\ safetyQuery.key = "chat" =>
          (safetyTold.block # "unknown" => safety.blocked = (safetyTold.block = "block"))

SafetyInv == SafetyTyped /\ SafetyWritten /\ SafetyHeard /\ SafetyAnswered

(* The query of the page stays one, whatever becomes of it.                 *)

LEMMA SafetyQueryKept ==
    ASSUME SafetyQueried,
           trust \in S!Trust,
           \/ safetyQuery' = safetyQuery
           \/ \E k \in S!SafetyScreens : safetyQuery' = S!Load(k)
           \/ safetyQuery' = S!Retry(safetyQuery)
           \/ safetyQuery' = S!Served(safetyQuery, trust)
           \/ S!Arriving(safetyQuery) /\ safetyQuery' = S!Taken(safetyQuery)
           \/ safetyQuery' = S!Failed(safetyQuery)
    PROVE  SafetyQueried'
<1> USE DEF SafetyQueried
<1>1. CASE safetyQuery' = safetyQuery BY <1>1
<1>2. ASSUME NEW k \in S!SafetyScreens, safetyQuery' = S!Load(k) PROVE SafetyQueried'
  BY <1>2 DEF S!Load, S!Queries, S!Nothing
<1>6. CASE safetyQuery' = S!Retry(safetyQuery)
  BY <1>6 DEF S!Load, S!Retry, S!Queries, S!Nothing
<1>3. CASE safetyQuery' = S!Served(safetyQuery, trust)
  BY <1>3 DEF S!Served, S!Queries
<1>4. CASE S!Arriving(safetyQuery) /\ safetyQuery' = S!Taken(safetyQuery)
  BY <1>4 DEF S!Taken, S!Arriving, S!Queries, S!Nothing
<1>5. CASE safetyQuery' = S!Failed(safetyQuery)
  BY <1>5 DEF S!Failed, S!Queries, S!Nothing
<1> QED BY <1>1, <1>2, <1>3, <1>4, <1>5, <1>6

LEMMA SafetyInitTyped ==
    ASSUME S!SafetyInit
    PROVE  SafetyInv
<1>1. PICK k \in S!SafetyScreens : safetyQuery = S!Load(k)
  BY DEF S!SafetyInit
<1>2. SafetyQueried
  BY <1>1 DEF SafetyQueried, S!Load, S!Queries, S!Nothing
<1>3. PICK b \in BOOLEAN, o \in BOOLEAN : trust = [blocked |-> b, open |-> o, closed |-> 0]
  BY DEF S!SafetyInit
<1>4. SafetyTyped
  BY <1>2, <1>3, PagesAssumption
  DEF SafetyTyped, S!SafetyTypeOK, S!SafetyInit, S!Trust, SafetyQueried, S!Unmounted,
      S!NoWrite, S!ReportsAssumption
<1>5. SafetyWritten /\ SafetyHeard
  BY <1>3
  DEF S!SafetyInit, SafetyWritten, SafetyHeard, Unheard, S!Unmounted, S!NoWrite, S!Reports,
      S!SafetyScreens
<1>6. SafetyAnswered
  BY <1>1 DEF SafetyAnswered, S!Load
<1> QED BY <1>4, <1>5, <1>6 DEF SafetyInv

LEMMA SafetyStep ==
    ASSUME SafetyInv, S!SafetyNext
    PROVE  SafetyInv'
<1> USE PagesAssumption DEF SafetyInv, S!ReportsAssumption
<1>1. CASE S!AnswerQuery
  <2>1. SafetyQueried'
    BY <1>1, SafetyQueryKept DEF S!AnswerQuery, S!Served, SafetyTyped, S!SafetyTypeOK
  <2>2. SafetyTyped'
    BY <1>1, <2>1
    DEF S!AnswerQuery, S!Served, SafetyTyped, S!SafetyTypeOK, SafetyQueried, S!Trust
  <2>3. SafetyWritten'
    BY <1>1
    DEF S!AnswerQuery, S!Served, SafetyTyped, SafetyQueried, SafetyWritten, S!SafetyTypeOK,
        S!Queries, S!SafetyScreens
  <2>4. SafetyHeard'
    BY <1>1
    DEF S!AnswerQuery, S!Served, SafetyTyped, SafetyQueried, SafetyHeard, Unheard, S!Reports,
        S!SafetyTypeOK, S!Trust
  <2>5. SafetyAnswered'
    BY <1>1
    DEF S!AnswerQuery, S!Served, SafetyTyped, SafetyQueried, SafetyHeard, SafetyAnswered,
        SafetyTells, Unheard, S!Reports, S!SafetyTypeOK, S!Trust, S!Queries
  <2> QED BY <2>2, <2>3, <2>4, <2>5
<1>2. CASE S!TakeAnswer
  <2>1. SafetyQueried'
    BY <1>2, SafetyQueryKept DEF S!TakeAnswer, S!Taken, S!Arriving, SafetyTyped, S!SafetyTypeOK
  <2>2. SafetyTyped'
    BY <1>2, <2>1
    DEF S!TakeAnswer, S!Taken, S!Arriving, SafetyTyped, S!SafetyTypeOK, SafetyQueried, S!Trust
  <2>3. SafetyWritten'
    BY <1>2
    DEF S!TakeAnswer, S!Taken, S!Arriving, SafetyTyped, SafetyQueried, SafetyWritten,
        S!SafetyTypeOK, S!Queries, S!SafetyScreens
  <2>4. SafetyHeard'
    BY <1>2
    DEF S!TakeAnswer, S!Taken, S!Arriving, SafetyTyped, SafetyQueried, SafetyHeard, Unheard,
        S!Reports, S!SafetyTypeOK, S!Trust
  <2>5. SafetyAnswered'
    BY <1>2
    DEF S!TakeAnswer, S!Taken, S!Arriving, SafetyTyped, SafetyQueried, SafetyHeard,
        SafetyAnswered, SafetyTells, Unheard, S!Reports, S!SafetyTypeOK, S!Trust, S!Queries
  <2> QED BY <2>2, <2>3, <2>4, <2>5
<1>3. CASE S!QueryFails
  <2>1. SafetyQueried'
    BY <1>3, SafetyQueryKept DEF S!QueryFails, S!Failed, SafetyTyped, S!SafetyTypeOK
  <2>2. SafetyTyped'
    BY <1>3, <2>1
    DEF S!QueryFails, S!Failed, SafetyTyped, S!SafetyTypeOK, SafetyQueried, S!Trust
  <2>3. SafetyWritten'
    BY <1>3
    DEF S!QueryFails, S!Failed, SafetyTyped, SafetyQueried, SafetyWritten, S!SafetyTypeOK,
        S!Queries, S!SafetyScreens
  <2>4. SafetyHeard'
    BY <1>3
    DEF S!QueryFails, S!Failed, SafetyTyped, SafetyQueried, SafetyHeard, Unheard, S!Reports,
        S!SafetyTypeOK, S!Trust
  <2>5. SafetyAnswered'
    BY <1>3
    DEF S!QueryFails, S!Failed, SafetyTyped, SafetyQueried, SafetyHeard, SafetyAnswered,
        SafetyTells, Unheard, S!Reports, S!SafetyTypeOK, S!Trust, S!Queries
  <2> QED BY <2>2, <2>3, <2>4, <2>5
<1>4. CASE S!RetryQuery
  <2>1. SafetyQueried'
    BY <1>4, SafetyQueryKept DEF S!RetryQuery, SafetyTyped, S!SafetyTypeOK
  <2>2. SafetyTyped'
    BY <1>4, <2>1
    DEF S!RetryQuery, S!Retry, S!Load, SafetyTyped, S!SafetyTypeOK, SafetyQueried, S!Trust
  <2>3. SafetyWritten'
    BY <1>4
    DEF S!RetryQuery, S!Retry, S!Load, SafetyTyped, SafetyQueried, SafetyWritten,
        S!SafetyTypeOK, S!Queries, S!SafetyScreens
  <2>4. SafetyHeard'
    BY <1>4
    DEF S!RetryQuery, S!Retry, S!Load, SafetyTyped, SafetyQueried, SafetyHeard, Unheard,
        S!Reports, S!SafetyTypeOK, S!Trust
  <2>5. SafetyAnswered'
    BY <1>4
    DEF S!RetryQuery, S!Retry, S!Load, SafetyTyped, SafetyQueried, SafetyHeard,
        SafetyAnswered, SafetyTells, Unheard, S!Reports, S!SafetyTypeOK, S!Trust, S!Queries
  <2> QED BY <2>2, <2>3, <2>4, <2>5
<1>5. ASSUME NEW k \in S!SafetyScreens, S!Visit(k) PROVE SafetyInv'
  <2>1. SafetyQueried'
    BY <1>5, SafetyQueryKept
    DEF S!Visit, S!Go, S!Load, S!Unmounted, S!NoWrite, SafetyTyped, S!SafetyTypeOK
  <2>2. SafetyTyped'
    BY <1>5, <2>1
    DEF S!Visit, S!Go, S!Load, S!Unmounted, S!NoWrite, SafetyTyped, S!SafetyTypeOK,
        SafetyQueried, S!Trust
  <2>3. SafetyWritten'
    BY <1>5
    DEF S!Visit, S!Go, S!Load, S!Unmounted, S!NoWrite, SafetyTyped, SafetyQueried,
        SafetyWritten, S!SafetyTypeOK, S!Queries, S!SafetyScreens
  <2>4. SafetyHeard'
    BY <1>5
    DEF S!Visit, S!Go, S!Load, S!Unmounted, S!NoWrite, SafetyTyped, SafetyQueried,
        SafetyHeard, Unheard, S!Reports, S!SafetyTypeOK, S!Trust
  <2>5. SafetyAnswered'
    BY <1>5
    DEF S!Visit, S!Go, S!Load, S!Unmounted, S!NoWrite, SafetyTyped, SafetyQueried,
        SafetyHeard, SafetyAnswered, SafetyTells, Unheard, S!Reports, S!SafetyTypeOK, S!Trust,
        S!Queries
  <2> QED BY <2>2, <2>3, <2>4, <2>5
<1>6. ASSUME NEW action \in {"block", "unblock", "report"}, S!setDialog(action) PROVE SafetyInv'
  <2>1. SafetyQueried'
    BY <1>6, SafetyQueryKept DEF S!setDialog, S!offered, S!NoWrite, SafetyTyped, S!SafetyTypeOK
  <2>2. SafetyTyped'
    BY <1>6, <2>1
    DEF S!setDialog, S!offered, S!NoWrite, SafetyTyped, S!SafetyTypeOK, SafetyQueried, S!Trust
  <2>3. SafetyWritten'
    BY <1>6
    DEF S!setDialog, S!offered, S!NoWrite, SafetyTyped, SafetyQueried, SafetyWritten,
        S!SafetyTypeOK, S!Queries, S!SafetyScreens
  <2>4. SafetyHeard'
    BY <1>6
    DEF S!setDialog, S!offered, S!NoWrite, SafetyTyped, SafetyQueried, SafetyHeard, Unheard,
        S!Reports, S!SafetyTypeOK, S!Trust
  <2>5. SafetyAnswered'
    BY <1>6
    DEF S!setDialog, S!offered, S!NoWrite, SafetyTyped, SafetyQueried, SafetyHeard,
        SafetyAnswered, SafetyTells, Unheard, S!Reports, S!SafetyTypeOK, S!Trust, S!Queries
  <2> QED BY <2>2, <2>3, <2>4, <2>5
<1>7. CASE S!onClose
  <2>1. SafetyQueried'
    BY <1>7, SafetyQueryKept DEF S!onClose, SafetyTyped, S!SafetyTypeOK
  <2>2. SafetyTyped'
    BY <1>7, <2>1 DEF S!onClose, SafetyTyped, S!SafetyTypeOK, SafetyQueried, S!Trust
  <2>3. SafetyWritten'
    BY <1>7
    DEF S!onClose, SafetyTyped, SafetyQueried, SafetyWritten, S!SafetyTypeOK, S!Queries,
        S!SafetyScreens
  <2>4. SafetyHeard'
    BY <1>7
    DEF S!onClose, SafetyTyped, SafetyQueried, SafetyHeard, Unheard, S!Reports,
        S!SafetyTypeOK, S!Trust
  <2>5. SafetyAnswered'
    BY <1>7
    DEF S!onClose, SafetyTyped, SafetyQueried, SafetyHeard, SafetyAnswered, SafetyTells,
        Unheard, S!Reports, S!SafetyTypeOK, S!Trust, S!Queries
  <2> QED BY <2>2, <2>3, <2>4, <2>5
<1>8. CASE S!run
  <2>1. SafetyQueried'
    BY <1>8, SafetyQueryKept DEF S!run, S!NoWrite, SafetyTyped, S!SafetyTypeOK
  <2>2. SafetyTyped'
    <3>1. safetyWrite' \in [action : {"block", "unblock", "report"}, from : S!SafetyScreens,
                            phase : {"asked", "ok", "report_exists"}]
      BY <1>8 DEF S!run, SafetyTyped, S!SafetyTypeOK, SafetyQueried, S!Queries
    <3>2. safetyTold' \in [block : {"unknown", "block", "unblock"}, reports : 0 .. MaxReports]
      BY <1>8 DEF S!run, SafetyTyped, S!SafetyTypeOK
    <3> QED BY <1>8, <2>1, <3>1, <3>2 DEF S!run, SafetyTyped, S!SafetyTypeOK, SafetyQueried
  <2>3. SafetyWritten'
    BY <1>8
    DEF S!run, S!NoWrite, SafetyTyped, SafetyQueried, SafetyWritten, S!SafetyTypeOK,
        S!Queries, S!SafetyScreens
  <2>4. SafetyHeard'
    BY <1>8
    DEF S!run, S!NoWrite, SafetyTyped, SafetyQueried, SafetyHeard, Unheard, S!Reports,
        S!SafetyTypeOK, S!Trust
  <2>5. SafetyAnswered'
    BY <1>8
    DEF S!run, S!NoWrite, SafetyTyped, SafetyQueried, SafetyHeard, SafetyAnswered,
        SafetyTells, Unheard, S!Reports, S!SafetyTypeOK, S!Trust, S!Queries
  <2> QED BY <2>2, <2>3, <2>4, <2>5
<1>9. CASE S!HandleWrite
  <2>1. SafetyQueried'
    BY <1>9, SafetyQueryKept DEF S!HandleWrite, SafetyTyped, S!SafetyTypeOK
  <2>2. SafetyTyped'
    <3>1. safetyWrite' \in [action : {"block", "unblock", "report"},
                            from : S!SafetyScreens \union {"gone", "redirect"},
                            phase : {"asked", "ok", "report_exists"}]
      BY <1>9 DEF S!HandleWrite, SafetyTyped, S!SafetyTypeOK, S!NoWrite
    <3>2. trust' \in S!Trust /\ (trust'.open => trust'.closed < MaxReports)
      BY <1>9 DEF S!HandleWrite, SafetyTyped, S!SafetyTypeOK, S!Trust
    <3> QED BY <1>9, <2>1, <3>1, <3>2
    DEF S!HandleWrite, SafetyTyped, S!SafetyTypeOK, SafetyQueried
  <2>3. SafetyWritten'
    BY <1>9
    DEF S!HandleWrite, S!NoWrite, SafetyTyped, SafetyQueried, SafetyWritten, S!SafetyTypeOK
  <2>4. SafetyHeard'
    <3>0. safetyWrite \in [action : {"block", "unblock", "report"},
                            from : S!SafetyScreens \union {"gone", "redirect"},
                            phase : {"asked", "ok", "report_exists"}]
      BY <1>9 DEF S!HandleWrite, SafetyTyped, S!SafetyTypeOK, S!NoWrite
    <3>1. CASE safetyWrite.action = "report"
      BY <1>9, <3>0, <3>1
      DEF S!HandleWrite, SafetyTyped, SafetyHeard, Unheard, S!Reports, S!SafetyTypeOK, S!Trust
    <3>2. CASE safetyWrite.action # "report"
      BY <1>9, <3>0, <3>2
      DEF S!HandleWrite, SafetyTyped, SafetyHeard, Unheard, S!Reports, S!SafetyTypeOK, S!Trust
    <3> QED BY <3>1, <3>2
  <2>5. SafetyAnswered'
    BY <1>9
    DEF S!HandleWrite, SafetyTyped, SafetyQueried, SafetyHeard, SafetyAnswered, SafetyTells,
        Unheard, S!Reports, S!SafetyTypeOK, S!Trust, S!Queries
  <2> QED BY <2>2, <2>3, <2>4, <2>5
<1>10. CASE S!WriteDone
  <2>1. SafetyQueried'
    BY <1>10, SafetyQueryKept
    DEF S!WriteDone, S!onChanged, S!Go, SafetyTyped, S!SafetyTypeOK, S!SafetyScreens
  <2>2. SafetyTyped'
    <3>1. safety' \in [dialog : {"none", "block", "unblock", "report"}, blocked : BOOLEAN]
      <4>1. CASE safetyWrite.action = "report"
        BY <1>10, <4>1 DEF S!WriteDone, SafetyTyped, S!SafetyTypeOK
      <4>2. CASE safetyWrite.action # "report"
        <5> DEFINE blocked == safetyWrite.action = "block"
        <5>1. \/ safety' = safety
              \/ safety' = S!Unmounted
              \/ safety' = [dialog |-> "none", blocked |-> blocked]
          BY <1>10, <4>2 DEF S!WriteDone, S!onChanged, S!Go
        <5>3. CASE safety' = [dialog |-> "none", blocked |-> blocked]
          <6>1. \A b \in BOOLEAN : [dialog |-> "none", blocked |-> b] \in
                   [dialog : {"none", "block", "unblock", "report"}, blocked : BOOLEAN]
            OBVIOUS
          <6>2. blocked \in BOOLEAN
            OBVIOUS
          <6> HIDE DEF blocked
          <6>3. [dialog |-> "none", blocked |-> blocked] \in
                   [dialog : {"none", "block", "unblock", "report"}, blocked : BOOLEAN]
            BY <6>1, <6>2, Zenon
          <6> QED BY <5>3, <6>3, Zenon
        <5>4. CASE safety' = safety
          BY <5>4 DEF SafetyTyped, S!SafetyTypeOK
        <5>5. CASE safety' = S!Unmounted
          BY <5>5 DEF S!Unmounted
        <5> HIDE DEF blocked
        <5> QED BY <5>1, <5>3, <5>4, <5>5, Zenon
      <4> QED BY <4>1, <4>2
    <3>2. safetyTold' \in [block : {"unknown", "block", "unblock"}, reports : 0 .. MaxReports]
      <4>1. CASE safetyWrite.action = "report" /\ safetyWrite.from \in S!SafetyScreens
        <5>1. safetyTold.reports + 1 <= MaxReports
          BY <1>10, <4>1
          DEF S!WriteDone, SafetyTyped, SafetyHeard, Unheard, S!Reports, S!SafetyTypeOK,
              S!Trust
        <5> QED BY <1>10, <4>1, <5>1 DEF S!WriteDone, SafetyTyped, S!SafetyTypeOK
      <4>2. CASE ~(safetyWrite.action = "report" /\ safetyWrite.from \in S!SafetyScreens)
        BY <1>10, <4>2 DEF S!WriteDone, SafetyTyped, S!SafetyTypeOK, S!NoWrite
      <4> QED BY <4>1, <4>2
    <3>3. safetyWrite' = S!NoWrite
      BY <1>10 DEF S!WriteDone, S!onChanged, S!Go
    <3> QED BY <1>10, <2>1, <3>1, <3>2, <3>3
    DEF S!WriteDone, SafetyTyped, S!SafetyTypeOK, SafetyQueried
  <2>3. SafetyWritten'
    BY <1>10
    DEF S!WriteDone, S!onChanged, S!Go, S!Load, S!Retry, S!Unmounted, S!NoWrite, SafetyTyped,
        SafetyQueried, SafetyWritten, S!SafetyTypeOK, S!Queries, S!SafetyScreens
  <2>4. SafetyHeard'
    BY <1>10
    DEF S!WriteDone, S!onChanged, S!Go, S!Load, S!Retry, S!Unmounted, S!NoWrite, SafetyTyped,
        SafetyQueried, SafetyHeard, Unheard, S!Reports, S!SafetyTypeOK, S!Trust
  <2>5. SafetyAnswered'
    <3>1. CASE safetyWrite.from \in S!SafetyScreens /\ safetyWrite.action # "report"
      BY <1>10, <3>1
      DEF S!WriteDone, S!onChanged, S!Go, S!Load, S!Retry, SafetyAnswered, S!SafetyScreens
    <3>2. CASE safetyWrite.from \in S!SafetyScreens /\ safetyWrite.action = "report"
      BY <1>10, <3>2
      DEF S!WriteDone, SafetyWritten, SafetyAnswered, SafetyTells, SafetyTyped,
          S!SafetyTypeOK, S!SafetyScreens
    <3>3. CASE safetyWrite.from = "redirect" /\ safetyWrite.action # "report"
      BY <1>10, <3>3 DEF S!WriteDone, S!Go, S!Load, SafetyAnswered, S!SafetyScreens
    <3>4. CASE safetyWrite.from = "gone" \/ (safetyWrite.from = "redirect" /\ safetyWrite.action = "report")
      BY <1>10, <3>4 DEF S!WriteDone, SafetyAnswered, SafetyTells, S!Reports, S!SafetyScreens
    <3> QED BY <1>10, <3>1, <3>2, <3>3, <3>4 DEF S!WriteDone
  <2> QED BY <2>2, <2>3, <2>4, <2>5
<1>11. CASE S!WriteFails
  <2>1. SafetyQueried'
    BY <1>11, SafetyQueryKept DEF S!WriteFails, S!NoWrite, SafetyTyped, S!SafetyTypeOK
  <2>2. SafetyTyped'
    BY <1>11, <2>1
    DEF S!WriteFails, S!NoWrite, SafetyTyped, S!SafetyTypeOK, SafetyQueried, S!Trust
  <2>3. SafetyWritten'
    BY <1>11
    DEF S!WriteFails, S!NoWrite, SafetyTyped, SafetyQueried, SafetyWritten, S!SafetyTypeOK,
        S!Queries, S!SafetyScreens
  <2>4. SafetyHeard'
    BY <1>11
    DEF S!WriteFails, S!NoWrite, SafetyTyped, SafetyQueried, SafetyHeard, Unheard, S!Reports,
        S!SafetyTypeOK, S!Trust
  <2>5. SafetyAnswered'
    BY <1>11
    DEF S!WriteFails, S!NoWrite, SafetyTyped, SafetyQueried, SafetyHeard, SafetyAnswered,
        SafetyTells, Unheard, S!Reports, S!SafetyTypeOK, S!Trust, S!Queries
  <2> QED BY <2>2, <2>3, <2>4, <2>5
<1>12. CASE S!BlockElsewhere
  <2>1. SafetyQueried'
    BY <1>12, SafetyQueryKept DEF S!BlockElsewhere, SafetyTyped, S!SafetyTypeOK
  <2>2. SafetyTyped'
    <3>1. trust' \in S!Trust /\ (trust'.open => trust'.closed < MaxReports)
      BY <1>12 DEF S!BlockElsewhere, SafetyTyped, S!SafetyTypeOK, S!Trust
    <3>2. safetyTold' \in [block : {"unknown", "block", "unblock"}, reports : 0 .. MaxReports]
      BY <1>12 DEF S!BlockElsewhere, SafetyTyped, S!SafetyTypeOK
    <3> QED BY <1>12, <2>1, <3>1, <3>2
    DEF S!BlockElsewhere, SafetyTyped, S!SafetyTypeOK, SafetyQueried
  <2>3. SafetyWritten'
    BY <1>12
    DEF S!BlockElsewhere, SafetyTyped, SafetyQueried, SafetyWritten, S!SafetyTypeOK,
        S!Queries, S!SafetyScreens
  <2>4. SafetyHeard'
    BY <1>12
    DEF S!BlockElsewhere, SafetyTyped, SafetyQueried, SafetyHeard, Unheard, S!Reports,
        S!SafetyTypeOK, S!Trust
  <2>5. SafetyAnswered'
    BY <1>12
    DEF S!BlockElsewhere, SafetyTyped, SafetyQueried, SafetyHeard, SafetyAnswered,
        SafetyTells, Unheard, S!Reports, S!SafetyTypeOK, S!Trust, S!Queries
  <2> QED BY <2>2, <2>3, <2>4, <2>5
<1>13. CASE S!CloseReport
  <2>1. SafetyQueried'
    BY <1>13, SafetyQueryKept DEF S!CloseReport, SafetyTyped, S!SafetyTypeOK
  <2>2. SafetyTyped'
    <3>0. MaxReports \in Nat
      BY PagesAssumption DEF S!ReportsAssumption
    <3>1. trust.closed + 1 \in 0 .. MaxReports
      BY <1>13, <3>0 DEF S!CloseReport, SafetyTyped, S!SafetyTypeOK, S!Trust
    <3>2. trust' \in S!Trust /\ ~trust'.open
      BY <1>13, <3>1 DEF S!CloseReport, SafetyTyped, S!SafetyTypeOK, S!Trust
    <3> QED BY <1>13, <2>1, <3>2 DEF S!CloseReport, SafetyTyped, S!SafetyTypeOK, SafetyQueried
  <2>3. SafetyWritten'
    BY <1>13
    DEF S!CloseReport, SafetyTyped, SafetyQueried, SafetyWritten, S!SafetyTypeOK, S!Queries,
        S!SafetyScreens
  <2>4. SafetyHeard'
    BY <1>13
    DEF S!CloseReport, SafetyTyped, SafetyQueried, SafetyHeard, Unheard, S!Reports,
        S!SafetyTypeOK, S!Trust
  <2>5. SafetyAnswered'
    BY <1>13
    DEF S!CloseReport, SafetyTyped, SafetyQueried, SafetyHeard, SafetyAnswered, SafetyTells,
        Unheard, S!Reports, S!SafetyTypeOK, S!Trust, S!Queries
  <2> QED BY <2>2, <2>3, <2>4, <2>5
<1> QED BY <1>1, <1>2, <1>3, <1>4, <1>5, <1>6, <1>7, <1>8, <1>9, <1>10, <1>11, <1>12, <1>13
DEF S!SafetyNext

LEMMA SafetyInvHolds == Spec => [](screen = "safety" => SafetyInv)
<1> DEFINE Inv == screen = "safety" => SafetyInv
<1>1. Init => Inv
  BY SafetyInitTyped DEF Init
<1>2. Inv /\ [Next]_vars => Inv'
  <2> SUFFICES ASSUME Inv, [Next]_vars, screen' = "safety" PROVE SafetyInv'
    OBVIOUS
  <2>1. CASE Next
    BY <2>1, StepOfPage, SafetyStep
  <2>2. CASE UNCHANGED vars
    <3>1. UNCHANGED safetyVars /\ SafetyInv
      BY <2>2 DEF vars
    <3> QED BY <3>1
    DEF safetyVars, SafetyInv, SafetyTyped, S!SafetyTypeOK, SafetyQueried, SafetyWritten,
        SafetyHeard, Unheard, SafetyAnswered, SafetyTells
  <2> QED BY <2>1, <2>2
<1> QED BY <1>1, <1>2, PTL DEF Spec

\* After a confirmed block, unblock or report the chat and the settings show
\* it, whatever was loading when it was confirmed.
THEOREM SafetyIsShownHolds == Spec => []SafetyIsShown
<1>1. (screen = "safety" => SafetyInv) => SafetyIsShown
  BY
  DEF SafetyIsShown, SafetyInv, SafetyTyped, SafetyQueried, SafetyAnswered, SafetyTells,
      S!SafetyIsShown, S!Ready, S!Shows
<1> QED BY <1>1, SafetyInvHolds, PTL

-----------------------------------------------------------------------------
(***************************************************************************)
(* The page of one report.                                                 *)
(***************************************************************************)
ReportViews == [report : A!Report, history : Seq(A!Entry)]
ReportKinds == A!Decisions \union {"suspend", "restore"}

ReportQueried ==
    /\ reportQuery \in A!Queries({"report"}, ReportViews)
    /\ reportQuery.call = "served" => reportQuery.answer \in ReportViews
    /\ reportQuery.status = "ready" => reportQuery.data \in ReportViews

Deciding(log) == {i \in DOMAIN log : log[i].decides}

\* An open report has no decision in the log, and any other has one.
Decided(report, log) ==
    /\ report.status = "OPEN" => Deciding(log) = {}
    /\ report.status # "OPEN" =>
          \E i \in Deciding(log) :
             /\ Deciding(log) = {i}
             /\ report.status = "DISMISSED" <=> log[i].action = "DISMISS_REPORT"

\* The report was read no later than its history, and after the page was
\* told of the entries that it settled.
ReportRead(report, log) ==
    /\ report.status # "OPEN" => moderation.report.status = report.status
    /\ settled \intersect Deciding(log) # {} => report.status # "OPEN"

ViewIsTrue(view) ==
    /\ settled \subseteq DOMAIN view.history
    /\ view.report.status # "OPEN" => Decided(view.report, view.history)
    /\ settled \intersect Deciding(view.history) # {} => view.report.status # "OPEN"

ReportTyped ==
    /\ moderation.report \in A!Report
    /\ moderation.log \in Seq(A!Entry) /\ Len(moderation.log) <= MaxActions
    /\ ReportQueried
    /\ deciding \in {"none", "decide", "refused", "suspend", "restore"}
    /\ decision \in {A!NoWrite} \union
         [kind : ReportKinds, phase : {"asked", "ok", "failed"}, entry : 0 .. MaxActions]
    /\ decision.entry <= Len(moderation.log)
    /\ settled \subseteq 1 .. Len(moderation.log)

ReportTrue ==
    /\ Decided(moderation.report, moderation.log)
    /\ reportQuery.call = "asked" /\ reportQuery.answer # A!Nothing =>
          ReportRead(reportQuery.answer.report, moderation.log)
    /\ reportQuery.call = "served" => ViewIsTrue(reportQuery.answer)
    /\ reportQuery.status = "ready" => ViewIsTrue(reportQuery.data)

ReportInv == ReportTyped /\ ReportTrue

LEMMA MaxActionsIsNat == MaxActions \in Nat
BY PagesAssumption DEF A!ActionsAssumption

LEMMA ReportQueryKept ==
    ASSUME ReportQueried,
           \/ reportQuery' = reportQuery
           \/ reportQuery' = A!Retry(reportQuery)
           \/ \E v \in ReportViews : reportQuery' = [reportQuery EXCEPT !.answer = v]
           \/ \E v \in ReportViews : reportQuery' = A!Served(reportQuery, v)
           \/ A!Arriving(reportQuery) /\ reportQuery' = A!Taken(reportQuery)
           \/ reportQuery' = A!Failed(reportQuery)
    PROVE  ReportQueried'
<1> USE DEF ReportQueried
<1>1. CASE reportQuery' = reportQuery BY <1>1
<1>2. CASE reportQuery' = A!Retry(reportQuery)
  BY <1>2 DEF A!Load, A!Retry, A!Queries, A!Nothing
<1>3. ASSUME NEW v \in ReportViews, reportQuery' = A!Served(reportQuery, v) PROVE ReportQueried'
  BY <1>3 DEF A!Served, A!Queries
<1>4. ASSUME NEW v \in ReportViews, reportQuery' = [reportQuery EXCEPT !.answer = v]
      PROVE  ReportQueried'
  BY <1>4 DEF A!Queries
<1>5. CASE A!Arriving(reportQuery) /\ reportQuery' = A!Taken(reportQuery)
  BY <1>5 DEF A!Taken, A!Arriving, A!Queries, A!Nothing
<1>6. CASE reportQuery' = A!Failed(reportQuery)
  BY <1>6 DEF A!Failed, A!Queries, A!Nothing
<1> QED BY <1>1, <1>2, <1>3, <1>4, <1>5, <1>6

LEMMA ReportInitHolds ==
    ASSUME A!ReportInit
    PROVE  ReportInv
<1>1. PICK a \in {"ACTIVE", "SUSPENDED"} :
         moderation = [report |-> [status |-> "OPEN", account |-> a], log |-> <<>>]
  BY DEF A!ReportInit
<1>2. /\ moderation.report \in A!Report /\ moderation.report.status = "OPEN"
      /\ moderation.log = <<>> /\ moderation.log \in Seq(A!Entry) /\ Len(moderation.log) = 0
  BY <1>1 DEF A!Report
<1>3. ReportQueried
  BY DEF A!ReportInit, ReportQueried, A!Load, A!Queries, A!Nothing
<1>4. ReportTyped
  BY <1>2, <1>3, MaxActionsIsNat DEF A!ReportInit, ReportTyped, A!NoWrite
<1>5. Deciding(moderation.log) = {}
  BY <1>2 DEF Deciding
<1>6. ReportTrue
  BY <1>2, <1>5 DEF A!ReportInit, ReportTrue, Decided, A!Load
<1> QED BY <1>4, <1>6 DEF ReportInv

(* An entry is added to the log, and it decides the report or not.          *)

LEMMA AppendDecides ==
    ASSUME NEW log \in Seq(A!Entry), NEW e \in A!Entry
    PROVE  /\ Append(log, e) \in Seq(A!Entry)
           /\ Len(Append(log, e)) = Len(log) + 1
           /\ \A i \in 1 .. Len(log) : Append(log, e)[i] = log[i]
           /\ Append(log, e)[Len(log) + 1] = e
           /\ e.decides => Deciding(Append(log, e)) = Deciding(log) \union {Len(log) + 1}
           /\ ~e.decides => Deciding(Append(log, e)) = Deciding(log)
<1>1. /\ Append(log, e) \in Seq(A!Entry)
      /\ Len(Append(log, e)) = Len(log) + 1
      /\ \A i \in 1 .. Len(log) : Append(log, e)[i] = log[i]
      /\ Append(log, e)[Len(log) + 1] = e
  OBVIOUS
<1>2. DOMAIN Append(log, e) = DOMAIN log \union {Len(log) + 1}
  OBVIOUS
<1>3. DOMAIN log = 1 .. Len(log) /\ Len(log) + 1 \notin DOMAIN log
  OBVIOUS
<1> DEFINE new == Append(log, e)
<1>4. \A i \in DOMAIN log : new[i] = log[i]
  BY <1>1, <1>3
<1>5. DOMAIN new = DOMAIN log \union {Len(log) + 1} /\ new[Len(log) + 1] = e
  BY <1>1, <1>2
<1> HIDE DEF new
<1>6. /\ e.decides => Deciding(new) = Deciding(log) \union {Len(log) + 1}
      /\ ~e.decides => Deciding(new) = Deciding(log)
  BY <1>3, <1>4, <1>5 DEF Deciding
<1> QED BY <1>1, <1>6 DEF new

(* What a change of the report or of the account makes of them.             *)

LEMMA AfterKeeps ==
    ASSUME NEW report \in A!Report, NEW log \in Seq(A!Entry), NEW kind \in ReportKinds,
           Decided(report, log), kind \in A!Decisions => report.status = "OPEN"
    PROVE  /\ A!After(report, log, kind).report \in A!Report
           /\ A!After(report, log, kind).log \in Seq(A!Entry)
           /\ Len(A!After(report, log, kind).log) = Len(log) + 1
           /\ \A i \in 1 .. Len(log) : A!After(report, log, kind).log[i] = log[i]
           /\ Decided(A!After(report, log, kind).report, A!After(report, log, kind).log)
           /\ report.status # "OPEN" => A!After(report, log, kind).report.status = report.status
<1>1. ASSUME NEW next \in A!Report, NEW e \in A!Entry,
             A!After(report, log, kind) = [report |-> next, log |-> Append(log, e)],
             \/ ~e.decides /\ next.status = report.status
             \/ /\ e.decides /\ report.status = "OPEN" /\ next.status # "OPEN"
                /\ next.status = "DISMISSED" <=> e.action = "DISMISS_REPORT"
      PROVE  /\ A!After(report, log, kind).report \in A!Report
             /\ A!After(report, log, kind).log \in Seq(A!Entry)
             /\ Len(A!After(report, log, kind).log) = Len(log) + 1
             /\ \A i \in 1 .. Len(log) : A!After(report, log, kind).log[i] = log[i]
             /\ Decided(A!After(report, log, kind).report, A!After(report, log, kind).log)
             /\ report.status # "OPEN" => A!After(report, log, kind).report.status = report.status
  <2> DEFINE new == Append(log, e)
  <2>1. /\ new \in Seq(A!Entry) /\ Len(new) = Len(log) + 1
        /\ \A i \in 1 .. Len(log) : new[i] = log[i]
        /\ new[Len(log) + 1] = e
        /\ e.decides => Deciding(new) = Deciding(log) \union {Len(log) + 1}
        /\ ~e.decides => Deciding(new) = Deciding(log)
    BY AppendDecides
  <2>2. A!After(report, log, kind).report = next /\ A!After(report, log, kind).log = new
    BY <1>1
  <2> HIDE DEF new
  <2>3. Decided(next, new)
    <3>1. CASE ~e.decides /\ next.status = report.status
      <4>1. \A i \in Deciding(log) : i \in 1 .. Len(log)
        BY DEF Deciding
      <4> QED BY <2>1, <3>1, <4>1 DEF Decided
    <3>2. CASE /\ e.decides /\ report.status = "OPEN" /\ next.status # "OPEN"
               /\ next.status = "DISMISSED" <=> e.action = "DISMISS_REPORT"
      <4>1. Deciding(new) = {Len(log) + 1}
        BY <2>1, <3>2 DEF Decided
      <4> QED BY <2>1, <3>2, <4>1 DEF Decided
    <3> QED BY <1>1, <3>1, <3>2
  <2> QED BY <1>1, <2>1, <2>2, <2>3
<1>2. CASE kind \in A!Decisions
  <2> DEFINE next == [status |-> A!decisionResults[kind].status,
                      account |-> IF kind = "SUSPEND" THEN "SUSPENDED" ELSE report.account]
             e == [action |-> A!decisionResults[kind].action, decides |-> TRUE]
  <2>1. A!After(report, log, kind) = [report |-> next, log |-> Append(log, e)]
    BY <1>2 DEF A!After, A!Decisions
  <2>2. /\ A!decisionResults[kind].status \in {"RESOLVED", "DISMISSED"}
        /\ A!decisionResults[kind].action \in {"DISMISS_REPORT", "RESOLVE_REPORT", "SUSPEND_ACCOUNT"}
        /\ A!decisionResults[kind].status = "DISMISSED" <=>
              A!decisionResults[kind].action = "DISMISS_REPORT"
    BY <1>2 DEF A!decisionResults, A!Decisions
  <2>3. next \in A!Report /\ e \in A!Entry
    BY <2>2 DEF A!Report, A!Entry
  <2>4. /\ e.decides /\ next.status # "OPEN"
        /\ next.status = "DISMISSED" <=> e.action = "DISMISS_REPORT"
    BY <2>2
  <2> HIDE DEF next, e
  <2> QED BY <1>1, <1>2, <2>1, <2>3, <2>4
<1>3. CASE kind = "suspend"
  <2> DEFINE next == [report EXCEPT !.account = "SUSPENDED"]
             e == [action |-> "SUSPEND_ACCOUNT", decides |-> FALSE]
  <2>1. A!After(report, log, kind) = [report |-> next, log |-> Append(log, e)]
    BY <1>3 DEF A!After, A!Decisions
  <2>2. next \in A!Report /\ e \in A!Entry /\ ~e.decides /\ next.status = report.status
    BY DEF A!Report, A!Entry
  <2> HIDE DEF next, e
  <2> QED BY <1>1, <2>1, <2>2
<1>4. CASE kind = "restore"
  <2> DEFINE next == [report EXCEPT !.account = "ACTIVE"]
             e == [action |-> "RESTORE_ACCOUNT", decides |-> FALSE]
  <2>1. A!After(report, log, kind) = [report |-> next, log |-> Append(log, e)]
    BY <1>4 DEF A!After, A!Decisions
  <2>2. next \in A!Report /\ e \in A!Entry /\ ~e.decides /\ next.status = report.status
    BY DEF A!Report, A!Entry
  <2> HIDE DEF next, e
  <2> QED BY <1>1, <2>1, <2>2
<1> QED BY <1>2, <1>3, <1>4 DEF ReportKinds

LEMMA ChangeKeeps ==
    ASSUME ReportInv, NEW kind \in ReportKinds, A!Change(kind)
    PROVE  /\ moderation'.report \in A!Report
           /\ moderation'.log \in Seq(A!Entry) /\ Len(moderation'.log) <= MaxActions
           /\ Len(moderation'.log) = Len(moderation.log) + 1
           /\ \A i \in 1 .. Len(moderation.log) : moderation'.log[i] = moderation.log[i]
           /\ Decided(moderation'.report, moderation'.log)
           /\ moderation.report.status # "OPEN" =>
                 moderation'.report.status = moderation.report.status
<1>1. /\ moderation.report \in A!Report /\ moderation.log \in Seq(A!Entry)
      /\ Decided(moderation.report, moderation.log)
      /\ Len(moderation.log) \in Nat /\ MaxActions \in Nat
  BY MaxActionsIsNat DEF ReportInv, ReportTyped, ReportTrue
<1>2. /\ kind \in A!Decisions => moderation.report.status = "OPEN"
      /\ Len(moderation.log) < MaxActions
      /\ moderation' = A!After(moderation.report, moderation.log, kind)
  BY DEF A!Change, A!closed
<1> QED BY <1>1, <1>2, AfterKeeps

LEMMA ReportStep ==
    ASSUME ReportInv, A!ReportNext
    PROVE  ReportInv'
<1> USE DEF ReportInv
<1>0. /\ moderation.report \in A!Report
      /\ moderation.log \in Seq(A!Entry) /\ Len(moderation.log) <= MaxActions
      /\ Len(moderation.log) \in Nat /\ MaxActions \in Nat
      /\ ReportQueried /\ settled \subseteq 1 .. Len(moderation.log)
  BY MaxActionsIsNat DEF ReportTyped
<1>1. ASSUME A!ReadReport
      PROVE  ReportInv'
  <2>1. ReportQueried'
    <3> DEFINE v == [report |-> moderation.report, history |-> A!Nothing]
    <3>1. v \in ReportViews
      BY <1>0 DEF ReportViews, A!Nothing
    <3>2. reportQuery' = [reportQuery EXCEPT !.answer = v]
      BY <1>1 DEF A!ReadReport
    <3> QED BY <1>0, <3>1, <3>2, ReportQueryKept
  <2>2. /\ moderation'.report \in A!Report
        /\ moderation'.log \in Seq(A!Entry) /\ Len(moderation'.log) <= MaxActions
        /\ Len(moderation'.log) >= Len(moderation.log)
        /\ \A i \in 1 .. Len(moderation.log) : moderation'.log[i] = moderation.log[i]
        /\ Decided(moderation'.report, moderation'.log)
        /\ moderation.report.status # "OPEN" => moderation'.report.status = moderation.report.status
    BY <1>1, <1>0 DEF A!ReadReport, ReportTrue
  <2>3. /\ deciding' \in {"none", "decide", "refused", "suspend", "restore"}
        /\ decision' \in {A!NoWrite} \union
             [kind : ReportKinds, phase : {"asked", "ok", "failed"}, entry : 0 .. MaxActions]
        /\ decision'.entry <= Len(moderation'.log)
        /\ settled' \subseteq 1 .. Len(moderation'.log)
    BY <1>1, <1>0, <2>2 DEF A!ReadReport, ReportTyped, A!NoWrite, ReportKinds
  <2>4. ReportTrue'
    <3>1. /\ reportQuery'.call = "asked" /\ reportQuery'.answer.report = moderation.report
          /\ reportQuery'.status = reportQuery.status /\ reportQuery'.data = reportQuery.data
          /\ UNCHANGED <<moderation, settled>>
      BY <1>0, <1>1 DEF A!ReadReport, A!Asked, ReportQueried, A!Queries
    <3>2. ReportRead(moderation.report, moderation.log)
      BY DEF ReportTrue, ReportRead, Decided
    <3> QED BY <3>1, <3>2 DEF ReportTrue, ReportRead, ViewIsTrue
  <2> QED BY <2>1, <2>2, <2>3, <2>4 DEF ReportTyped
<1>2. ASSUME A!ReadHistory
      PROVE  ReportInv'
  <2>1. ReportQueried'
    <3> DEFINE v == [reportQuery.answer EXCEPT !.history = moderation.log]
    <3>1. v \in ReportViews /\ v.report = reportQuery.answer.report /\ v.history = moderation.log
      <4>1. reportQuery.answer \in ReportViews
        BY <1>0, <1>2 DEF A!ReadHistory, ReportQueried, A!Queries
      <4> QED BY <1>0, <4>1 DEF ReportViews
    <3>2. reportQuery' = A!Served(reportQuery, v)
      BY <1>2 DEF A!ReadHistory
    <3> HIDE DEF v
    <3> QED BY <1>0, <3>1, <3>2, ReportQueryKept
  <2>2. /\ moderation'.report \in A!Report
        /\ moderation'.log \in Seq(A!Entry) /\ Len(moderation'.log) <= MaxActions
        /\ Len(moderation'.log) >= Len(moderation.log)
        /\ \A i \in 1 .. Len(moderation.log) : moderation'.log[i] = moderation.log[i]
        /\ Decided(moderation'.report, moderation'.log)
        /\ moderation.report.status # "OPEN" => moderation'.report.status = moderation.report.status
    BY <1>2, <1>0 DEF A!ReadHistory, ReportTrue
  <2>3. /\ deciding' \in {"none", "decide", "refused", "suspend", "restore"}
        /\ decision' \in {A!NoWrite} \union
             [kind : ReportKinds, phase : {"asked", "ok", "failed"}, entry : 0 .. MaxActions]
        /\ decision'.entry <= Len(moderation'.log)
        /\ settled' \subseteq 1 .. Len(moderation'.log)
    BY <1>2, <1>0, <2>2 DEF A!ReadHistory, ReportTyped, A!NoWrite, ReportKinds
  <2>4. ReportTrue'
    <3> DEFINE v == [reportQuery.answer EXCEPT !.history = moderation.log]
    <3>1. v \in ReportViews /\ v.report = reportQuery.answer.report /\ v.history = moderation.log
      <4>1. reportQuery.answer \in ReportViews
        BY <1>0, <1>2 DEF A!ReadHistory, ReportQueried, A!Queries
      <4> QED BY <1>0, <4>1 DEF ReportViews
    <3>2. reportQuery' = A!Served(reportQuery, v)
      BY <1>2 DEF A!ReadHistory
    <3> HIDE DEF v
    <3>3. /\ reportQuery'.call = "served" /\ reportQuery'.answer = v
          /\ reportQuery'.status = reportQuery.status /\ reportQuery'.data = reportQuery.data
          /\ UNCHANGED <<moderation, settled>>
      BY <1>0, <1>2, <3>2 DEF A!ReadHistory, A!Served, ReportQueried, A!Queries
    <3>4. ReportRead(v.report, moderation.log) /\ Decided(moderation.report, moderation.log)
      BY <1>2, <3>1 DEF A!ReadHistory, A!Asked, ReportTrue
    <3>5. settled \subseteq DOMAIN moderation.log
      BY <1>0
    <3>6. ViewIsTrue(v)
      BY <3>1, <3>4, <3>5 DEF ViewIsTrue, ReportRead, Decided
    <3> QED BY <3>3, <3>6 DEF ReportTrue, ViewIsTrue
  <2> QED BY <2>1, <2>2, <2>3, <2>4 DEF ReportTyped
<1>3. ASSUME A!TakeAnswer
      PROVE  ReportInv'
  <2>1. ReportQueried'
    BY <1>3, <1>0, ReportQueryKept DEF A!TakeAnswer
  <2>2. /\ moderation'.report \in A!Report
        /\ moderation'.log \in Seq(A!Entry) /\ Len(moderation'.log) <= MaxActions
        /\ Len(moderation'.log) >= Len(moderation.log)
        /\ \A i \in 1 .. Len(moderation.log) : moderation'.log[i] = moderation.log[i]
        /\ Decided(moderation'.report, moderation'.log)
        /\ moderation.report.status # "OPEN" => moderation'.report.status = moderation.report.status
    BY <1>3, <1>0 DEF A!TakeAnswer, ReportTrue
  <2>3. /\ deciding' \in {"none", "decide", "refused", "suspend", "restore"}
        /\ decision' \in {A!NoWrite} \union
             [kind : ReportKinds, phase : {"asked", "ok", "failed"}, entry : 0 .. MaxActions]
        /\ decision'.entry <= Len(moderation'.log)
        /\ settled' \subseteq 1 .. Len(moderation'.log)
    BY <1>3, <1>0, <2>2 DEF A!TakeAnswer, ReportTyped, A!NoWrite, ReportKinds
  <2>4. ReportTrue'
    BY <1>3, <1>0, <2>2
    DEF A!TakeAnswer, ReportTrue, ReportRead, ViewIsTrue, ReportQueried, ReportViews,
        Deciding, A!Queries, A!Taken, A!Arriving
  <2> QED BY <2>1, <2>2, <2>3, <2>4 DEF ReportTyped
<1>4. ASSUME A!QueryFails
      PROVE  ReportInv'
  <2>1. ReportQueried'
    BY <1>4, <1>0, ReportQueryKept DEF A!QueryFails
  <2>2. /\ moderation'.report \in A!Report
        /\ moderation'.log \in Seq(A!Entry) /\ Len(moderation'.log) <= MaxActions
        /\ Len(moderation'.log) >= Len(moderation.log)
        /\ \A i \in 1 .. Len(moderation.log) : moderation'.log[i] = moderation.log[i]
        /\ Decided(moderation'.report, moderation'.log)
        /\ moderation.report.status # "OPEN" => moderation'.report.status = moderation.report.status
    BY <1>4, <1>0 DEF A!QueryFails, ReportTrue
  <2>3. /\ deciding' \in {"none", "decide", "refused", "suspend", "restore"}
        /\ decision' \in {A!NoWrite} \union
             [kind : ReportKinds, phase : {"asked", "ok", "failed"}, entry : 0 .. MaxActions]
        /\ decision'.entry <= Len(moderation'.log)
        /\ settled' \subseteq 1 .. Len(moderation'.log)
    BY <1>4, <1>0, <2>2 DEF A!QueryFails, ReportTyped, A!NoWrite, ReportKinds
  <2>4. ReportTrue'
    BY <1>4, <1>0, <2>2
    DEF A!QueryFails, ReportTrue, ReportRead, ViewIsTrue, ReportQueried, ReportViews,
        Deciding, A!Queries, A!Failed
  <2> QED BY <2>1, <2>2, <2>3, <2>4 DEF ReportTyped
<1>5. ASSUME A!Refresh
      PROVE  ReportInv'
  <2>1. ReportQueried'
    BY <1>5, <1>0, ReportQueryKept DEF A!Refresh
  <2>2. /\ moderation'.report \in A!Report
        /\ moderation'.log \in Seq(A!Entry) /\ Len(moderation'.log) <= MaxActions
        /\ Len(moderation'.log) >= Len(moderation.log)
        /\ \A i \in 1 .. Len(moderation.log) : moderation'.log[i] = moderation.log[i]
        /\ Decided(moderation'.report, moderation'.log)
        /\ moderation.report.status # "OPEN" => moderation'.report.status = moderation.report.status
    BY <1>5, <1>0 DEF A!Refresh, ReportTrue
  <2>3. /\ deciding' \in {"none", "decide", "refused", "suspend", "restore"}
        /\ decision' \in {A!NoWrite} \union
             [kind : ReportKinds, phase : {"asked", "ok", "failed"}, entry : 0 .. MaxActions]
        /\ decision'.entry <= Len(moderation'.log)
        /\ settled' \subseteq 1 .. Len(moderation'.log)
    BY <1>5, <1>0, <2>2 DEF A!Refresh, ReportTyped, A!NoWrite, ReportKinds
  <2>4. ReportTrue'
    BY <1>5, <1>0, <2>2
    DEF A!Refresh, ReportTrue, ReportRead, ViewIsTrue, ReportQueried, ReportViews, Deciding,
        A!Queries, A!Retry, A!Load
  <2> QED BY <2>1, <2>2, <2>3, <2>4 DEF ReportTyped
<1>6. ASSUME A!onClose
      PROVE  ReportInv'
  <2>1. ReportQueried'
    BY <1>6, <1>0, ReportQueryKept DEF A!onClose
  <2>2. /\ moderation'.report \in A!Report
        /\ moderation'.log \in Seq(A!Entry) /\ Len(moderation'.log) <= MaxActions
        /\ Len(moderation'.log) >= Len(moderation.log)
        /\ \A i \in 1 .. Len(moderation.log) : moderation'.log[i] = moderation.log[i]
        /\ Decided(moderation'.report, moderation'.log)
        /\ moderation.report.status # "OPEN" => moderation'.report.status = moderation.report.status
    BY <1>6, <1>0 DEF A!onClose, ReportTrue
  <2>3. /\ deciding' \in {"none", "decide", "refused", "suspend", "restore"}
        /\ decision' \in {A!NoWrite} \union
             [kind : ReportKinds, phase : {"asked", "ok", "failed"}, entry : 0 .. MaxActions]
        /\ decision'.entry <= Len(moderation'.log)
        /\ settled' \subseteq 1 .. Len(moderation'.log)
    BY <1>6, <1>0, <2>2 DEF A!onClose, ReportTyped, A!NoWrite, ReportKinds
  <2>4. ReportTrue'
    BY <1>6, <1>0, <2>2
    DEF A!onClose, ReportTrue, ReportRead, ViewIsTrue, ReportQueried, ReportViews, Deciding,
        A!Queries, A!Retry, A!Load
  <2> QED BY <2>1, <2>2, <2>3, <2>4 DEF ReportTyped
<1>7. ASSUME A!HandleWrite
      PROVE  ReportInv'
  <2>1. ReportQueried'
    BY <1>7, <1>0, ReportQueryKept DEF A!HandleWrite
  <2>2. /\ moderation'.report \in A!Report
        /\ moderation'.log \in Seq(A!Entry) /\ Len(moderation'.log) <= MaxActions
        /\ Len(moderation'.log) >= Len(moderation.log)
        /\ \A i \in 1 .. Len(moderation.log) : moderation'.log[i] = moderation.log[i]
        /\ Decided(moderation'.report, moderation'.log)
        /\ moderation.report.status # "OPEN" => moderation'.report.status = moderation.report.status
    <3>1. decision \in [kind : ReportKinds, phase : {"asked", "ok", "failed"}, entry : 0 .. MaxActions]
      BY <1>7 DEF A!HandleWrite, ReportTyped, A!NoWrite
    <3>2. CASE A!Change(decision.kind)
      BY <1>0, <3>1, <3>2, ChangeKeeps DEF ReportInv
    <3>3. CASE moderation' = moderation
      BY <1>0, <3>3 DEF ReportTrue
    <3> QED BY <1>7, <3>2, <3>3 DEF A!HandleWrite
  <2>3. /\ deciding' \in {"none", "decide", "refused", "suspend", "restore"}
        /\ decision' \in {A!NoWrite} \union
             [kind : ReportKinds, phase : {"asked", "ok", "failed"}, entry : 0 .. MaxActions]
        /\ decision'.entry <= Len(moderation'.log)
        /\ settled' \subseteq 1 .. Len(moderation'.log)
    <3>1. decision \in [kind : ReportKinds, phase : {"asked", "ok", "failed"}, entry : 0 .. MaxActions]
      BY <1>7 DEF A!HandleWrite, ReportTyped, A!NoWrite
    <3>2. PICK p \in {"ok", "failed"}, n \in 0 .. MaxActions :
             /\ decision' = [decision EXCEPT !.phase = p, !.entry = n]
             /\ n = decision.entry \/ n = Len(moderation'.log)
      <4>1. Len(moderation'.log) \in 0 .. MaxActions
        BY <1>0, <2>2
      <4>2. \/ decision' = [decision EXCEPT !.phase = "failed", !.entry = decision.entry]
            \/ decision' = [decision EXCEPT !.phase = "ok", !.entry = decision.entry]
            \/ decision' = [decision EXCEPT !.phase = "ok", !.entry = Len(moderation'.log)]
        BY <1>7, <3>1 DEF A!HandleWrite
      <4> QED BY <3>1, <4>1, <4>2
    <3>3. decision.entry <= Len(moderation.log)
      BY DEF ReportTyped
    <3>4. /\ decision' \in [kind : ReportKinds, phase : {"asked", "ok", "failed"}, entry : 0 .. MaxActions]
          /\ decision'.entry = n
      BY <3>1, <3>2
    <3>5. n <= Len(moderation'.log) /\ settled' \subseteq 1 .. Len(moderation'.log)
      BY <1>7, <1>0, <2>2, <3>2, <3>3 DEF A!HandleWrite
    <3> QED BY <1>7, <3>4, <3>5 DEF A!HandleWrite, ReportTyped
  <2>4. ReportTrue'
    BY <1>7, <1>0, <2>2
    DEF A!HandleWrite, ReportTrue, ReportRead, ViewIsTrue, ReportQueried, ReportViews,
        Deciding, A!Queries
  <2> QED BY <2>1, <2>2, <2>3, <2>4 DEF ReportTyped
<1>8. ASSUME A!WriteDone
      PROVE  ReportInv'
  <2>1. ReportQueried'
    BY <1>8, <1>0, ReportQueryKept DEF A!WriteDone
  <2>2. /\ moderation'.report \in A!Report
        /\ moderation'.log \in Seq(A!Entry) /\ Len(moderation'.log) <= MaxActions
        /\ Len(moderation'.log) >= Len(moderation.log)
        /\ \A i \in 1 .. Len(moderation.log) : moderation'.log[i] = moderation.log[i]
        /\ Decided(moderation'.report, moderation'.log)
        /\ moderation.report.status # "OPEN" => moderation'.report.status = moderation.report.status
    BY <1>8, <1>0 DEF A!WriteDone, ReportTrue
  <2>3. /\ deciding' \in {"none", "decide", "refused", "suspend", "restore"}
        /\ decision' \in {A!NoWrite} \union
             [kind : ReportKinds, phase : {"asked", "ok", "failed"}, entry : 0 .. MaxActions]
        /\ decision'.entry <= Len(moderation'.log)
        /\ settled' \subseteq 1 .. Len(moderation'.log)
    <3>1. decision.entry \in 0 .. MaxActions /\ decision.entry <= Len(moderation.log)
      BY <1>8 DEF A!WriteDone, ReportTyped, A!NoWrite
    <3>2. settled' = settled \union ({decision.entry} \ {0}) /\ moderation' = moderation
      BY <1>8 DEF A!WriteDone
    <3>3. settled' \subseteq 1 .. Len(moderation'.log)
      <4>1. decision.entry # 0 => decision.entry \in 1 .. Len(moderation.log)
        BY <1>0, <3>1
      <4> QED BY <1>0, <3>2, <4>1
    <3> QED BY <1>8, <3>3 DEF A!WriteDone, A!NoWrite
  <2>4. ReportTrue'
    BY <1>8, <1>0, <2>2
    DEF A!WriteDone, ReportTrue, ReportRead, ViewIsTrue, ReportQueried, ReportViews, Deciding,
        A!Queries, A!Retry, A!Load
  <2> QED BY <2>1, <2>2, <2>3, <2>4 DEF ReportTyped
<1>9. ASSUME A!WriteFails
      PROVE  ReportInv'
  <2>1. ReportQueried'
    BY <1>9, <1>0, ReportQueryKept DEF A!WriteFails
  <2>2. /\ moderation'.report \in A!Report
        /\ moderation'.log \in Seq(A!Entry) /\ Len(moderation'.log) <= MaxActions
        /\ Len(moderation'.log) >= Len(moderation.log)
        /\ \A i \in 1 .. Len(moderation.log) : moderation'.log[i] = moderation.log[i]
        /\ Decided(moderation'.report, moderation'.log)
        /\ moderation.report.status # "OPEN" => moderation'.report.status = moderation.report.status
    BY <1>9, <1>0 DEF A!WriteFails, ReportTrue
  <2>3. /\ deciding' \in {"none", "decide", "refused", "suspend", "restore"}
        /\ decision' \in {A!NoWrite} \union
             [kind : ReportKinds, phase : {"asked", "ok", "failed"}, entry : 0 .. MaxActions]
        /\ decision'.entry <= Len(moderation'.log)
        /\ settled' \subseteq 1 .. Len(moderation'.log)
    BY <1>9, <1>0, <2>2 DEF A!WriteFails, ReportTyped, A!NoWrite, ReportKinds
  <2>4. ReportTrue'
    BY <1>9, <1>0, <2>2
    DEF A!WriteFails, ReportTrue, ReportRead, ViewIsTrue, ReportQueried, ReportViews,
        Deciding, A!Queries
  <2> QED BY <2>1, <2>2, <2>3, <2>4 DEF ReportTyped
<1>10. ASSUME NEW d \in {"decide", "suspend", "restore"}, A!setDialog(d)
      PROVE  ReportInv'
  <2>1. ReportQueried'
    BY <1>10, <1>0, ReportQueryKept DEF A!setDialog, A!offered
  <2>2. /\ moderation'.report \in A!Report
        /\ moderation'.log \in Seq(A!Entry) /\ Len(moderation'.log) <= MaxActions
        /\ Len(moderation'.log) >= Len(moderation.log)
        /\ \A i \in 1 .. Len(moderation.log) : moderation'.log[i] = moderation.log[i]
        /\ Decided(moderation'.report, moderation'.log)
        /\ moderation.report.status # "OPEN" => moderation'.report.status = moderation.report.status
    BY <1>10, <1>0 DEF A!setDialog, A!offered, ReportTrue
  <2>3. /\ deciding' \in {"none", "decide", "refused", "suspend", "restore"}
        /\ decision' \in {A!NoWrite} \union
             [kind : ReportKinds, phase : {"asked", "ok", "failed"}, entry : 0 .. MaxActions]
        /\ decision'.entry <= Len(moderation'.log)
        /\ settled' \subseteq 1 .. Len(moderation'.log)
    BY <1>10, <1>0, <2>2 DEF A!setDialog, A!offered, ReportTyped, A!NoWrite, ReportKinds
  <2>4. ReportTrue'
    BY <1>10, <1>0, <2>2
    DEF A!setDialog, A!offered, ReportTrue, ReportRead, ViewIsTrue, ReportQueried,
        ReportViews, Deciding, A!Queries
  <2> QED BY <2>1, <2>2, <2>3, <2>4 DEF ReportTyped
<1>11. ASSUME NEW kind \in ReportKinds, A!OtherAdministrator(kind)
      PROVE  ReportInv'
  <2>1. ReportQueried'
    BY <1>11, <1>0, ReportQueryKept DEF A!OtherAdministrator
  <2>2. /\ moderation'.report \in A!Report
        /\ moderation'.log \in Seq(A!Entry) /\ Len(moderation'.log) <= MaxActions
        /\ Len(moderation'.log) >= Len(moderation.log)
        /\ \A i \in 1 .. Len(moderation.log) : moderation'.log[i] = moderation.log[i]
        /\ Decided(moderation'.report, moderation'.log)
        /\ moderation.report.status # "OPEN" => moderation'.report.status = moderation.report.status
    BY <1>11, <1>0, ChangeKeeps DEF A!OtherAdministrator, ReportInv
  <2>3. /\ deciding' \in {"none", "decide", "refused", "suspend", "restore"}
        /\ decision' \in {A!NoWrite} \union
             [kind : ReportKinds, phase : {"asked", "ok", "failed"}, entry : 0 .. MaxActions]
        /\ decision'.entry <= Len(moderation'.log)
        /\ settled' \subseteq 1 .. Len(moderation'.log)
    BY <1>11, <1>0, <2>2 DEF A!OtherAdministrator, ReportTyped, A!NoWrite, ReportKinds
  <2>4. ReportTrue'
    BY <1>11, <1>0, <2>2
    DEF A!OtherAdministrator, ReportTrue, ReportRead, ViewIsTrue, ReportQueried, ReportViews,
        Deciding, A!Queries
  <2> QED BY <2>1, <2>2, <2>3, <2>4 DEF ReportTyped
<1>12. ASSUME NEW kind \in ReportKinds, A!run(kind)
      PROVE  ReportInv'
  <2>1. ReportQueried'
    BY <1>12, <1>0, ReportQueryKept DEF A!run
  <2>2. /\ moderation'.report \in A!Report
        /\ moderation'.log \in Seq(A!Entry) /\ Len(moderation'.log) <= MaxActions
        /\ Len(moderation'.log) >= Len(moderation.log)
        /\ \A i \in 1 .. Len(moderation.log) : moderation'.log[i] = moderation.log[i]
        /\ Decided(moderation'.report, moderation'.log)
        /\ moderation.report.status # "OPEN" => moderation'.report.status = moderation.report.status
    BY <1>12, <1>0 DEF A!run, ReportTrue
  <2>3. /\ deciding' \in {"none", "decide", "refused", "suspend", "restore"}
        /\ decision' \in {A!NoWrite} \union
             [kind : ReportKinds, phase : {"asked", "ok", "failed"}, entry : 0 .. MaxActions]
        /\ decision'.entry <= Len(moderation'.log)
        /\ settled' \subseteq 1 .. Len(moderation'.log)
    BY <1>12, <1>0, <2>2 DEF A!run, ReportTyped, A!NoWrite, ReportKinds
  <2>4. ReportTrue'
    BY <1>12, <1>0, <2>2
    DEF A!run, ReportTrue, ReportRead, ViewIsTrue, ReportQueried, ReportViews, Deciding,
        A!Queries
  <2> QED BY <2>1, <2>2, <2>3, <2>4 DEF ReportTyped
<1> QED BY <1>1, <1>2, <1>3, <1>4, <1>5, <1>6, <1>7, <1>8, <1>9, <1>10, <1>11, <1>12
DEF A!ReportNext, ReportKinds

LEMMA ReportInvHolds == Spec => [](screen = "report" => ReportInv)
<1> DEFINE Inv == screen = "report" => ReportInv
<1>1. Init => Inv
  BY ReportInitHolds DEF Init
<1>2. Inv /\ [Next]_vars => Inv'
  <2> SUFFICES ASSUME Inv, [Next]_vars, screen' = "report" PROVE ReportInv'
    OBVIOUS
  <2>1. CASE Next
    BY <2>1, StepOfPage, ReportStep
  <2>2. CASE UNCHANGED vars
    <3>1. UNCHANGED reportVars /\ ReportInv
      BY <2>2 DEF vars
    <3> QED BY <3>1
    DEF reportVars, ReportInv, ReportTyped, ReportTrue, ReportQueried, ReportRead, ViewIsTrue,
        Decided
  <2> QED BY <2>1, <2>2
<1> QED BY <1>1, <1>2, PTL DEF Spec

\* A report that the page shows as decided comes with its one decision,
\* although report and history are read apart, and with every entry the
\* page was told it settled.
THEOREM DecisionIsShownHolds == Spec => []DecisionIsShown
<1>1. (screen = "report" => ReportInv) => DecisionIsShown
  BY
  DEF DecisionIsShown, ReportInv, ReportTrue, ViewIsTrue, Decided, Deciding,
      A!DecisionIsShown, A!Ready, A!Shows
<1> QED BY <1>1, ReportInvHolds, PTL

=============================================================================

---------------------------- MODULE ProposalPage ----------------------------
(***************************************************************************)
(* The page of a student and its proposal dialog: the options come from    *)
(* the match as it was when the page loaded, and the match may change      *)
(* while the dialog is filled in and while the proposal is on its way.     *)
(* The fields stay enabled while it is sent.                               *)
(***************************************************************************)
EXTENDS Naturals, FiniteSets, Query

CONSTANTS
    Matches,    \* bound: the matches (ProposalOptions) the server may compute
    Counts,     \* sessionOptions
    Durations   \* durationOptions

PlansAssumption == 2 \in Counts /\ 60 \in Durations

Plans == [sessions : Counts, minutes : Durations]
Hours(plan) == plan.sessions * plan.minutes
Unset == "unset"
SkillIds == {Unset} \union UNION {m.teach \union m.learn : m \in Matches}
Formats == {Unset} \union UNION {m.formats : m \in Matches}
Drafts == [teachSkillId : SkillIds, learnSkillId : SkillIds, format : Formats,
           teach : Plans, learn : Plans]
NoDialog == [open |-> FALSE]
Dialogs == [open : {TRUE}, draft : Drafts, mirrored : BOOLEAN,
            pending : BOOLEAN, created : BOOLEAN]
NoPost == [answer |-> "none"]

VARIABLES
    match,      \* server: the match now
    waiting,    \* server: the pairs of skills with a pending request
    candidate,  \* the query of the page
    dialog,     \* the proposal dialog
    post        \* the proposal in flight

proposalVars == <<match, waiting, candidate, dialog, post>>

ProposalTypeOK ==
    /\ match \in Matches
    /\ waiting \subseteq SkillIds \X SkillIds
    /\ candidate \in Queries({"student"}, Matches)
    /\ dialog \in Dialogs \union {NoDialog}
    /\ post \in {NoPost} \union
          [answer : {"asked", "created", "duplicate_request", "validation_failed"},
           draft : Drafts, options : Matches, page : BOOLEAN]

ProposalInit ==
    /\ match \in Matches
    /\ waiting = {}
    /\ candidate = Load("student")
    /\ dialog = NoDialog /\ post = NoPost

-----------------------------------------------------------------------------
options == candidate.data

Only(S) == IF Cardinality(S) = 1 THEN CHOOSE x \in S : TRUE ELSE Unset

initialProposal(o) ==
    LET plan == [sessions |-> 2, minutes |-> 60]
    IN  [teachSkillId |-> Only(o.teach), learnSkillId |-> Only(o.learn),
         format |-> Only(o.formats), teach |-> plan, learn |-> plan]

validateProposal(draft, o) ==
    /\ draft.teachSkillId \in o.teach
    /\ draft.learnSkillId \in o.learn \ {draft.teachSkillId}
    /\ draft.format \in o.formats
    /\ Hours(draft.teach) = Hours(draft.learn)

(* Both the button of the page and the form of the dialog ask for one of    *)
(* each.                                                                    *)
canPropose == options.teach # {} /\ options.learn # {} /\ options.formats # {}

change(draft, mirrored) == IF mirrored THEN [draft EXCEPT !.learn = draft.teach] ELSE draft

filling == dialog.open /\ ~dialog.created

-----------------------------------------------------------------------------
AnswerCandidate ==
    /\ Asked(candidate)
    /\ candidate' = Served(candidate, match)
    /\ UNCHANGED <<match, waiting, dialog, post>>

TakeCandidate ==
    /\ candidate' \in (IF Arriving(candidate) THEN {Taken(candidate)} ELSE {})
                      \union (IF InFlight(candidate) THEN {Failed(candidate)} ELSE {})
    /\ UNCHANGED <<match, waiting, dialog, post>>

(* Also a reload, and a way out and back: the dialog is gone, and the       *)
(* answer of a proposal on its way reaches nobody.                          *)
Reopen ==
    /\ ~InFlight(candidate)
    /\ candidate' = Retry(candidate)
    /\ dialog' = NoDialog
    /\ post' = IF post = NoPost THEN NoPost ELSE [post EXCEPT !.page = FALSE]
    /\ UNCHANGED <<match, waiting>>

OpenProposal ==
    /\ Ready(candidate) /\ canPropose /\ ~dialog.open
    /\ dialog' = [open |-> TRUE, draft |-> initialProposal(options),
                  mirrored |-> TRUE, pending |-> FALSE, created |-> FALSE]
    /\ UNCHANGED <<match, waiting, candidate, post>>

CloseProposal ==
    /\ dialog.open /\ ~dialog.pending
    /\ dialog' = NoDialog
    /\ UNCHANGED <<match, waiting, candidate, post>>

(* One field of the form: the partner's plan is disabled while mirrored.    *)
Edited(draft) ==
    {[draft EXCEPT !.teachSkillId = s] : s \in options.teach}
    \union {[draft EXCEPT !.learnSkillId = s] : s \in options.learn}
    \union {[draft EXCEPT !.format = f] : f \in options.formats}
    \union {[draft EXCEPT !.teach.sessions = n] : n \in Counts}
    \union {[draft EXCEPT !.teach.minutes = n] : n \in Durations}
    \union (IF dialog.mirrored THEN {}
            ELSE {[draft EXCEPT !.learn.sessions = n] : n \in Counts}
                 \union {[draft EXCEPT !.learn.minutes = n] : n \in Durations})

Edit ==
    /\ filling
    /\ \E draft \in Edited(dialog.draft) :
          dialog' = [dialog EXCEPT !.draft = change(draft, dialog.mirrored)]
    /\ UNCHANGED <<match, waiting, candidate, post>>

(* Mutant: the switch leaves the fields as they are. *)
toggleMirroredOnly(mirrored) ==
    /\ filling
    /\ dialog' = [dialog EXCEPT !.mirrored = mirrored]
    /\ UNCHANGED <<match, waiting, candidate, post>>

toggleMirrored(mirrored) ==
    /\ filling
    /\ dialog' = [dialog EXCEPT !.mirrored = mirrored,
                                !.draft = change(dialog.draft, mirrored)]
    /\ UNCHANGED <<match, waiting, candidate, post>>

submit ==
    /\ filling /\ ~dialog.pending /\ post = NoPost
    /\ validateProposal(dialog.draft, options)
    /\ dialog' = [dialog EXCEPT !.pending = TRUE]
    /\ post' = [answer |-> "asked", draft |-> dialog.draft, options |-> options,
                page |-> TRUE]
    /\ UNCHANGED <<match, waiting, candidate>>

-----------------------------------------------------------------------------
Pair(draft) == <<draft.teachSkillId, draft.learnSkillId>>

(* The server checks the proposal against the match of the moment.          *)
createRequest ==
    /\ post.answer = "asked"
    /\ LET ok == validateProposal(post.draft, match)
           duplicate == Pair(post.draft) \in waiting
       IN  /\ post' = [post EXCEPT !.answer =
                  IF ~ok THEN "validation_failed"
                  ELSE IF duplicate THEN "duplicate_request" ELSE "created"]
           /\ waiting' = IF ok THEN waiting \union {Pair(post.draft)} ELSE waiting
    /\ UNCHANGED <<match, candidate, dialog>>

(* An answer, or none: what was refused or lost may be sent again.          *)
Posted ==
    /\ post # NoPost
    /\ dialog' \in
         IF ~post.page THEN {dialog}
         ELSE {[dialog EXCEPT !.pending = FALSE, !.created = created] :
                  created \in {FALSE, post.answer = "created"}}
    /\ post' = NoPost
    /\ UNCHANGED <<match, waiting, candidate>>

(* The partner or the student in another tab edits a profile; a request is  *)
(* answered.                                                                *)
MatchChanges ==
    /\ match' \in Matches \ {match}
    /\ UNCHANGED <<waiting, candidate, dialog, post>>

RequestAnswered ==
    /\ \E pair \in waiting : waiting' = waiting \ {pair}
    /\ UNCHANGED <<match, candidate, dialog, post>>

ProposalNext ==
    \/ AnswerCandidate \/ TakeCandidate \/ Reopen \/ OpenProposal \/ CloseProposal
    \/ Edit \/ submit \/ createRequest \/ Posted \/ MatchChanges \/ RequestAnswered
    \/ \E mirrored \in BOOLEAN : toggleMirrored(mirrored)

-----------------------------------------------------------------------------
(* Whatever was edited while the switch was turned on and off, and while a  *)
(* proposal was on its way: mirrored plans are equal, and a proposal that   *)
(* leaves the page offers both sides the same hours and two skills of the   *)
(* match the student saw.                                                   *)
ProposalIsFair ==
    /\ dialog.open /\ dialog.mirrored => dialog.draft.teach = dialog.draft.learn
    /\ post # NoPost =>
          /\ Hours(post.draft.teach) = Hours(post.draft.learn)
          /\ post.draft.teachSkillId # post.draft.learnSkillId
          /\ post.draft.teachSkillId \in post.options.teach
          /\ post.draft.learnSkillId \in post.options.learn
=============================================================================

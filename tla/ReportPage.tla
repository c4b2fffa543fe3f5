------------------------------ MODULE ReportPage ------------------------------
(***************************************************************************)
(* The page on which an administrator decides a report and suspends or     *)
(* restores the account it is about, while other administrators do so.     *)
(* The server reads the report and the history of its subject one after    *)
(* the other, and a decision can be committed in between.  A page that is  *)
(* left and opened again starts anew, and its write in flight is then one  *)
(* of the other administrators'.                                           *)
(***************************************************************************)
EXTENDS Naturals, SequencesExt, Query

CONSTANT MaxActions   \* bound: log entries about the account, at most the 20 shown

ActionsAssumption == MaxActions \in Nat

Decisions == {"DISMISS", "RESOLVE", "SUSPEND"}
decisionResults ==
    [DISMISS |-> [status |-> "DISMISSED", action |-> "DISMISS_REPORT"],
     RESOLVE |-> [status |-> "RESOLVED", action |-> "RESOLVE_REPORT"],
     SUSPEND |-> [status |-> "RESOLVED", action |-> "SUSPEND_ACCOUNT"]]

VARIABLES
    moderation,   \* server: the report's status, the account and the log
    details,      \* the query of the page
    dialog,       \* the open dialog; modal
    decision,     \* the write in flight and its answer
    settled       \* the log entries the page was told it made

reportVars == <<moderation, details, dialog, decision, settled>>

(* An entry of the log: its action, and whether it decides the report. *)
Entry == [action : {"DISMISS_REPORT", "RESOLVE_REPORT", "SUSPEND_ACCOUNT", "RESTORE_ACCOUNT"},
          decides : BOOLEAN]
Report == [status : {"OPEN", "RESOLVED", "DISMISSED"}, account : {"ACTIVE", "SUSPENDED"}]
NoWrite == [kind |-> "none", phase |-> "none", entry |-> 0]

ReportTypeOK ==
    /\ moderation.report \in Report
    /\ moderation.log \in Seq(Entry) /\ Len(moderation.log) <= MaxActions
    /\ details.key = "report" /\ details.held = "report"
    /\ details.status \in {"loading", "ready", "error"}
    /\ details.call \in {"none", "asked", "served"}
    /\ dialog \in {"none", "decide", "refused", "suspend", "restore"}
    /\ decision \in {NoWrite} \union
         [kind : Decisions \union {"suspend", "restore"},
          phase : {"asked", "ok", "failed"}, entry : 0 .. MaxActions]
    /\ settled \subseteq 1 .. Len(moderation.log)

ReportInit ==
    /\ moderation \in {[report |-> [status |-> "OPEN", account |-> a], log |-> <<>>] :
                         a \in {"ACTIVE", "SUSPENDED"}}
    /\ details = Load("report")
    /\ dialog = "none"
    /\ decision = NoWrite
    /\ settled = {}

-----------------------------------------------------------------------------
(* The server.  The report's row is locked until the decision is committed, *)
(* and so is the account's: one decision of a report, one change of account *)
(* at a time, each with its entry.                                          *)
After(report, log, kind) ==
    CASE kind \in Decisions ->
           [report |-> [status |-> decisionResults[kind].status,
                        account |-> IF kind = "SUSPEND" THEN "SUSPENDED" ELSE report.account],
            log |-> Append(log, [action |-> decisionResults[kind].action, decides |-> TRUE])]
      [] kind = "suspend" ->
           [report |-> [report EXCEPT !.account = "SUSPENDED"],
            log |-> Append(log, [action |-> "SUSPEND_ACCOUNT", decides |-> FALSE])]
      [] kind = "restore" ->
           [report |-> [report EXCEPT !.account = "ACTIVE"],
            log |-> Append(log, [action |-> "RESTORE_ACCOUNT", decides |-> FALSE])]

(* Mutant: a report may be decided again. *)
neverClosed(kind) == FALSE

closed(kind) == kind \in Decisions /\ moderation.report.status # "OPEN"

unchanged(kind) ==
    \/ kind = "suspend" /\ moderation.report.account = "SUSPENDED"
    \/ kind = "restore" /\ moderation.report.account = "ACTIVE"

Change(kind) ==
    /\ ~closed(kind) /\ ~unchanged(kind)
    /\ Len(moderation.log) < MaxActions
    /\ moderation' = After(moderation.report, moderation.log, kind)

OtherAdministrator(kind) ==
    /\ Change(kind)
    /\ UNCHANGED <<details, dialog, decision, settled>>

HandleWrite ==
    /\ decision.phase = "asked"
    /\ \/ /\ closed(decision.kind)
          /\ decision' = [decision EXCEPT !.phase = "failed"]
          /\ UNCHANGED moderation
       \/ /\ unchanged(decision.kind)
          /\ decision' = [decision EXCEPT !.phase = "ok"]
          /\ UNCHANGED moderation
       \/ /\ Change(decision.kind)
          /\ decision' = [decision EXCEPT !.phase = "ok", !.entry = Len(moderation'.log)]
    /\ UNCHANGED <<details, dialog, settled>>

ReadReport ==
    /\ Asked(details) /\ details.answer = Nothing
    /\ details' = [details EXCEPT !.answer =
                     [report |-> moderation.report, history |-> Nothing]]
    /\ UNCHANGED <<moderation, dialog, decision, settled>>

ReadHistory ==
    /\ Asked(details) /\ details.answer # Nothing
    /\ details' = Served(details, [details.answer EXCEPT !.history = moderation.log])
    /\ UNCHANGED <<moderation, dialog, decision, settled>>

-----------------------------------------------------------------------------
TakeAnswer ==
    /\ Arriving(details) /\ details' = Taken(details)
    /\ UNCHANGED <<moderation, dialog, decision, settled>>

QueryFails ==
    /\ InFlight(details) /\ details' = Failed(details)
    /\ UNCHANGED <<moderation, dialog, decision, settled>>

(* After an error, or with the button that refreshes the report. *)
Refresh ==
    /\ Shows(details) \in {"error", "ready"} /\ dialog = "none"
    /\ details' = Retry(details)
    /\ UNCHANGED <<moderation, dialog, decision, settled>>

offered ==
    IF ~Ready(details) \/ dialog # "none" THEN {}
    ELSE (IF details.data.report.status = "OPEN" THEN {"decide"} ELSE {})
         \union {IF details.data.report.account = "ACTIVE" THEN "suspend" ELSE "restore"}

setDialog(d) ==
    /\ d \in offered /\ dialog' = d
    /\ UNCHANGED <<moderation, details, decision, settled>>

(* The dialog of a refused decision also offers to refresh the report. *)
onClose ==
    /\ dialog # "none" /\ decision = NoWrite
    /\ dialog' = "none"
    /\ details' \in {details} \union (IF dialog = "refused" THEN {Retry(details)} ELSE {})
    /\ UNCHANGED <<moderation, decision, settled>>

run(kind) ==
    /\ dialog # "none" /\ decision = NoWrite
    /\ IF dialog \in {"decide", "refused"} THEN kind \in Decisions ELSE kind = dialog
    /\ decision' = [kind |-> kind, phase |-> "asked", entry |-> 0]
    /\ UNCHANGED <<moderation, details, dialog, settled>>

WriteDone ==
    /\ decision.phase = "ok"
    /\ dialog' = "none"
    /\ details' = Retry(details)
    /\ settled' = settled \union ({decision.entry} \ {0})
    /\ decision' = NoWrite
    /\ UNCHANGED moderation

(* Refused or unanswered: the dialog stays open with the error. *)
WriteFails ==
    /\ decision # NoWrite /\ decision' = NoWrite
    /\ dialog' = IF dialog = "decide" THEN "refused" ELSE dialog
    /\ UNCHANGED <<moderation, details, settled>>

ReportNext ==
    \/ ReadReport \/ ReadHistory \/ TakeAnswer \/ QueryFails \/ Refresh
    \/ onClose \/ HandleWrite \/ WriteDone \/ WriteFails
    \/ \E d \in {"decide", "suspend", "restore"} : setDialog(d)
    \/ \E kind \in Decisions \union {"suspend", "restore"} :
          OtherAdministrator(kind) \/ run(kind)

-----------------------------------------------------------------------------
(* A report shown as decided has exactly one decision in the history beside *)
(* it, the one its status says; and what the page saved is on it.           *)
DecisionIsShown ==
    Ready(details) =>
      LET report == details.data.report
          history == details.data.history
          deciding == {i \in DOMAIN history : history[i].decides}
      IN  /\ settled \subseteq DOMAIN history
          /\ report.status # "OPEN" =>
                \E i \in deciding :
                   /\ deciding = {i}
                   /\ report.status = "DISMISSED" <=> history[i].action = "DISMISS_REPORT"
          /\ settled \intersect deciding # {} => report.status # "OPEN"
=============================================================================

----------------------------- MODULE SafetyPages -----------------------------
(***************************************************************************)
(* Blocking and reporting one student from the pages that offer it, and    *)
(* the settings lists of blocks and reports, while the same account is     *)
(* used in another tab and administrators close reports.  Dialogs are      *)
(* modal, so a page has one write at a time.                               *)
(***************************************************************************)
EXTENDS Naturals, Query

CONSTANT MaxReports   \* bound: reports about the student

ReportsAssumption == MaxReports \in Nat \ {0}

VARIABLES
    trust,     \* server: the block, the open report and the closed ones
    query,     \* the query of the open page; its key is the page
    safety,    \* StudentSafety or SafetyLists: its dialog and its block state
    write,     \* the write in flight
    told       \* what the page confirmed, while nobody else has changed it

safetyVars == <<trust, query, safety, write, told>>

(* "overview" is the page of a request or of an exchange. *)
SafetyScreens == {"chat", "overview", "candidate", "blocks", "reports"}
Trust == [blocked : BOOLEAN, open : BOOLEAN, closed : 0 .. MaxReports]
Reports(t) == t.closed + (IF t.open THEN 1 ELSE 0)
NoWrite == [action |-> "none", from |-> "none", phase |-> "none"]
Unmounted == [dialog |-> "none", blocked |-> FALSE]

SafetyTypeOK ==
    /\ trust \in Trust
    /\ query \in Queries(SafetyScreens, Trust)
    /\ safety \in [dialog : {"none", "block", "unblock", "report"}, blocked : BOOLEAN]
    /\ write \in {NoWrite} \union
         [action : {"block", "unblock", "report"}, from : SafetyScreens \union {"gone", "redirect"},
          phase : {"asked", "ok", "report_exists"}]
    /\ told \in [block : {"unknown", "block", "unblock"}, reports : 0 .. MaxReports]

SafetyInit ==
    /\ trust \in {[blocked |-> b, open |-> o, closed |-> 0] : b, o \in BOOLEAN}
    /\ query \in {Load(k) : k \in SafetyScreens}
    /\ safety = Unmounted
    /\ write = NoWrite
    /\ told = [block |-> "unknown", reports |-> 0]

-----------------------------------------------------------------------------
AnswerQuery ==
    /\ Asked(query) /\ query' = Served(query, trust)
    /\ UNCHANGED <<trust, safety, write, told>>

(* StudentSafety mounts with the page's data.  Only the chat says whether   *)
(* the student is blocked; the other pages start from "not blocked".  The   *)
(* lists keep their dialog while they load.                                 *)
TakeAnswer ==
    /\ Arriving(query) /\ query' = Taken(query)
    /\ safety' = IF query.key \in {"blocks", "reports"} THEN safety
                 ELSE [dialog |-> "none",
                       blocked |-> query.key = "chat" /\ query.answer.blocked]
    /\ UNCHANGED <<trust, write, told>>

QueryFails ==
    /\ InFlight(query) /\ query' = Failed(query)
    /\ UNCHANGED <<trust, safety, write, told>>

RetryQuery ==
    /\ Shows(query) = "error" /\ query' = Retry(query)
    /\ UNCHANGED <<trust, safety, write, told>>

(* Browser navigation leaves even an open dialog; its write goes on, and    *)
(* that of a profile still leads to the list of blocks when it is done.     *)
Go(k, call) ==
    /\ query' = Load(k)
    /\ safety' = Unmounted
    /\ write' = IF call = NoWrite THEN NoWrite
                ELSE [call EXCEPT !.from = IF @ \in {"candidate", "redirect"} THEN "redirect"
                                           ELSE "gone"]

Visit(k) ==
    /\ k # query.key
    /\ Go(k, write)
    /\ UNCHANGED <<trust, told>>

-----------------------------------------------------------------------------
offered ==
    IF ~Ready(query) \/ safety.dialog # "none" THEN {}
    ELSE CASE query.key = "reports" -> {}
           [] query.key = "blocks" -> IF query.data.blocked THEN {"unblock"} ELSE {}
           [] OTHER -> {"report", IF safety.blocked THEN "unblock" ELSE "block"}

setDialog(action) ==
    /\ action \in offered /\ write = NoWrite
    /\ safety' = [safety EXCEPT !.dialog = action]
    /\ UNCHANGED <<trust, query, write, told>>

onClose ==
    /\ safety.dialog # "none" /\ write = NoWrite
    /\ safety' = [safety EXCEPT !.dialog = "none"]
    /\ UNCHANGED <<trust, query, write, told>>

run ==
    /\ safety.dialog # "none" /\ write = NoWrite
    /\ write' = [action |-> safety.dialog, from |-> query.key, phase |-> "asked"]
    /\ told' = IF safety.dialog = "report" THEN told ELSE [told EXCEPT !.block = "unknown"]
    /\ UNCHANGED <<trust, query, safety>>

(* The server: blocking and unblocking again change nothing, and one report *)
(* about a student is open at a time.                                       *)
HandleWrite ==
    /\ write.phase = "asked"
    /\ IF write.action = "report"
       THEN \/ /\ trust.open /\ UNCHANGED trust
               /\ write' = [write EXCEPT !.phase = "report_exists"]
            \/ /\ ~trust.open /\ trust.closed < MaxReports
               /\ trust' = [trust EXCEPT !.open = TRUE]
               /\ write' = [write EXCEPT !.phase = "ok"]
       ELSE /\ trust' = [trust EXCEPT !.blocked = write.action = "block"]
            /\ write' = [write EXCEPT !.phase = "ok"]
    /\ UNCHANGED <<query, safety, told>>

(* Mutant: the page does not reload. *)
onChangedUnseen(block) ==
    IF query.key = "candidate" THEN Go("blocks", NoWrite)
    ELSE /\ safety' = [safety EXCEPT !.dialog = "none"]
         /\ write' = NoWrite
         /\ UNCHANGED query

(* onDone: the page reloads after a block, a profile gives way to the list  *)
(* of blocks, a report changes nothing on its page.                         *)
onChanged(block) ==
    IF query.key = "candidate" THEN Go("blocks", NoWrite)
    ELSE /\ query' = Retry(query)
         /\ safety' = [dialog |-> "none", blocked |-> block]
         /\ write' = NoWrite

WriteDone ==
    /\ write.phase = "ok"
    /\ \/ /\ write.from \in SafetyScreens /\ write.action # "report"
          /\ told' = [told EXCEPT !.block =
                IF trust.blocked = (write.action = "block") THEN write.action ELSE @]
          /\ onChanged(write.action = "block")
       \/ /\ write.from \in SafetyScreens /\ write.action = "report"
          /\ told' = [told EXCEPT !.reports = @ + 1]
          /\ safety' = [safety EXCEPT !.dialog = "none"]
          /\ write' = NoWrite /\ UNCHANGED query
       \/ /\ write.from = "redirect" /\ write.action # "report"
          /\ Go("blocks", NoWrite) /\ UNCHANGED told
       \/ /\ write.from = "gone" \/ (write.from = "redirect" /\ write.action = "report")
          /\ write' = NoWrite /\ UNCHANGED <<query, safety, told>>
    /\ UNCHANGED trust

(* Refused, or no answer although the server may have done it: the dialog   *)
(* stays with the error and may try again.                                  *)
WriteFails ==
    /\ write # NoWrite /\ write' = NoWrite
    /\ UNCHANGED <<trust, query, safety, told>>

BlockElsewhere ==
    /\ trust' = [trust EXCEPT !.blocked = ~@]
    /\ told' = [told EXCEPT !.block = "unknown"]
    /\ UNCHANGED <<query, safety, write>>

CloseReport ==
    /\ trust.open
    /\ trust' = [trust EXCEPT !.open = FALSE, !.closed = @ + 1]
    /\ UNCHANGED <<query, safety, write, told>>

SafetyNext ==
    \/ AnswerQuery \/ TakeAnswer \/ QueryFails \/ RetryQuery
    \/ \E k \in SafetyScreens : Visit(k)
    \/ \E action \in {"block", "unblock", "report"} : setDialog(action)
    \/ onClose \/ run \/ HandleWrite \/ WriteDone \/ WriteFails
    \/ BlockElsewhere \/ CloseReport

-----------------------------------------------------------------------------
(* After a block or an unblock that was confirmed, the chat and the list of *)
(* blocks agree with it, and every report that was confirmed is listed.     *)
SafetyIsShown ==
    Ready(query) =>
      /\ query.key = "chat" /\ told.block # "unknown" =>
            safety.blocked = (told.block = "block")
      /\ query.key = "blocks" /\ told.block # "unknown" =>
            query.data.blocked = (told.block = "block")
      /\ query.key = "reports" => Reports(query.data) >= told.reports
=============================================================================

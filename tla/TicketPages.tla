------------------------------ MODULE TicketPages ------------------------------
(***************************************************************************)
(* The five list pages of the web client (repair, resale, disposal,        *)
(* deployment, retrieval) in one browser tab, with the ticket they show:   *)
(* what the query cache holds of it, the control that changes its status,  *)
(* the dialog some changes go through, and the request on its way.         *)
(*                                                                         *)
(* The cache is TanStack Query as App.tsx configures it (external): a view *)
(* (one query key) is fetched when it is shown and stale, an invalidation  *)
(* marks every view of the key stale and restarts the fetch of the one on  *)
(* screen, an answer clears the mark of its view.  The server is the       *)
(* ticket's row behind the guards of its service.                          *)
(***************************************************************************)
EXTENDS Naturals

CONSTANTS Page,         \* the pages to look at
          Role,         \* what the user may do: "reader", "writer", "approver"
          MaxMishaps,   \* bound: changes made by other users, answers and fetches lost
          MaxRequests   \* bound: changes the user sends

ASSUME TicketAssumption ==
    Page \subseteq {"repair", "resale", "disposal", "deployment", "retrieval"}

VARIABLES page, role,
          status,       \* the ticket's status on the server, "none" before it is created
          proofs,       \* documents uploaded for it
          row,          \* row[v]: the ticket as the cache holds it for view v
          stale,        \* the views marked stale
          fetch,        \* fetch[v]: not asked, asked, or the answer on its way
          shown,        \* the list on screen
          form,         \* the create form is open
          choice,       \* what the row's select shows instead of the row's status
          dialog,       \* the change that waits for a confirmation
          req,          \* the mutation in flight
          late,         \* cached views whose answer is older than a change
          surprise,     \* the change refused last, when the page offered it for the ticket's status
          unsaved,      \* why the select shows what was not saved
          mishaps, sent

ticketVars == <<page, role, status, proofs, row, stale, fetch, shown, form, choice, dialog,
                req, late, surprise, unsaved, mishaps, sent>>

List == {"all", "filtered"}
View == List \cup {"picker"}

--------------------------------------------------------------------------------
(* The pages' tables: the statuses a row's control offers.                 *)

RepairOffers == [pending   |-> {"cancelled"},
                 approved  |-> {"sent", "cancelled"},
                 sent      |-> {"in_repair", "cancelled"},
                 in_repair |-> {"returned", "cancelled"},
                 returned  |-> {"completed"}]

ResaleOffers == [listed |-> {"sold", "cancelled"}]

DisposalOffers == [approved |-> {"in_progress"}, in_progress |-> {"completed"}]

DeploymentOffers == [pending |-> {"in_transit", "delivered"}, in_transit |-> {"delivered"}]

\* Mutant: a step back.
RetrievalOffersBack == [pending    |-> {"initiated", "cancelled"},
                        initiated  |-> {"in_transit", "cancelled"},
                        in_transit |-> {"received", "cancelled", "initiated"}]

RetrievalOffers == [pending    |-> {"initiated", "cancelled"},
                    initiated  |-> {"in_transit", "cancelled"},
                    in_transit |-> {"received", "cancelled"}]

Offers == [repair |-> RepairOffers, resale |-> ResaleOffers, disposal |-> DisposalOffers,
           deployment |-> DeploymentOffers, retrieval |-> RetrievalOffers]

\* Repair has an Approve button, disposal an "approved" option; both for those who may.
Approves(p, s) == p \in {"repair", "disposal"} /\ s = "pending" /\ role = "approver"

Offered(p, s) == (IF s \in DOMAIN Offers[p] THEN Offers[p][s] ELSE {})
                   \cup (IF Approves(p, s) THEN {"approved"} ELSE {})

(* The services' guards.                                                   *)

RepairAccepts == [RepairOffers EXCEPT !["pending"] = {"cancelled", "approved"}]

ResaleAccepts == [listed |-> {"sold", "cancelled"}]

DisposalAccepts == [pending |-> {"approved"}, approved |-> {"in_progress"},
                    in_progress |-> {"completed"}]

DeploymentAccepts == [pending |-> {"in_transit", "cancelled"},
                      in_transit |-> {"delivered", "cancelled"}]

RetrievalAccepts == [pending    |-> {"initiated", "cancelled"},
                     initiated  |-> {"in_transit", "cancelled"},
                     in_transit |-> {"received", "cancelled"}]

Accepts == [repair |-> RepairAccepts, resale |-> ResaleAccepts, disposal |-> DisposalAccepts,
            deployment |-> DeploymentAccepts, retrieval |-> RetrievalAccepts]

\* The roles of the endpoint, then the service's guard.
Allowed(to) == IF to = "approved" THEN role = "approver" ELSE role # "reader"

Accepted(to) == /\ Allowed(to)
                /\ status \in DOMAIN Accepts[page]
                /\ to \in Accepts[page][status]
                /\ (page = "repair" /\ to = "completed") => proofs > 0

(* The pages: the changes that ask for a confirmation, a price or a document first; whether the   *)
(* select keeps what was chosen until the browser drops the option, and is made anew for a new    *)
(* status; whether a create asks for the assets again; and the statuses that keep the asset from  *)
(* another ticket.                                                                                *)

RepairPage == [first |-> "pending", confirmed |-> {"completed", "approved"}, keeps |-> TRUE,
               anew |-> TRUE, refills |-> TRUE,
               holding |-> {"pending", "approved", "sent", "in_repair"}]

ResalePage == [first |-> "listed", confirmed |-> {"sold"}, keeps |-> TRUE,
               anew |-> FALSE, refills |-> FALSE,
               holding |-> {"listed", "sold"}]

DisposalPage == [first |-> "pending", confirmed |-> {"approved"}, keeps |-> FALSE,
                 anew |-> FALSE, refills |-> FALSE,
                 holding |-> {"completed"}]

DeploymentPage == [first |-> "pending", confirmed |-> {"in_transit", "delivered", "pending"},
                   keeps |-> FALSE, anew |-> FALSE, refills |-> TRUE,
                   holding |-> {"pending", "in_transit", "delivered", "cancelled"}]

RetrievalPage == [first |-> "pending", confirmed |-> {}, keeps |-> TRUE,
                  anew |-> FALSE, refills |-> TRUE,
                  holding |-> {"pending", "initiated", "in_transit", "received", "cancelled"}]

Screen == [repair |-> RepairPage, resale |-> ResalePage, disposal |-> DisposalPage,
           deployment |-> DeploymentPage, retrieval |-> RetrievalPage][page]

First == Screen.first

Free == status \notin Screen.holding

\* What the server answers for a view; "filtered" asks for the first status.
Answer(v) == CASE v = "all"      -> status
               [] v = "filtered" -> IF status = First THEN status ELSE "none"
               [] v = "picker"   -> IF Free THEN "offered" ELSE "none"

--------------------------------------------------------------------------------
(* The query cache.                                                        *)

NotAsked == [at |-> "no"]

Asked == [at |-> "asked"]

Fetching(v) == fetch[v] # NotAsked

\* keepPreviousData: the rows of the view before stay on screen until the first answer.
Fetched == {v \in View : row[v] # "unknown"}

Displayed == IF shown \in Fetched THEN row[shown]
             ELSE IF \E v \in List : v \in Fetched
                  THEN row[CHOOSE v \in List : v \in Fetched]
                  ELSE "none"

OnScreen(v) == v = shown \/ (v = "picker" /\ form)

\* A success marks the views of the page's keys stale and asks again for the one on screen.
Invalidate(keys) ==
    /\ stale' = stale \cup keys
    /\ fetch' = [v \in View |-> IF v \in keys /\ OnScreen(v) THEN Asked ELSE fetch[v]]

\* Mutant: nobody invalidates the picker.
CreateKeysNoPicker == List

\* keys named by the pages' onSuccess of create; the form closes, so the picker only goes stale.
CreateKeys == IF Screen.refills THEN View ELSE List

\* Mutant: only the list on screen is invalidated.
StatusKeysShown == {shown}

StatusKeys == List

\* Answers made before a change are late; the cached rows are too, when nobody tells the page.
Outdate == fetch' = [v \in View |-> IF fetch[v].at = "answered"
                                    THEN [fetch[v] EXCEPT !.late = TRUE] ELSE fetch[v]]

Outdated == Fetched \ stale

--------------------------------------------------------------------------------
(* The select of the row, and the requests it makes.                       *)

NoReq == [phase |-> "no"]

Idle == req = NoReq

\* The select after the row on screen became r: repair makes a new one for a new status.
Redrawn(r) == IF choice \in Offered(page, r) /\ ~(Screen.anew /\ r # Displayed)
              THEN choice ELSE "none"

Send(to) ==
    req' = [phase |-> IF page = "repair" /\ to = "completed" THEN "upload" ELSE "sent",
            to |-> to, seen |-> Displayed]

TicketInit ==
    /\ page \in Page /\ role \in Role
    /\ role = "approver" => page \in {"repair", "disposal"}     \* elsewhere like a writer
    /\ status \in {"none"} \cup DOMAIN Accepts[page]
    /\ proofs = 0 /\ mishaps = 0 /\ sent = 0
    /\ row = [v \in View |-> "unknown"]
    /\ stale = {} /\ late = {}
    /\ fetch = [v \in View |-> IF v = "all" THEN Asked ELSE NotAsked]
    /\ shown = "all" /\ form = FALSE /\ choice = "none" /\ dialog = "none"
    /\ req = NoReq /\ surprise = <<>> /\ unsaved = "none"

\* The user changes the filter: another key, fetched unless its rows are still fresh.
SwitchView ==
    \E v \in List \ {shown} :
        /\ dialog = "none" \/ page = "deployment"
        /\ shown' = v
        /\ \/ fetch' = [fetch EXCEPT ![v] = IF Fetching(v) THEN fetch[v] ELSE Asked]
           \/ v \in Fetched \ stale /\ UNCHANGED fetch
        /\ choice' = Redrawn(IF v \in Fetched THEN row[v] ELSE Displayed)
        /\ UNCHANGED <<page, role, status, proofs, row, stale, form, dialog, req, late, surprise,
                       unsaved, mishaps, sent>>

\* Coming back to the window asks again for what is stale by then.
Refocus ==
    /\ ~Fetching(shown)
    /\ fetch' = [fetch EXCEPT ![shown] = Asked]
    /\ UNCHANGED <<page, role, status, proofs, row, stale, shown, form, choice, dialog, req, late,
                   surprise, unsaved, mishaps, sent>>

FetchServe ==
    \E v \in View :
        /\ fetch[v] = Asked
        /\ fetch' = [fetch EXCEPT ![v] =
                        [at |-> "answered", row |-> Answer(v), late |-> FALSE]]
        /\ UNCHANGED <<page, role, status, proofs, row, stale, shown, form, choice, dialog, req,
                       late, surprise, unsaved, mishaps, sent>>

FetchArrive ==
    \E v \in View :
        /\ fetch[v].at = "answered"
        /\ row' = [row EXCEPT ![v] = fetch[v].row]
        /\ fetch' = [fetch EXCEPT ![v] = NotAsked]
        /\ stale' = stale \ {v}
        /\ late' = IF fetch[v].late THEN late \cup {v} ELSE late \ {v}
        /\ choice' = IF v = shown THEN Redrawn(fetch[v].row) ELSE choice
        /\ UNCHANGED <<page, role, status, proofs, shown, form, dialog, req, surprise, unsaved,
                       mishaps, sent>>

\* The retry failed too: the rows stay, and stay stale.
FetchFail ==
    \E v \in View :
        /\ fetch[v] = Asked /\ mishaps < MaxMishaps
        /\ fetch' = [fetch EXCEPT ![v] = NotAsked]
        /\ stale' = stale \cup {v}
        /\ mishaps' = mishaps + 1
        /\ UNCHANGED <<page, role, status, proofs, row, shown, form, choice, dialog, req, late,
                       surprise, unsaved, sent>>

\* Another user changes the ticket in a way its service accepts.
Elsewhere ==
    /\ mishaps < MaxMishaps /\ status \in DOMAIN Accepts[page]
    /\ \E to \in Accepts[page][status] :
          /\ status' = to
          /\ proofs' = IF page = "repair" /\ to = "completed" THEN 1 ELSE proofs
    /\ Outdate
    /\ late' = late \cup Outdated
    /\ mishaps' = mishaps + 1
    /\ UNCHANGED <<page, role, row, stale, shown, form, choice, dialog, req, surprise, unsaved,
                   sent>>

\* The select's onChange.  Its own status can be chosen when it shows another one.
Choose ==
    \E to \in Offered(page, Displayed) \cup
              (IF choice # "none" \/ (page = "deployment" /\ dialog # "none")
               THEN {Displayed} ELSE {}) :
        /\ Offered(page, Displayed) # {} /\ to # choice /\ to # dialog
        /\ page = "deployment" \/ (Idle /\ dialog = "none")
        /\ sent < MaxRequests
        /\ IF to \in Screen.confirmed
           THEN dialog' = to /\ UNCHANGED req
           ELSE Send(to) /\ UNCHANGED dialog
        /\ sent' = IF to \in Screen.confirmed THEN sent ELSE sent + 1
        /\ choice' = IF Screen.keeps /\ to # "approved" /\ to # Displayed THEN to
                     ELSE IF to = Displayed THEN "none" ELSE choice
        /\ unsaved' = IF to = "approved" THEN unsaved ELSE "none"
        /\ surprise' = <<>>
        /\ UNCHANGED <<page, role, status, proofs, row, stale, fetch, shown, form, late, mishaps>>

\* The dialog's button, disabled while its mutation is on its way.
Confirm ==
    /\ Idle /\ dialog # "none" /\ sent < MaxRequests
    /\ Send(dialog)
    /\ sent' = sent + 1
    /\ surprise' = <<>>
    /\ UNCHANGED <<page, role, status, proofs, row, stale, fetch, shown, form, choice, dialog,
                   late, unsaved, mishaps>>

\* Mutant: closeDcModal without setSelectResetTick.
DismissNoTick ==
    /\ dialog # "none"
    /\ unsaved' = IF choice = dialog THEN "dismissed" ELSE unsaved
    /\ dialog' = "none"
    /\ UNCHANGED <<page, role, status, proofs, row, stale, fetch, shown, form, choice, req, late,
                   surprise, mishaps, sent>>

\* Its Cancel.  Only repair's document dialog makes the select anew.
Dismiss ==
    /\ dialog # "none"
    /\ choice' = IF page = "repair" /\ dialog = "completed" THEN "none" ELSE choice
    /\ unsaved' = IF choice = dialog THEN "dismissed" ELSE unsaved
    /\ dialog' = "none"
    /\ UNCHANGED <<page, role, status, proofs, row, stale, fetch, shown, form, req, late,
                   surprise, mishaps, sent>>

\* "Upload & complete": the document first, the change when it is there.
ServeUpload ==
    /\ req.phase = "upload"
    /\ IF role = "reader"
       THEN req' = [req EXCEPT !.phase = "refused"] /\ UNCHANGED proofs
       ELSE /\ req' = [req EXCEPT !.phase = "sent"]
            /\ proofs' = IF proofs < 2 THEN proofs + 1 ELSE proofs
    /\ UNCHANGED <<page, role, status, row, stale, fetch, shown, form, choice, dialog, late,
                   surprise, unsaved, mishaps, sent>>

Serve ==
    /\ req.phase = "sent"
    /\ IF Accepted(req.to)
       THEN /\ status' = req.to
            /\ req' = [req EXCEPT !.phase = "ok"]
            /\ Outdate
            /\ UNCHANGED surprise
       ELSE /\ req' = [req EXCEPT !.phase = "refused"]
            /\ surprise' = IF /\ req.seen = status /\ Allowed(req.to)
                               /\ req.to \in Offered(page, req.seen) \cup {req.seen}
                            THEN <<req.seen, req.to>> ELSE <<>>
            /\ UNCHANGED <<status, fetch>>
    /\ UNCHANGED <<page, role, proofs, row, stale, shown, form, choice, dialog, late, unsaved,
                   mishaps, sent>>

\* The answer is lost after the change was made: for the page it failed.
LoseAnswer ==
    /\ req.phase = "ok" /\ mishaps < MaxMishaps
    /\ req' = [req EXCEPT !.phase = "refused"]
    /\ Outdate
    /\ late' = late \cup Outdated
    /\ mishaps' = mishaps + 1
    /\ UNCHANGED <<page, role, status, proofs, row, stale, shown, form, choice, dialog, surprise,
                   unsaved, sent>>

\* onSuccess
ReplyOk ==
    /\ req.phase = "ok" /\ req.to # "create"
    /\ Invalidate(StatusKeys)
    /\ late' = late \ StatusKeys
    /\ dialog' = "none" /\ req' = NoReq
    /\ UNCHANGED <<page, role, status, proofs, row, shown, form, choice, surprise, unsaved,
                   mishaps, sent>>

\* onError: the error is shown, or the dialog that would have shown it is gone.
ReplyError ==
    /\ req.phase = "refused" /\ req.to # "create"
    /\ unsaved' = IF choice = req.to THEN "refused" ELSE unsaved
    /\ req' = NoReq
    /\ UNCHANGED <<page, role, status, proofs, row, stale, fetch, shown, form, choice, dialog,
                   late, surprise, mishaps, sent>>

--------------------------------------------------------------------------------
(* The create form.                                                        *)

OpenForm ==
    /\ ~form /\ dialog = "none" /\ sent < MaxRequests
    /\ form' = TRUE
    /\ \/ fetch' = [fetch EXCEPT !["picker"] =
                        IF Fetching("picker") THEN fetch["picker"] ELSE Asked]
       \/ "picker" \in Fetched \ stale /\ UNCHANGED fetch
    /\ UNCHANGED <<page, role, status, proofs, row, stale, shown, choice, dialog, req, late,
                   surprise, unsaved, mishaps, sent>>

Submit ==
    /\ form /\ Idle /\ row["picker"] = "offered"
    /\ status = "none"                                          \* bound: one ticket
    /\ sent < MaxRequests /\ sent' = sent + 1
    /\ req' = [phase |-> "create", to |-> "create", seen |-> "none"]
    /\ UNCHANGED <<page, role, status, proofs, row, stale, fetch, shown, form, choice, dialog,
                   late, surprise, unsaved, mishaps>>

ServeCreate ==
    /\ req.phase = "create"
    /\ IF role = "reader"
       THEN req' = [req EXCEPT !.phase = "refused"] /\ UNCHANGED <<status, fetch>>
       ELSE /\ status' = First
            /\ req' = [req EXCEPT !.phase = "ok"]
            /\ Outdate
    /\ UNCHANGED <<page, role, proofs, row, stale, shown, form, choice, dialog, late, surprise,
                   unsaved, mishaps, sent>>

CreateReply ==
    /\ req.phase \in {"ok", "refused"} /\ req.to = "create"
    /\ IF req.phase = "ok"
       THEN Invalidate(CreateKeys) /\ late' = late \ CreateKeys /\ form' = FALSE
       ELSE UNCHANGED <<stale, fetch, late, form>>
    /\ req' = NoReq
    /\ UNCHANGED <<page, role, status, proofs, row, shown, choice, dialog, surprise, unsaved,
                   mishaps, sent>>

RowNext ==
    \/ SwitchView \/ Refocus \/ FetchServe \/ FetchArrive \/ FetchFail \/ Elsewhere
    \/ Choose \/ Confirm \/ Dismiss
    \/ ServeUpload \/ Serve \/ LoseAnswer \/ ReplyOk \/ ReplyError

FormNext == OpenForm \/ Submit \/ ServeCreate \/ CreateReply

TicketSpec == TicketInit /\ [][RowNext \/ FormNext]_ticketVars

--------------------------------------------------------------------------------
(* A change a page offers for the status the ticket has is one the service accepts from that
   user.  Two kinds of offer are refused: the deployment page offers a pending order the step to
   delivered, and a select that shows an unsaved choice offers the status the ticket has. *)
OfferedIsAccepted ==
    surprise # <<>> => \/ surprise[1] = surprise[2]
                       \/ page = "deployment" /\ surprise = <<"pending", "delivered">>

(* When nothing is on its way, no dialog is open and the row is up to date, a select shows a
   status other than its row's only after the change was refused or, on the resale page, after the
   price dialog was dismissed.
   The repair page makes its select anew when its dialog is dismissed. *)
SelectTellsStatus ==
    (Idle /\ dialog = "none" /\ ~Fetching(shown) /\ choice # "none"
     /\ shown \notin stale \cup late)
       => unsaved = "refused" \/ (unsaved = "dismissed" /\ page = "resale")

(* The list on screen shows the user's own changes as soon as nothing is on its way, whatever
   filter was on when they were made; what it may miss is what others did, an unanswered request,
   and an older answer for a filter that was not on screen when the change was confirmed. *)
ShowsOwnChanges ==
    \A v \in List :
        (Idle /\ ~Fetching(v) /\ v \in Fetched /\ v \notin stale \cup late)
           => row[v] = Answer(v)

(* The create form offers no asset the user's own ticket holds.  The resale and disposal pages do:
   nothing there invalidates the picker. *)
PickerFree ==
    (/\ form /\ Idle /\ row["picker"] = "offered" /\ ~Fetching("picker")
     /\ "picker" \notin stale \cup late)
       => Free \/ page \in {"resale", "disposal"}
================================================================================

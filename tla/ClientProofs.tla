------------------------------ MODULE ClientProofs ------------------------------
(***************************************************************************)
(* Proofs about the parts of the web client, each for any number of        *)
(* assets, names, clients, devices and lines: what a ticket's row offers   *)
(* and shows, what a create form sends, what the billing and receiving     *)
(* pages list, what the pages offer to a role, and how the cached answers  *)
(* catch up with a change.                                                 *)
(***************************************************************************)
EXTENDS TicketPages, CreateForms, Access, ScreenCache, BillingPage, ReceivePage,
        FiniteSetTheorems, SequenceTheorems, WellFoundedInduction, TLAPS

(***************************************************************************)
(* TicketPages: the tables                                                 *)
(***************************************************************************)
Pages == {"repair", "resale", "disposal", "deployment", "retrieval"}

\* Every change, offered or accepted, takes a ticket to a status of a higher rank.
Rank == [none |-> 0, pending |-> 1, listed |-> 1, approved |-> 2, initiated |-> 2, sent |-> 3,
         in_repair |-> 4, in_transit |-> 4, in_progress |-> 4, returned |-> 5, completed |-> 6,
         received |-> 6, delivered |-> 6, sold |-> 6, cancelled |-> 7]

Ranked == DOMAIN Rank

LEMMA RankIsNat == \A s \in Ranked : Rank[s] \in Nat
BY DEF Ranked, Rank

\* An offer leads on from the status it is for, and "approved" is offered where it is confirmed.
LEMMA OffersLeadOn ==
    ASSUME page \in Pages, NEW s, NEW to \in Offered(page, s)
    PROVE  /\ s \in Ranked \ {"none"} /\ to \in Ranked \ {"none", "create", "unknown"}
           /\ Rank[to] > Rank[s]
           /\ to = "approved" => "approved" \in Screen.confirmed
<1> USE DEF Offered, Approves, Offers, Ranked, Rank, Screen
<1>1. CASE page = "repair"
  BY <1>1 DEF RepairOffers, RepairPage
<1>2. CASE page = "resale"
  BY <1>2 DEF ResaleOffers
<1>3. CASE page = "disposal"
  BY <1>3 DEF DisposalOffers, DisposalPage
<1>4. CASE page = "deployment"
  BY <1>4 DEF DeploymentOffers
<1>5. CASE page = "retrieval"
  BY <1>5 DEF RetrievalOffers
<1> QED
  BY <1>1, <1>2, <1>3, <1>4, <1>5 DEF Pages

LEMMA AcceptsLeadOn ==
    ASSUME page \in Pages, NEW s \in DOMAIN Accepts[page], NEW to \in Accepts[page][s]
    PROVE  s \in Ranked \ {"none"} /\ to \in Ranked \ {"none"} /\ Rank[to] > Rank[s]
<1> USE DEF Accepts, Ranked, Rank
<1>1. CASE page = "repair"
  BY <1>1 DEF RepairAccepts, RepairOffers
<1>2. CASE page = "resale"
  BY <1>2 DEF ResaleAccepts
<1>3. CASE page = "disposal"
  BY <1>3 DEF DisposalAccepts
<1>4. CASE page = "deployment"
  BY <1>4 DEF DeploymentAccepts
<1>5. CASE page = "retrieval"
  BY <1>5 DEF RetrievalAccepts
<1> QED
  BY <1>1, <1>2, <1>3, <1>4, <1>5 DEF Pages

\* What a page offers for a status, its service takes from that status, but for one step.
LEMMA OffersAreAccepted ==
    ASSUME page \in Pages, NEW s, NEW to \in Offered(page, s)
    PROVE  /\ s \in DOMAIN Accepts[page]
           /\ to \in Accepts[page][s] \/ (page = "deployment" /\ s = "pending" /\ to = "delivered")
<1> USE DEF Offered, Approves, Offers, Accepts
<1>1. CASE page = "repair"
  BY <1>1 DEF RepairAccepts, RepairOffers
<1>2. CASE page = "resale"
  BY <1>2 DEF ResaleAccepts, ResaleOffers
<1>3. CASE page = "disposal"
  BY <1>3 DEF DisposalAccepts, DisposalOffers
<1>4. CASE page = "deployment"
  BY <1>4 DEF DeploymentAccepts, DeploymentOffers
<1>5. CASE page = "retrieval"
  BY <1>5 DEF RetrievalAccepts, RetrievalOffers
<1> QED
  BY <1>1, <1>2, <1>3, <1>4, <1>5 DEF Pages

\* Where a create asks for the assets again, an asset that is free stays so while its ticket goes on.
LEMMA FreeStaysFree ==
    ASSUME page \in Pages \ {"resale", "disposal"}, NEW s \in DOMAIN Accepts[page] \ Screen.holding,
           NEW to \in Accepts[page][s]
    PROVE  to \notin Screen.holding
<1> USE DEF Accepts, Screen
<1>1. CASE page = "repair"
  BY <1>1 DEF RepairAccepts, RepairOffers, RepairPage
<1>4. CASE page = "deployment"
  BY <1>4 DEF DeploymentAccepts, DeploymentPage
<1>5. CASE page = "retrieval"
  BY <1>5 DEF RetrievalAccepts, RetrievalPage
<1> QED
  BY <1>1, <1>4, <1>5 DEF Pages

LEMMA ScreenTable ==
    ASSUME page \in Pages
    PROVE  /\ Screen.first \in Ranked \ {"none"}
           /\ Screen.keeps <=> page \in {"repair", "resale", "retrieval"}
           /\ Screen.refills <=> page \notin {"resale", "disposal"}
           /\ Screen.confirmed \subseteq Ranked \ {"none"}
           /\ Screen.keeps /\ Screen.confirmed \ {"approved"} # {} =>
                \/ page = "repair" /\ Screen.confirmed \ {"approved"} = {"completed"}
                \/ page = "resale"
<1> USE DEF Screen, Ranked, Rank
<1>1. CASE page = "repair"
  BY <1>1 DEF RepairPage
<1>2. CASE page = "resale"
  BY <1>2 DEF ResalePage
<1>3. CASE page = "disposal"
  BY <1>3 DEF DisposalPage
<1>4. CASE page = "deployment"
  BY <1>4 DEF DeploymentPage
<1>5. CASE page = "retrieval"
  BY <1>5 DEF RetrievalPage
<1> QED
  BY <1>1, <1>2, <1>3, <1>4, <1>5 DEF Pages

(***************************************************************************)
(* TicketPages: the inductive invariant                                    *)
(***************************************************************************)
Answers == Ranked \cup {"offered"}

Fetches == {NotAsked, Asked} \cup [at : {"answered"}, row : Answers, late : BOOLEAN]

TicketTyped ==
    /\ page \in Pages
    /\ status \in Ranked
    /\ proofs \in 0..2
    /\ row \in [View -> Answers \cup {"unknown"}]
    /\ fetch \in [View -> Fetches]
    /\ shown \in List
    /\ choice \in Ranked
    /\ dialog \in Screen.confirmed \cup {"none"}
    /\ req # NoReq =>
         /\ req = [phase |-> req.phase, to |-> req.to, seen |-> req.seen]
         /\ req.phase \in {"upload", "sent", "ok", "refused", "create"}
         /\ req.to \in (Ranked \ {"none"}) \cup {"create"}

\* A document is there before repair is told so; and what was saved is saved.
RequestsInOrder ==
    /\ req.phase = "create" => req.to = "create" /\ status = "none"
    /\ req.phase \in {"upload", "sent"} => req.to # "create"
    /\ req.phase = "sent" /\ page = "repair" /\ req.to = "completed" => proofs > 0
    /\ req.phase = "ok" /\ req.to # "create" => Rank[status] >= Rank[req.to]

\* An answer that is not late says what is so, on its way and in the cache; between a
\* change and its reply the lists may be behind.
AnswersTrue ==
    \A v \in View : fetch[v].at = "answered" /\ ~fetch[v].late => fetch[v].row = Answer(v)

RowsTrue ==
    \A v \in List : v \in Fetched /\ v \notin stale \cup late /\ req.phase # "ok" => row[v] = Answer(v)

\* The picker is behind between a create and its reply only.
PickerTrue ==
    (/\ page \notin {"resale", "disposal"}
     /\ row["picker"] = "offered" /\ "picker" \notin stale \cup late
     /\ ~ (req.phase = "ok" /\ req.to = "create"))
       => Free

\* The list on screen is there, or asked for, or stale.
ShownIsFetched == shown \notin Fetched => Fetching(shown) \/ shown \in stale

\* A dialog's request is the change it asks for.
DialogIsSent ==
    page # "deployment" /\ req # NoReq /\ req.to # "create" /\ dialog # "none" => req.to = dialog

\* The select shows an option of its row.
ChoiceIsOption == shown \in Fetched /\ choice # "none" => choice \in Offered(page, row[shown])

\* Why it shows what its row does not say: a dialog waits, a
\* request is on its way, it was not saved, or the ticket is there or beyond.
Explained ==
    \/ dialog = choice
    \/ req # NoReq /\ req.to = choice
    \/ unsaved = "refused" \/ (unsaved = "dismissed" /\ page = "resale")
    \/ Rank[status] >= Rank[choice]

ChoiceExplained == choice # "none" => Screen.keeps /\ choice # "approved" /\ Explained

TicketIInv ==
    /\ TicketTyped
    /\ RequestsInOrder
    /\ OfferedIsAccepted
    /\ AnswersTrue
    /\ RowsTrue
    /\ PickerTrue
    /\ ShownIsFetched
    /\ DialogIsSent
    /\ ChoiceIsOption
    /\ ChoiceExplained

--------------------------------------------------------------------------------
LEMMA AcceptsRanked == ASSUME page \in Pages PROVE DOMAIN Accepts[page] \subseteq Ranked
<1> USE DEF Accepts, Ranked, Rank
<1>1. CASE page = "repair"
  BY <1>1 DEF RepairAccepts, RepairOffers
<1>2. CASE page = "resale"
  BY <1>2 DEF ResaleAccepts
<1>3. CASE page = "disposal"
  BY <1>3 DEF DisposalAccepts
<1>4. CASE page = "deployment"
  BY <1>4 DEF DeploymentAccepts
<1>5. CASE page = "retrieval"
  BY <1>5 DEF RetrievalAccepts
<1> QED
  BY <1>1, <1>2, <1>3, <1>4, <1>5 DEF Pages

LEMMA RankedNames == /\ "none" \in Ranked /\ "unknown" \notin Ranked /\ "offered" \notin Ranked
                     /\ "create" \notin Ranked
BY DEF Ranked, Rank

LEMMA AnswerIsAnswer == ASSUME TicketTyped, NEW v \in View PROVE Answer(v) \in Answers
BY RankedNames DEF TicketTyped, Answer, Answers, View, List

\* A fetch is one thing or another.
LEMMA FetchKinds ==
    /\ NotAsked \in Fetches /\ Asked \in Fetches
    /\ NotAsked.at = "no" /\ Asked.at = "asked" /\ NotAsked # Asked
    /\ \A f \in Fetches : f.at = "answered" =>
         /\ f.row \in Answers /\ f.late \in BOOLEAN
         /\ f = [at |-> "answered", row |-> f.row, late |-> f.late]
         /\ f # NotAsked /\ f # Asked
    /\ \A r \in Answers, l \in BOOLEAN : [at |-> "answered", row |-> r, late |-> l] \in Fetches
BY DEF Fetches, NotAsked, Asked

LEMMA MadeLate ==
    ASSUME NEW f \in Fetches, f.at = "answered"
    PROVE  LET g == [f EXCEPT !.late = TRUE]
           IN g \in Fetches /\ g.at = "answered" /\ g.late
<1>1. f \in [at : {"answered"}, row : Answers, late : BOOLEAN]
  BY FetchKinds DEF Fetches
<1> QED
  BY <1>1 DEF Fetches

\* What an action does to the fetches: those answered are all late now,
LEMMA OutdateFetches ==
    ASSUME TicketTyped, Outdate
    PROVE  /\ fetch' \in [View -> Fetches]
           /\ \A v \in View : /\ fetch'[v].at = "answered" => fetch'[v].late
                              /\ fetch'[v] # NotAsked <=> fetch[v] # NotAsked
<1> SUFFICES ASSUME NEW v \in View
             PROVE  /\ fetch'[v] \in Fetches
                    /\ fetch'[v].at = "answered" => fetch'[v].late
                    /\ fetch'[v] # NotAsked <=> fetch[v] # NotAsked
  BY DEF Outdate
<1>0. fetch[v] \in Fetches
  BY DEF TicketTyped
<1>1. CASE fetch[v].at = "answered"
  <2>1. fetch'[v] = [fetch[v] EXCEPT !.late = TRUE]
    BY <1>1 DEF Outdate
  <2> QED
    BY <1>0, <1>1, <2>1, FetchKinds, MadeLate
<1>2. CASE fetch[v].at # "answered"
  BY <1>0, <1>2 DEF Outdate
<1> QED
  BY <1>1, <1>2

\* and an invalidation asks again for what is on screen.
LEMMA InvalidateFetches ==
    ASSUME TicketTyped, NEW keys, Invalidate(keys)
    PROVE  /\ fetch' \in [View -> Fetches]
           /\ \A v \in View : fetch'[v] = fetch[v] \/ fetch'[v] = Asked
           /\ stale' = stale \cup keys
BY FetchKinds DEF Invalidate, TicketTyped

\* One view is asked for, answered, or given up.
LEMMA OneFetch ==
    ASSUME TicketTyped, NEW v \in View, NEW f \in Fetches, fetch' = [fetch EXCEPT ![v] = f]
    PROVE  /\ fetch' \in [View -> Fetches] /\ fetch'[v] = f
           /\ \A w \in View : w # v => fetch'[w] = fetch[w]
BY DEF TicketTyped

LEMMA ScreenStays == ASSUME UNCHANGED page PROVE Screen' = Screen /\ First' = First
BY DEF Screen, First

LEMMA PageStays ==
    ASSUME [RowNext \/ FormNext]_ticketVars PROVE UNCHANGED <<page, role>>
BY DEF RowNext, FormNext, ticketVars, SwitchView, Refocus, FetchServe, FetchArrive, FetchFail,
       Elsewhere, Choose, Confirm, Dismiss, ServeUpload, Serve, LoseAnswer, ReplyOk, ReplyError,
       OpenForm, Submit, ServeCreate, CreateReply

LEMMA RequestMoves ==
    ASSUME TicketTyped, req # NoReq, NEW p \in {"upload", "sent", "ok", "refused", "create"},
           req' = [req EXCEPT !.phase = p]
    PROVE  /\ req' = [phase |-> p, to |-> req.to, seen |-> req.seen] /\ req' # NoReq
           /\ req'.phase = p /\ req'.to = req.to /\ req'.seen = req.seen
           /\ req' = [phase |-> req'.phase, to |-> req'.to, seen |-> req'.seen]
<1>1. req = [phase |-> req.phase, to |-> req.to, seen |-> req.seen]
  BY DEF TicketTyped
<1>2. req' = [phase |-> p, to |-> req.to, seen |-> req.seen]
  BY <1>1
<1> QED
  BY <1>2 DEF NoReq

LEMMA NoRequest == NoReq.phase = "no" /\ (req.phase # "no" => req # NoReq)
BY DEF NoReq

LEMMA Sends ==
    ASSUME NEW to, Send(to)
    PROVE  /\ req' # NoReq /\ req' = [phase |-> req'.phase, to |-> req'.to, seen |-> req'.seen]
           /\ req'.phase = (IF page = "repair" /\ to = "completed" THEN "upload" ELSE "sent")
           /\ req'.to = to
BY DEF Send, NoReq

--------------------------------------------------------------------------------
LEMMA TicketTypedKept ==
    ASSUME TicketTyped, RequestsInOrder, [RowNext \/ FormNext]_ticketVars
    PROVE  TicketTyped'
<1>P. UNCHANGED <<page, role>>
  BY PageStays
<1>S. Screen' = Screen /\ First' = First
  BY <1>P, ScreenStays
<1>T. /\ page \in Pages /\ status \in Ranked /\ proofs \in 0..2
      /\ row \in [View -> Answers \cup {"unknown"}] /\ fetch \in [View -> Fetches]
      /\ shown \in List /\ choice \in Ranked /\ dialog \in Screen.confirmed \cup {"none"}
      /\ List \subseteq View /\ "none" \in Ranked
  BY RankedNames DEF TicketTyped, List, View
<1>R. req # NoReq =>
        /\ req = [phase |-> req.phase, to |-> req.to, seen |-> req.seen]
        /\ req.phase \in {"upload", "sent", "ok", "refused", "create"}
        /\ req.to \in (Ranked \ {"none"}) \cup {"create"}
  BY DEF TicketTyped
<1>0. CASE UNCHANGED ticketVars
  BY <1>0, <1>T, <1>R, <1>S DEF ticketVars, TicketTyped
<1>1. CASE SwitchView
  <2>1. PICK v \in List \ {shown} : /\ shown' = v
                                    /\ \/ fetch' = [fetch EXCEPT ![v] = IF Fetching(v) THEN fetch[v] ELSE Asked]
                                       \/ UNCHANGED fetch
    BY <1>1 DEF SwitchView
  <2>2. fetch' \in [View -> Fetches]
    <3>1. (IF Fetching(v) THEN fetch[v] ELSE Asked) \in Fetches /\ v \in View
      BY <1>T, FetchKinds
    <3> QED
      BY <1>T, <2>1, <3>1, OneFetch
  <2>3. choice' \in Ranked
    BY <1>1, <1>T DEF SwitchView, Redrawn
  <2>4. UNCHANGED <<status, proofs, row, dialog, req>>
    BY <1>1 DEF SwitchView
  <2> QED
    BY <1>P, <1>S, <1>T, <1>R, <2>1, <2>2, <2>3, <2>4 DEF TicketTyped
<1>2. CASE Refocus \/ FetchServe \/ FetchFail
  <2>1. \E v \in View, f \in Fetches : fetch' = [fetch EXCEPT ![v] = f]
    <3>1. CASE Refocus
      BY <1>T, <3>1, FetchKinds DEF Refocus
    <3>2. CASE FetchServe
      <4>1. PICK v \in View :
               fetch' = [fetch EXCEPT ![v] = [at |-> "answered", row |-> Answer(v), late |-> FALSE]]
        BY <3>2 DEF FetchServe
      <4>2. [at |-> "answered", row |-> Answer(v), late |-> FALSE] \in Fetches
        BY AnswerIsAnswer, FetchKinds
      <4> QED
        BY <4>1, <4>2
    <3>3. CASE FetchFail
      BY <3>3, FetchKinds DEF FetchFail
    <3> QED
      BY <1>2, <3>1, <3>2, <3>3
  <2>2. fetch' \in [View -> Fetches]
    BY <2>1, OneFetch
  <2>3. UNCHANGED <<status, proofs, row, shown, choice, dialog, req>>
    BY <1>2 DEF Refocus, FetchServe, FetchFail
  <2> QED
    BY <1>P, <1>S, <1>T, <1>R, <2>2, <2>3 DEF TicketTyped
<1>3. CASE FetchArrive
  <2>1. PICK v \in View : /\ fetch[v].at = "answered"
                          /\ row' = [row EXCEPT ![v] = fetch[v].row]
                          /\ fetch' = [fetch EXCEPT ![v] = NotAsked]
    BY <1>3 DEF FetchArrive
  <2>2. row' \in [View -> Answers \cup {"unknown"}]
    BY <1>T, <2>1, FetchKinds
  <2>3. fetch' \in [View -> Fetches]
    BY <2>1, OneFetch, FetchKinds
  <2>4. choice' \in Ranked
    BY <1>3, <1>T DEF FetchArrive, Redrawn
  <2>5. UNCHANGED <<status, proofs, shown, dialog, req>>
    BY <1>3 DEF FetchArrive
  <2> QED
    BY <1>P, <1>S, <1>T, <1>R, <2>2, <2>3, <2>4, <2>5 DEF TicketTyped
<1>4. CASE Elsewhere
  <2>1. status' \in Ranked
    BY <1>4, <1>T, AcceptsLeadOn DEF Elsewhere
  <2>2. proofs' \in 0..2
    BY <1>4, <1>T DEF Elsewhere
  <2>3. fetch' \in [View -> Fetches]
    BY <1>4, OutdateFetches DEF Elsewhere
  <2>4. UNCHANGED <<row, shown, choice, dialog, req>>
    BY <1>4 DEF Elsewhere
  <2> QED
    BY <1>P, <1>S, <1>T, <1>R, <2>1, <2>2, <2>3, <2>4 DEF TicketTyped
<1>5. CASE Choose
  <2>1. PICK to : /\ to \in Offered(page, Displayed) \cup {Displayed} /\ Offered(page, Displayed) # {}
                  /\ IF to \in Screen.confirmed THEN dialog' = to /\ UNCHANGED req
                                                ELSE Send(to) /\ UNCHANGED dialog
                  /\ choice' = IF Screen.keeps /\ to # "approved" /\ to # Displayed THEN to
                               ELSE IF to = Displayed THEN "none" ELSE choice
    BY <1>5 DEF Choose
  <2>2. to \in Ranked \ {"none"}
    BY <1>T, <2>1, OffersLeadOn
  <2>3. choice' \in Ranked
    BY <1>T, <2>1, <2>2
  <2>4. dialog' \in Screen.confirmed \cup {"none"}
    BY <1>T, <2>1
  <2>5. req' # NoReq =>
          /\ req' = [phase |-> req'.phase, to |-> req'.to, seen |-> req'.seen]
          /\ req'.phase \in {"upload", "sent", "ok", "refused", "create"}
          /\ req'.to \in (Ranked \ {"none"}) \cup {"create"}
    <3>1. CASE to \in Screen.confirmed
      BY <1>R, <2>1, <3>1
    <3>2. CASE to \notin Screen.confirmed
      BY <2>1, <2>2, <3>2, Sends
    <3> QED
      BY <3>1, <3>2
  <2>6. UNCHANGED <<status, proofs, row, fetch, shown>>
    BY <1>5 DEF Choose
  <2> QED
    BY <1>P, <1>S, <1>T, <2>3, <2>4, <2>5, <2>6 DEF TicketTyped
<1>6. CASE Confirm
  <2>1. dialog # "none" /\ Send(dialog) /\ UNCHANGED <<status, proofs, row, fetch, shown, choice, dialog>>
    BY <1>6 DEF Confirm
  <2>2. dialog \in Ranked \ {"none"}
    BY <1>T, <2>1, ScreenTable
  <2>3. /\ req' = [phase |-> req'.phase, to |-> req'.to, seen |-> req'.seen]
        /\ req'.phase \in {"upload", "sent", "ok", "refused", "create"}
        /\ req'.to \in (Ranked \ {"none"}) \cup {"create"}
    BY <2>1, <2>2, Sends
  <2> QED
    BY <1>P, <1>S, <1>T, <2>1, <2>3 DEF TicketTyped
<1>7. CASE Dismiss
  <2>1. choice' \in Ranked /\ dialog' = "none" /\ UNCHANGED <<status, proofs, row, fetch, shown, req>>
    BY <1>7, <1>T DEF Dismiss
  <2> QED
    BY <1>P, <1>S, <1>T, <1>R, <2>1 DEF TicketTyped
<1>8. CASE ServeUpload \/ Serve \/ LoseAnswer \/ ServeCreate
  <2>1. req # NoReq
    BY <1>8, NoRequest DEF ServeUpload, Serve, LoseAnswer, ServeCreate
  <2>2. \E p \in {"sent", "ok", "refused"} : req' = [req EXCEPT !.phase = p]
    BY <1>8 DEF ServeUpload, Serve, LoseAnswer, ServeCreate
  <2>3. /\ req' = [phase |-> req'.phase, to |-> req'.to, seen |-> req'.seen]
        /\ req'.phase \in {"upload", "sent", "ok", "refused", "create"}
        /\ req'.to \in (Ranked \ {"none"}) \cup {"create"}
    BY <1>R, <2>1, <2>2, RequestMoves
  <2>4. proofs' \in 0..2
    BY <1>8, <1>T DEF ServeUpload, Serve, LoseAnswer, ServeCreate
  <2>5. status' \in Ranked
    <3>1. CASE Serve
      <4>1. status' = status \/ (Accepted(req.to) /\ status' = req.to)
        BY <3>1 DEF Serve
      <4>2. Accepted(req.to) => req.to \in Ranked
        BY <1>T, AcceptsLeadOn DEF Accepted
      <4> QED
        BY <1>T, <4>1, <4>2
    <3>2. CASE ServeCreate
      BY <1>T, <3>2, ScreenTable DEF ServeCreate, First
    <3>3. CASE ServeUpload \/ LoseAnswer
      BY <1>T, <3>3 DEF ServeUpload, LoseAnswer
    <3> QED
      BY <1>8, <3>1, <3>2, <3>3
  <2>6. fetch' \in [View -> Fetches]
    <3>1. UNCHANGED fetch \/ Outdate
      BY <1>8 DEF ServeUpload, Serve, LoseAnswer, ServeCreate
    <3> QED
      BY <1>T, <3>1, OutdateFetches
  <2>7. UNCHANGED <<row, shown, choice, dialog>>
    BY <1>8 DEF ServeUpload, Serve, LoseAnswer, ServeCreate
  <2> QED
    BY <1>P, <1>S, <1>T, <2>3, <2>4, <2>5, <2>6, <2>7 DEF TicketTyped
<1>9. CASE ReplyOk \/ ReplyError \/ CreateReply
  <2>1. req' = NoReq
    BY <1>9 DEF ReplyOk, ReplyError, CreateReply
  <2>2. fetch' \in [View -> Fetches]
    <3>1. UNCHANGED fetch \/ Invalidate(StatusKeys) \/ Invalidate(CreateKeys)
      BY <1>9 DEF ReplyOk, ReplyError, CreateReply
    <3> QED
      BY <1>T, <3>1, InvalidateFetches
  <2>3. UNCHANGED <<status, proofs, row, shown, choice>> /\ (dialog' = dialog \/ dialog' = "none")
    BY <1>9 DEF ReplyOk, ReplyError, CreateReply
  <2> QED
    BY <1>P, <1>S, <1>T, <2>1, <2>2, <2>3 DEF TicketTyped
<1>10. CASE OpenForm
  <2>1. fetch' \in [View -> Fetches]
    <3>1. (IF Fetching("picker") THEN fetch["picker"] ELSE Asked) \in Fetches /\ "picker" \in View
      BY <1>T, FetchKinds DEF View
    <3> QED
      BY <1>10, <1>T, <3>1, OneFetch DEF OpenForm
  <2>2. UNCHANGED <<status, proofs, row, shown, choice, dialog, req>>
    BY <1>10 DEF OpenForm
  <2> QED
    BY <1>P, <1>S, <1>T, <1>R, <2>1, <2>2 DEF TicketTyped
<1>11. CASE Submit
  <2>1. req' = [phase |-> "create", to |-> "create", seen |-> "none"]
    BY <1>11 DEF Submit
  <2>2. UNCHANGED <<status, proofs, row, fetch, shown, choice, dialog>>
    BY <1>11 DEF Submit
  <2>3. /\ req' = [phase |-> req'.phase, to |-> req'.to, seen |-> req'.seen]
        /\ req'.phase = "create" /\ req'.to = "create"
    BY <2>1
  <2> QED
    BY <1>P, <1>S, <1>T, <2>2, <2>3 DEF TicketTyped
<1> QED
  BY <1>0, <1>1, <1>2, <1>3, <1>4, <1>5, <1>6, <1>7, <1>8, <1>9, <1>10, <1>11 DEF RowNext, FormNext

--------------------------------------------------------------------------------
\* A document is uploaded before repair is told so, and nothing an answer promised is taken back.
LEMMA RequestsInOrderKept ==
    ASSUME TicketTyped, RequestsInOrder, [RowNext \/ FormNext]_ticketVars
    PROVE  RequestsInOrder'
<1>P. UNCHANGED <<page, role>>
  BY PageStays
<1>T. page \in Pages /\ status \in Ranked /\ proofs \in 0..2
      /\ (req # NoReq => req.to \in (Ranked \ {"none"}) \cup {"create"})
  BY DEF TicketTyped
<1>N. NoReq.phase \notin {"create", "upload", "sent", "ok"}
  BY NoRequest
<1>0. CASE UNCHANGED <<status, req>> /\ (proofs > 0 => proofs' > 0)
  BY <1>0, <1>P, <1>T DEF RequestsInOrder
<1>1. CASE req' = NoReq
  BY <1>1, <1>N DEF RequestsInOrder
<1>4. CASE Elsewhere
  <2>1. PICK to \in Accepts[page][status] : /\ status' = to /\ (proofs' = 1 \/ proofs' = proofs)
                                            /\ UNCHANGED req
    BY <1>4 DEF Elsewhere
  <2>2. status # "none" /\ status' \in Ranked /\ Rank[status'] > Rank[status]
    BY <1>4, <1>T, <2>1, AcceptsLeadOn DEF Elsewhere
  <2>3. proofs > 0 => proofs' > 0
    BY <1>T, <2>1
  <2>4. req.phase = "ok" /\ req.to # "create" => Rank[status'] >= Rank[req.to]
    <3>1. SUFFICES ASSUME req.phase = "ok", req.to # "create" PROVE Rank[status'] >= Rank[req.to]
      OBVIOUS
    <3>2. req.to \in Ranked /\ Rank[status] >= Rank[req.to]
      BY <1>T, <3>1, NoRequest DEF RequestsInOrder
    <3> QED
      BY <1>T, <2>2, <3>2, RankIsNat
  <2> QED
    BY <1>P, <2>1, <2>2, <2>3, <2>4 DEF RequestsInOrder
<1>5. CASE Choose \/ Confirm
  <2>1. UNCHANGED req \/ \E to \in Ranked \ {"none"} : Send(to)
    <3>1. CASE Choose
      BY <1>T, <3>1, OffersLeadOn DEF Choose
    <3>2. CASE Confirm
      BY <3>2, ScreenTable DEF Confirm, TicketTyped
    <3> QED
      BY <1>5, <3>1, <3>2
  <2>2. UNCHANGED <<status, proofs>>
    BY <1>5 DEF Choose, Confirm
  <2>3. CASE UNCHANGED req
    BY <1>0, <1>T, <2>2, <2>3
  <2>4. CASE \E to \in Ranked \ {"none"} : Send(to)
    <3>1. PICK to \in Ranked \ {"none"} : Send(to)
      BY <2>4
    <3>2. /\ req'.phase = (IF page = "repair" /\ to = "completed" THEN "upload" ELSE "sent")
          /\ req'.to = to /\ to # "create"
      BY <3>1, Sends, RankedNames
    <3> QED
      BY <1>P, <3>2 DEF RequestsInOrder
  <2> QED
    BY <2>1, <2>3, <2>4
<1>8. CASE ServeUpload
  <2>1. req # NoReq /\ req.to # "create"
    BY <1>8, NoRequest DEF ServeUpload, RequestsInOrder
  <2>2. \/ req' = [req EXCEPT !.phase = "refused"]
        \/ req' = [req EXCEPT !.phase = "sent"] /\ proofs' > 0
    BY <1>8, <1>T DEF ServeUpload
  <2>3. req'.to = req.to /\ (req'.phase = "refused" \/ (req'.phase = "sent" /\ proofs' > 0))
    BY <2>1, <2>2, RequestMoves
  <2> QED
    BY <2>1, <2>3 DEF RequestsInOrder
<1>9. CASE Serve
  <2>1. req # NoReq /\ req.to # "create"
    BY <1>9, NoRequest DEF Serve, RequestsInOrder
  <2>2. \/ req' = [req EXCEPT !.phase = "refused"]
        \/ req' = [req EXCEPT !.phase = "ok"] /\ status' = req.to
    BY <1>9 DEF Serve
  <2>3. req'.to = req.to /\ (req'.phase = "refused" \/ (req'.phase = "ok" /\ status' = req.to))
    BY <2>1, <2>2, RequestMoves
  <2>4. req.to \in Ranked
    BY <1>T, <2>1
  <2> QED
    BY <2>1, <2>3, <2>4, RankIsNat DEF RequestsInOrder
<1>10. CASE LoseAnswer
  <2>1. req'.phase = "refused"
    BY <1>10, NoRequest, RequestMoves DEF LoseAnswer
  <2> QED
    BY <2>1 DEF RequestsInOrder
<1>11. CASE ServeCreate
  <2>1. req # NoReq /\ req.to = "create"
    BY <1>11, NoRequest DEF ServeCreate, RequestsInOrder
  <2>2. \E p \in {"ok", "refused"} : req' = [req EXCEPT !.phase = p]
    BY <1>11 DEF ServeCreate
  <2>3. req'.to = "create" /\ req'.phase \in {"ok", "refused"}
    BY <2>1, <2>2, RequestMoves
  <2> QED
    BY <2>3 DEF RequestsInOrder
<1>12. CASE Submit
  <2>1. req'.phase = "create" /\ req'.to = "create" /\ status' = "none"
    BY <1>12 DEF Submit
  <2> QED
    BY <2>1 DEF RequestsInOrder
<1>13. CASE ReplyOk \/ ReplyError \/ CreateReply
  BY <1>1, <1>13 DEF ReplyOk, ReplyError, CreateReply
<1>14. CASE \/ UNCHANGED ticketVars
            \/ SwitchView \/ Refocus \/ FetchServe \/ FetchArrive \/ FetchFail \/ Dismiss \/ OpenForm
  <2>1. UNCHANGED <<status, req, proofs>>
    BY <1>14
       DEF ticketVars, SwitchView, Refocus, FetchServe, FetchArrive, FetchFail, Dismiss, OpenForm
  <2> QED
    BY <1>0, <1>T, <2>1
<1> QED
  BY <1>4, <1>5, <1>8, <1>9, <1>10, <1>11, <1>12, <1>13, <1>14 DEF RowNext, FormNext

\* A refusal that surprises is one of the two that are told apart.
LEMMA OfferedIsAcceptedKept ==
    ASSUME TicketTyped, RequestsInOrder, OfferedIsAccepted, [RowNext \/ FormNext]_ticketVars
    PROVE  OfferedIsAccepted'
<1>P. UNCHANGED <<page, role>>
  BY PageStays
<1>1. CASE surprise' = surprise \/ surprise' = <<>>
  BY <1>1, <1>P DEF OfferedIsAccepted
<1>2. CASE Serve /\ surprise' # <<>> /\ surprise' # surprise
  <2>1. /\ req.phase = "sent" /\ ~Accepted(req.to) /\ req.seen = status /\ Allowed(req.to)
        /\ req.to \in Offered(page, req.seen) \cup {req.seen}
        /\ surprise' = <<req.seen, req.to>>
    BY <1>2 DEF Serve
  <2>2. surprise'[1] = req.seen /\ surprise'[2] = req.to
    BY <2>1
  <2>3. CASE req.to = req.seen
    BY <2>2, <2>3 DEF OfferedIsAccepted
  <2>4. CASE req.to \in Offered(page, req.seen)
    <3>1. /\ status \in DOMAIN Accepts[page]
          /\ \/ req.to \in Accepts[page][status]
             \/ page = "deployment" /\ status = "pending" /\ req.to = "delivered"
      BY <2>1, <2>4, OffersAreAccepted DEF TicketTyped
    <3>2. page = "repair" /\ req.to = "completed" => proofs > 0
      BY <2>1 DEF RequestsInOrder
    <3>3. req.to \notin Accepts[page][status]
      BY <2>1, <3>1, <3>2 DEF Accepted
    <3> QED
      BY <1>P, <2>1, <3>1, <3>3 DEF OfferedIsAccepted
  <2> QED
    BY <2>1, <2>3, <2>4
<1>3. surprise' = surprise \/ surprise' = <<>> \/ Serve
  BY DEF RowNext, FormNext, ticketVars, SwitchView, Refocus, FetchServe, FetchArrive, FetchFail,
         Elsewhere, Choose, Confirm, Dismiss, ServeUpload, LoseAnswer, ReplyOk, ReplyError,
         OpenForm, Submit, ServeCreate, CreateReply
<1> QED
  BY <1>1, <1>2, <1>3

--------------------------------------------------------------------------------
\* The deployment page confirms whatever its select offers.
LEMMA DeploymentConfirms ==
    ASSUME page = "deployment", NEW s, Offered(page, s) # {}
    PROVE  Offered(page, s) \cup {s} \subseteq Screen.confirmed
BY DEF Offered, Approves, Offers, DeploymentOffers, Screen, DeploymentPage

\* One request at a time.
LEMMA SendsWhenIdle ==
    ASSUME TicketTyped, Choose \/ Confirm, UNCHANGED page
    PROVE  \/ UNCHANGED req
           \/ Idle /\ req' # NoReq /\ req'.phase \in {"upload", "sent"}
<1>1. CASE Choose /\ ~UNCHANGED req
  <2>1. PICK to : /\ to \in Offered(page, Displayed) \cup {Displayed} /\ Offered(page, Displayed) # {}
                  /\ page = "deployment" \/ Idle
                  /\ to \notin Screen.confirmed /\ Send(to)
    BY <1>1 DEF Choose
  <2>2. Idle
    BY <2>1, DeploymentConfirms
  <2> QED
    BY <2>1, <2>2, Sends
<1>2. CASE Confirm
  BY <1>2, Sends DEF Confirm
<1> QED
  BY <1>1, <1>2

LEMMA AnswersStay ==
    ASSUME UNCHANGED <<page, status>>
    PROVE  Free' = Free /\ \A v : Answer(v)' = Answer(v)
BY ScreenStays DEF Answer, Free

\* What a change does to what is known of the ticket: the answers are late,
LEMMA ChangeOutdates ==
    ASSUME [RowNext \/ FormNext]_ticketVars
    PROVE  UNCHANGED status \/ Outdate
BY DEF RowNext, FormNext, ticketVars, SwitchView, Refocus, FetchServe, FetchArrive, FetchFail,
       Elsewhere, Choose, Confirm, Dismiss, ServeUpload, Serve, LoseAnswer, ReplyOk, ReplyError,
       OpenForm, Submit, ServeCreate, CreateReply

\* and an answer that is not late says what is so.
LEMMA AnswersTrueKept ==
    ASSUME TicketTyped, AnswersTrue, [RowNext \/ FormNext]_ticketVars
    PROVE  AnswersTrue'
<1>P. UNCHANGED <<page, role>>
  BY PageStays
<1>1. CASE Outdate
  BY <1>1, OutdateFetches DEF AnswersTrue
<1>2. CASE UNCHANGED status /\ ~Outdate
  <2>0. \A v \in View : Answer(v)' = Answer(v)
    BY <1>P, <1>2, AnswersStay
  <2>1. ASSUME \A v \in View : \/ fetch'[v].at # "answered" \/ fetch'[v] = fetch[v]
                               \/ fetch'[v].row = Answer(v)
        PROVE  AnswersTrue'
    BY <2>0, <2>1 DEF AnswersTrue
  <2>2. CASE UNCHANGED fetch
    BY <2>1, <2>2
  <2>3. CASE SwitchView \/ Refocus \/ FetchArrive \/ FetchFail \/ OpenForm
    <3>1. fetch' = fetch \/ \E v \in View : \E f \in {NotAsked, Asked, fetch[v]} : fetch' = [fetch EXCEPT ![v] = f]
      BY <2>3 DEF SwitchView, Refocus, FetchArrive, FetchFail, OpenForm, TicketTyped, View
    <3>2. ASSUME NEW v \in View, NEW f \in {NotAsked, Asked, fetch[v]}, fetch' = [fetch EXCEPT ![v] = f]
          PROVE  \A w \in View : fetch'[w].at # "answered" \/ fetch'[w] = fetch[w]
      <4>1. f \in Fetches
        BY FetchKinds DEF TicketTyped
      <4>2. fetch'[v] = f /\ \A w \in View : w # v => fetch'[w] = fetch[w]
        BY <3>2, <4>1, OneFetch
      <4> QED
        BY <4>2, FetchKinds
    <3> QED
      BY <2>1, <2>2, <3>1, <3>2
  <2>4. CASE FetchServe
    <3>1. PICK v \in View :
               fetch' = [fetch EXCEPT ![v] = [at |-> "answered", row |-> Answer(v), late |-> FALSE]]
      BY <2>4 DEF FetchServe
    <3> DEFINE f == [at |-> "answered", row |-> Answer(v), late |-> FALSE]
    <3>2. f \in Fetches /\ f.row = Answer(v)
      BY AnswerIsAnswer, FetchKinds
    <3>3. fetch'[v] = f /\ \A w \in View : w # v => fetch'[w] = fetch[w]
      BY <3>1, <3>2, OneFetch
    <3> QED
      BY <2>1, <3>2, <3>3
  <2>5. CASE ReplyOk \/ CreateReply
    <3>1. fetch' = fetch \/ \E keys : Invalidate(keys)
      BY <2>5 DEF ReplyOk, CreateReply
    <3>2. \A v \in View : fetch'[v] = fetch[v] \/ fetch'[v] = Asked
      BY <3>1, InvalidateFetches
    <3> QED
      BY <2>1, <3>2, FetchKinds
  <2>6. \/ UNCHANGED fetch \/ SwitchView \/ Refocus \/ FetchArrive \/ FetchFail \/ OpenForm
        \/ FetchServe \/ ReplyOk \/ CreateReply
    BY <1>2 DEF RowNext, FormNext, ticketVars, Elsewhere, Choose, Confirm, Dismiss, ServeUpload,
                Serve, LoseAnswer, ReplyError, Submit, ServeCreate
  <2> QED
    BY <2>2, <2>3, <2>4, <2>5, <2>6
<1> QED
  BY <1>1, <1>2, ChangeOutdates

\* An answer comes, and is as good as it was when it was made.
LEMMA RowArrives ==
    ASSUME TicketTyped, AnswersTrue, FetchArrive
    PROVE  \A v \in View : \/ /\ row'[v] = row[v] /\ (v \in stale' \cup late' <=> v \in stale \cup late)
                           \/ row'[v] = Answer(v) \/ v \in late'
<1>1. PICK v \in View : /\ fetch[v].at = "answered"
                        /\ row' = [row EXCEPT ![v] = fetch[v].row]
                        /\ stale' = stale \ {v}
                        /\ late' = IF fetch[v].late THEN late \cup {v} ELSE late \ {v}
  BY DEF FetchArrive
<1>2. fetch[v].late \/ fetch[v].row = Answer(v)
  BY <1>1 DEF AnswersTrue
<1>3. row'[v] = fetch[v].row /\ \A w \in View : w # v => row'[w] = row[w]
  BY <1>1 DEF TicketTyped
<1> QED
  BY <1>1, <1>2, <1>3

\* What makes the rows change, or what is known of them.
LEMMA RowsTrueKept ==
    ASSUME TicketTyped, RequestsInOrder, AnswersTrue, RowsTrue, [RowNext \/ FormNext]_ticketVars
    PROVE  RowsTrue'
<1>P. UNCHANGED <<page, role>>
  BY PageStays
<1>L. List \subseteq View
  BY DEF View
<1>0. ASSUME UNCHANGED <<status, row>>, stale \subseteq stale', late \subseteq late',
             req'.phase = "ok" \/ req.phase # "ok"
      PROVE  RowsTrue'
  <2>1. \A v \in View : Answer(v)' = Answer(v)
    BY <1>0, <1>P, AnswersStay
  <2> QED
    BY <1>0, <1>L, <2>1 DEF RowsTrue, Fetched
<1>1. ASSUME UNCHANGED row, Fetched \subseteq stale' \cup late'
      PROVE  RowsTrue'
  BY <1>1 DEF RowsTrue, Fetched
<1>2. ASSUME List \subseteq stale' PROVE RowsTrue'
  BY <1>2 DEF RowsTrue
<1>3. CASE FetchArrive
  <2>1. UNCHANGED <<status, req>>
    BY <1>3 DEF FetchArrive
  <2>2. \A v \in View : Answer(v)' = Answer(v)
    BY <1>P, <2>1, AnswersStay
  <2>3. SUFFICES ASSUME NEW v \in List, row'[v] # "unknown", v \notin stale' \cup late', req.phase # "ok"
                 PROVE  row'[v] = Answer(v)
    BY <1>L, <2>1, <2>2 DEF RowsTrue, Fetched
  <2>4. \/ row'[v] = Answer(v)
        \/ row'[v] = row[v] /\ v \notin stale \cup late
    BY <1>3, <1>L, <2>3, RowArrives
  <2> QED
    BY <1>L, <2>3, <2>4 DEF RowsTrue, Fetched
<1>4. CASE Elsewhere \/ LoseAnswer
  BY <1>1, <1>4 DEF Elsewhere, LoseAnswer, Outdated
<1>5. CASE Choose \/ Confirm
  <2>1. UNCHANGED <<status, row, stale, late>>
    BY <1>5 DEF Choose, Confirm
  <2>2. UNCHANGED req \/ req.phase # "ok"
    BY <1>5, <1>P, SendsWhenIdle, NoRequest DEF Idle
  <2> QED
    BY <1>0, <2>1, <2>2
<1>6. CASE Serve \/ ServeCreate
  <2>1. req # NoReq /\ req.phase \notin {"ok"} /\ UNCHANGED <<row, stale, late>>
    BY <1>6, NoRequest DEF Serve, ServeCreate
  <2>2. CASE UNCHANGED status
    BY <1>0, <2>1, <2>2
  <2>3. CASE ~UNCHANGED status
    <3>1. req' = [req EXCEPT !.phase = "ok"]
      BY <1>6, <2>3 DEF Serve, ServeCreate
    <3>2. req'.phase = "ok"
      BY <2>1, <3>1, RequestMoves
    <3> QED
      BY <3>2 DEF RowsTrue
  <2> QED
    BY <2>2, <2>3
<1>7. CASE ReplyOk
  BY <1>2, <1>7 DEF ReplyOk, Invalidate, StatusKeys
<1>8. CASE CreateReply
  <2>1. CASE req.phase = "ok"
    BY <1>2, <1>8, <1>L, <2>1 DEF CreateReply, Invalidate, CreateKeys
  <2>2. CASE req.phase # "ok"
    BY <1>0, <1>8, <2>2 DEF CreateReply
  <2> QED
    BY <2>1, <2>2
<1>9. CASE \/ UNCHANGED ticketVars
           \/ SwitchView \/ Refocus \/ FetchServe \/ FetchFail \/ Dismiss \/ OpenForm
  <2>1. UNCHANGED <<status, row, req, late>> /\ stale \subseteq stale'
    BY <1>9 DEF ticketVars, SwitchView, Refocus, FetchServe, FetchFail, Dismiss, OpenForm
  <2> QED
    BY <1>0, <2>1
<1>10. CASE ServeUpload \/ ReplyError \/ Submit
  <2>1. UNCHANGED <<status, row, stale, late>> /\ req.phase # "ok"
    BY <1>10, NoRequest DEF ServeUpload, ReplyError, Submit, Idle
  <2> QED
    BY <1>0, <2>1
<1> QED
  BY <1>3, <1>4, <1>5, <1>6, <1>7, <1>8, <1>9, <1>10 DEF RowNext, FormNext

\* What the form may still offer.
LEMMA PickerTrueKept ==
    ASSUME TicketTyped, RequestsInOrder, AnswersTrue, PickerTrue, [RowNext \/ FormNext]_ticketVars
    PROVE  PickerTrue'
<1>P. UNCHANGED <<page, role>>
  BY PageStays
<1>L. "picker" \in View \ List /\ page \in Pages
  BY DEF View, List, TicketTyped
<1> SUFFICES ASSUME page \notin {"resale", "disposal"}, row'["picker"] = "offered",
                    "picker" \notin stale' \cup late', ~ (req'.phase = "ok" /\ req'.to = "create")
             PROVE  Free'
  BY <1>P DEF PickerTrue
<1>0. ASSUME UNCHANGED <<status, row>>, "picker" \in stale \cup late => "picker" \in stale' \cup late',
             req.phase # "ok" \/ req.to # "create" \/ UNCHANGED req
      PROVE  Free'
  BY <1>0, <1>P, AnswersStay DEF PickerTrue
<1>3. CASE FetchArrive
  <2>1. UNCHANGED <<status, req>>
    BY <1>3 DEF FetchArrive
  <2>2. \/ row["picker"] = "offered" /\ "picker" \notin stale \cup late
        \/ Answer("picker") = "offered"
    BY <1>3, <1>L, RowArrives
  <2>3. Answer("picker") = "offered" => Free
    BY DEF Answer
  <2> QED
    BY <1>P, <2>1, <2>2, <2>3, AnswersStay DEF PickerTrue
<1>4. CASE Elsewhere \/ LoseAnswer
  <2>1. UNCHANGED <<row, stale>> /\ late' = late \cup Outdated
    BY <1>4 DEF Elsewhere, LoseAnswer
  <2>2. "picker" \in Fetched
    BY <1>L, <2>1 DEF Fetched
  <2> QED
    BY <2>1, <2>2 DEF Outdated
<1>5. CASE Choose \/ Confirm
  <2>1. UNCHANGED <<status, row, stale, late>>
    BY <1>5 DEF Choose, Confirm
  <2>2. UNCHANGED req \/ req.phase # "ok"
    BY <1>5, <1>P, SendsWhenIdle, NoRequest DEF Idle
  <2> QED
    BY <1>0, <2>1, <2>2
<1>6. CASE Serve
  <2>1. req.phase = "sent" /\ UNCHANGED <<row, stale, late>>
    BY <1>6 DEF Serve
  <2>2. Free
    BY <2>1 DEF PickerTrue
  <2>3. CASE Accepted(req.to)
    <3>1. /\ status' = req.to /\ status \in DOMAIN Accepts[page] /\ req.to \in Accepts[page][status]
      BY <1>6, <2>3 DEF Serve, Accepted
    <3>2. status' \notin Screen.holding
      BY <1>L, <2>2, <3>1, FreeStaysFree DEF Free
    <3> QED
      BY <1>P, <3>2, ScreenStays DEF Free
  <2>4. CASE ~Accepted(req.to)
    BY <1>0, <1>6, <2>1, <2>4 DEF Serve
  <2> QED
    BY <2>3, <2>4
<1>7. CASE ServeCreate
  <2>1. req # NoReq /\ req.phase = "create" /\ req.to = "create" /\ UNCHANGED <<row, stale, late>>
    BY <1>7, NoRequest DEF ServeCreate, RequestsInOrder
  <2>2. CASE req' = [req EXCEPT !.phase = "ok"]
    BY <2>1, <2>2, RequestMoves
  <2>3. CASE ~(req' = [req EXCEPT !.phase = "ok"])
    BY <1>0, <1>7, <2>1, <2>3 DEF ServeCreate
  <2> QED
    BY <2>2, <2>3
<1>8. CASE ReplyOk
  BY <1>0, <1>8, <1>L DEF ReplyOk, Invalidate, StatusKeys
<1>9. CASE CreateReply
  <2>1. CASE req.phase = "ok"
    <3>1. stale' = stale \cup CreateKeys /\ Screen.refills
      BY <1>9, <1>L, <2>1, ScreenTable DEF CreateReply, Invalidate
    <3> QED
      BY <1>L, <3>1 DEF CreateKeys
  <2>2. CASE req.phase # "ok"
    BY <1>0, <1>9, <2>2 DEF CreateReply
  <2> QED
    BY <2>1, <2>2
<1>10. CASE \/ UNCHANGED ticketVars
            \/ SwitchView \/ Refocus \/ FetchServe \/ FetchFail \/ Dismiss \/ OpenForm
  <2>1. UNCHANGED <<status, row, req, late>> /\ stale \subseteq stale'
    BY <1>10 DEF ticketVars, SwitchView, Refocus, FetchServe, FetchFail, Dismiss, OpenForm
  <2> QED
    BY <1>0, <2>1
<1>11. CASE ServeUpload \/ ReplyError \/ Submit
  <2>1. UNCHANGED <<status, row, stale, late>> /\ req.phase # "ok"
    BY <1>11, NoRequest DEF ServeUpload, ReplyError, Submit, Idle
  <2> QED
    BY <1>0, <2>1
<1> QED
  BY <1>3, <1>4, <1>5, <1>6, <1>7, <1>8, <1>9, <1>10, <1>11 DEF RowNext, FormNext

--------------------------------------------------------------------------------
\* A ticket never goes back.
LEMMA StatusRises ==
    ASSUME TicketTyped, RequestsInOrder, [RowNext \/ FormNext]_ticketVars
    PROVE  Rank[status'] >= Rank[status]
<1>T. page \in Pages /\ status \in Ranked
  BY DEF TicketTyped
<1>1. CASE UNCHANGED status
  BY <1>1, <1>T, RankIsNat
<1>2. CASE status \in DOMAIN Accepts[page] /\ status' \in Accepts[page][status]
  <2>1. status' \in Ranked /\ Rank[status'] > Rank[status]
    BY <1>2, <1>T, AcceptsLeadOn
  <2> QED
    BY <1>T, <2>1, RankIsNat
<1>3. CASE status = "none" /\ status' = First
  <2>1. status' \in Ranked /\ Rank["none"] = 0
    BY <1>3, <1>T, ScreenTable DEF First, Rank
  <2> QED
    BY <1>3, <2>1, RankIsNat
<1>4. CASE Elsewhere
  BY <1>2, <1>4 DEF Elsewhere
<1>5. CASE Serve
  BY <1>1, <1>2, <1>5 DEF Serve, Accepted
<1>6. CASE ServeCreate
  BY <1>1, <1>3, <1>6 DEF ServeCreate, RequestsInOrder
<1>7. UNCHANGED status \/ Elsewhere \/ Serve \/ ServeCreate
  BY DEF RowNext, FormNext, ticketVars, SwitchView, Refocus, FetchServe, FetchArrive, FetchFail,
         Choose, Confirm, Dismiss, ServeUpload, LoseAnswer, ReplyOk, ReplyError, OpenForm, Submit,
         CreateReply
<1> QED
  BY <1>1, <1>4, <1>5, <1>6, <1>7

LEMMA ShownIsFetchedKept ==
    ASSUME TicketTyped, ShownIsFetched, [RowNext \/ FormNext]_ticketVars
    PROVE  ShownIsFetched'
<1>T. shown \in View /\ List \subseteq View
  BY DEF TicketTyped, View
<1>0. ASSUME UNCHANGED <<shown, row>>, stale \subseteq stale', fetch[shown] # NotAsked => fetch'[shown] # NotAsked
      PROVE  ShownIsFetched'
  BY <1>0 DEF ShownIsFetched, Fetched, Fetching
<1>1. CASE SwitchView
  <2>1. PICK v \in List \ {shown} :
           /\ shown' = v /\ UNCHANGED <<row, stale>>
           /\ \/ fetch' = [fetch EXCEPT ![v] = IF Fetching(v) THEN fetch[v] ELSE Asked]
              \/ v \in Fetched \ stale
    BY <1>1 DEF SwitchView
  <2>2. CASE fetch' = [fetch EXCEPT ![v] = IF Fetching(v) THEN fetch[v] ELSE Asked]
    <3>1. fetch'[v] = IF Fetching(v) THEN fetch[v] ELSE Asked
      BY <1>T, <2>2 DEF TicketTyped
    <3> QED
      BY <2>1, <3>1, FetchKinds DEF ShownIsFetched, Fetching
  <2>3. CASE v \in Fetched
    BY <2>1, <2>3 DEF ShownIsFetched, Fetched
  <2> QED
    BY <2>1, <2>2, <2>3
<1>2. CASE FetchArrive
  <2>1. PICK v \in View : /\ fetch[v].at = "answered" /\ stale' = stale \ {v} /\ UNCHANGED shown
                          /\ row' = [row EXCEPT ![v] = fetch[v].row]
                          /\ fetch' = [fetch EXCEPT ![v] = NotAsked]
    BY <1>2 DEF FetchArrive
  <2>2. CASE v = shown
    <3>1. row'[v] = fetch[v].row /\ fetch[v].row \in Answers /\ "unknown" \notin Answers
      BY <2>1, FetchKinds, RankedNames DEF TicketTyped, Answers
    <3> QED
      BY <1>T, <2>1, <2>2, <3>1 DEF ShownIsFetched, Fetched
  <2>3. CASE v # shown
    <3>1. row'[shown] = row[shown] /\ fetch'[shown] = fetch[shown]
      BY <1>T, <2>1, <2>3 DEF TicketTyped
    <3> QED
      BY <2>1, <2>3, <3>1 DEF ShownIsFetched, Fetched, Fetching
  <2> QED
    BY <2>2, <2>3
<1>3. CASE FetchFail
  <2>1. PICK v \in View : /\ fetch' = [fetch EXCEPT ![v] = NotAsked] /\ stale' = stale \cup {v}
                          /\ UNCHANGED <<shown, row>>
    BY <1>3 DEF FetchFail
  <2>2. v # shown => fetch'[shown] = fetch[shown]
    BY <1>T, <2>1 DEF TicketTyped
  <2> QED
    BY <2>1, <2>2 DEF ShownIsFetched, Fetched, Fetching
<1>4. CASE FetchServe \/ Refocus \/ OpenForm
  <2>1. UNCHANGED <<shown, row, stale>>
    BY <1>4 DEF FetchServe, Refocus, OpenForm
  <2>2. \/ UNCHANGED fetch
        \/ \E v \in View, f \in Fetches : f # NotAsked /\ fetch' = [fetch EXCEPT ![v] = f]
    <3>1. CASE FetchServe
      <4>1. PICK v \in View :
               fetch' = [fetch EXCEPT ![v] = [at |-> "answered", row |-> Answer(v), late |-> FALSE]]
        BY <3>1 DEF FetchServe
      <4> DEFINE f == [at |-> "answered", row |-> Answer(v), late |-> FALSE]
      <4>2. f \in Fetches /\ f # NotAsked
        BY AnswerIsAnswer, FetchKinds
      <4> QED
        BY <4>1, <4>2
    <3>2. CASE Refocus
      BY <1>T, <3>2, FetchKinds DEF Refocus
    <3>3. CASE OpenForm
      <4>1. (IF Fetching("picker") THEN fetch["picker"] ELSE Asked) \in Fetches \ {NotAsked} /\ "picker" \in View
        BY FetchKinds DEF View, TicketTyped, Fetching
      <4> QED
        BY <3>3, <4>1 DEF OpenForm
    <3> QED
      BY <1>4, <3>1, <3>2, <3>3
  <2>3. fetch[shown] # NotAsked => fetch'[shown] # NotAsked
    <3>1. ASSUME NEW v \in View, NEW f \in Fetches, f # NotAsked, fetch' = [fetch EXCEPT ![v] = f]
          PROVE  fetch[shown] # NotAsked => fetch'[shown] # NotAsked
      BY <1>T, <3>1, OneFetch
    <3> QED
      BY <2>2, <3>1
  <2> QED
    BY <1>0, <2>1, <2>3
<1>5. CASE ReplyOk \/ CreateReply
  <2>1. UNCHANGED <<shown, row>> /\ ((\E keys : Invalidate(keys)) \/ UNCHANGED <<stale, fetch>>)
    BY <1>5 DEF ReplyOk, CreateReply
  <2>2. ASSUME NEW keys, Invalidate(keys)
        PROVE  stale \subseteq stale' /\ (fetch'[shown] = fetch[shown] \/ fetch'[shown] = Asked)
    BY <1>T, <2>2, InvalidateFetches
  <2> QED
    BY <1>0, <2>1, <2>2, FetchKinds
<1>6. CASE Elsewhere \/ Serve \/ LoseAnswer \/ ServeCreate
  <2>1. UNCHANGED <<shown, row, stale>> /\ (UNCHANGED fetch \/ Outdate)
    BY <1>6 DEF Elsewhere, Serve, LoseAnswer, ServeCreate
  <2> QED
    BY <1>0, <1>T, <2>1, OutdateFetches
<1>7. CASE UNCHANGED ticketVars \/ Choose \/ Confirm \/ Dismiss \/ ServeUpload \/ ReplyError \/ Submit
  BY <1>0, <1>7 DEF ticketVars, Choose, Confirm, Dismiss, ServeUpload, ReplyError, Submit
<1> QED
  BY <1>1, <1>2, <1>3, <1>4, <1>5, <1>6, <1>7 DEF RowNext, FormNext

LEMMA DialogIsSentKept ==
    ASSUME TicketTyped, DialogIsSent, [RowNext \/ FormNext]_ticketVars
    PROVE  DialogIsSent'
<1>P. UNCHANGED <<page, role>>
  BY PageStays
<1>1. CASE Choose
  BY <1>1, <1>P DEF Choose, Idle, DialogIsSent
<1>2. CASE Confirm
  BY <1>2, Sends DEF Confirm, DialogIsSent
<1>3. CASE ServeUpload \/ Serve \/ LoseAnswer \/ ServeCreate
  <2>1. req # NoReq /\ UNCHANGED dialog
    BY <1>3, NoRequest DEF ServeUpload, Serve, LoseAnswer, ServeCreate
  <2>2. \E p \in {"sent", "ok", "refused"} : req' = [req EXCEPT !.phase = p]
    BY <1>3 DEF ServeUpload, Serve, LoseAnswer, ServeCreate
  <2>3. req'.to = req.to
    BY <2>1, <2>2, RequestMoves
  <2> QED
    BY <1>P, <2>1, <2>3 DEF DialogIsSent
<1>4. CASE Submit
  <2>1. req'.to = "create"
    BY <1>4 DEF Submit
  <2> QED
    BY <2>1 DEF DialogIsSent
<1>5. CASE dialog' = "none" \/ req' = NoReq \/ UNCHANGED <<dialog, req>>
  BY <1>5, <1>P, <1>P DEF DialogIsSent, NoReq
<1>6. \/ Choose \/ Confirm \/ ServeUpload \/ Serve \/ LoseAnswer \/ ServeCreate \/ Submit
      \/ dialog' = "none" \/ req' = NoReq \/ UNCHANGED <<dialog, req>>
  BY DEF RowNext, FormNext, ticketVars, SwitchView, Refocus, FetchServe, FetchArrive, FetchFail,
         Elsewhere, Dismiss, ReplyOk, ReplyError, OpenForm, CreateReply
<1> QED
  BY <1>1, <1>2, <1>3, <1>4, <1>5, <1>6

LEMMA ChoiceIsOptionKept ==
    ASSUME TicketTyped, ChoiceIsOption, [RowNext \/ FormNext]_ticketVars
    PROVE  ChoiceIsOption'
<1>P. UNCHANGED <<page, role>>
  BY PageStays
<1>T. shown \in View /\ List \subseteq View
  BY DEF TicketTyped, View
<1>0. SUFFICES ASSUME choice' # "none", shown' \in View, row'[shown'] # "unknown"
               PROVE  choice' \in Offered(page, row'[shown'])
  BY <1>P DEF ChoiceIsOption, Fetched, Offered, Approves
<1>1. CASE SwitchView
  <2>1. PICK v \in List \ {shown} : /\ shown' = v /\ UNCHANGED row
                                    /\ choice' = Redrawn(IF v \in Fetched THEN row[v] ELSE Displayed)
    BY <1>1 DEF SwitchView
  <2>2. choice' = Redrawn(row[v])
    BY <1>0, <2>1 DEF Fetched
  <2> QED
    BY <1>0, <2>1, <2>2 DEF Redrawn
<1>2. CASE FetchArrive
  <2>1. PICK v \in View : /\ row' = [row EXCEPT ![v] = fetch[v].row] /\ UNCHANGED shown
                          /\ choice' = IF v = shown THEN Redrawn(fetch[v].row) ELSE choice
    BY <1>2 DEF FetchArrive
  <2>2. CASE v = shown
    <3>1. row'[shown'] = fetch[v].row /\ choice' = Redrawn(fetch[v].row)
      BY <1>T, <2>1, <2>2 DEF TicketTyped
    <3> QED
      BY <1>0, <3>1 DEF Redrawn
  <2>3. CASE v # shown
    <3>1. row'[shown'] = row[shown] /\ choice' = choice
      BY <1>T, <2>1, <2>3 DEF TicketTyped
    <3> QED
      BY <1>0, <1>T, <2>1, <3>1 DEF ChoiceIsOption, Fetched
  <2> QED
    BY <2>2, <2>3
<1>3. CASE Choose
  <2>1. UNCHANGED <<row, shown>>
    BY <1>3 DEF Choose
  <2>2. Displayed = row[shown]
    BY <1>0, <1>T, <2>1 DEF Displayed, Fetched
  <2>3. choice' = choice \/ choice' \in Offered(page, Displayed)
    BY <1>0, <1>3 DEF Choose
  <2> QED
    BY <1>0, <1>T, <2>1, <2>2, <2>3 DEF ChoiceIsOption, Fetched
<1>4. CASE UNCHANGED <<row, shown>> /\ (choice' = choice \/ choice' = "none")
  BY <1>0, <1>4 DEF ChoiceIsOption, Fetched
<1>5. SwitchView \/ FetchArrive \/ Choose \/ (UNCHANGED <<row, shown>> /\ (choice' = choice \/ choice' = "none"))
  BY
     DEF RowNext, FormNext, ticketVars, Refocus, FetchServe, FetchFail, Elsewhere, Confirm,
         Dismiss,
         ServeUpload, Serve, LoseAnswer, ReplyOk, ReplyError, OpenForm, Submit, ServeCreate, CreateReply
<1> QED
  BY <1>1, <1>2, <1>3, <1>4, <1>5

LEMMA ChoiceExplainedKept ==
    ASSUME TicketTyped, RequestsInOrder, DialogIsSent, ChoiceExplained,
           [RowNext \/ FormNext]_ticketVars
    PROVE  ChoiceExplained'
<1>P. UNCHANGED <<page, role>>
  BY PageStays
<1>S. Screen' = Screen
  BY <1>P, ScreenStays
<1>T. /\ page \in Pages /\ status \in Ranked /\ status' \in Ranked /\ choice \in Ranked
      /\ dialog \in Screen.confirmed \cup {"none"}
      /\ req # NoReq => req.to \in (Ranked \ {"none"}) \cup {"create"}
  BY TicketTypedKept DEF TicketTyped
<1>R. Rank[status'] >= Rank[status]
  BY StatusRises
<1>K. Screen.keeps => page # "deployment"
  BY <1>T, ScreenTable
<1> SUFFICES ASSUME choice' # "none" PROVE ChoiceExplained'
  BY DEF ChoiceExplained
<1>E. \* what carries over
  ASSUME choice' = choice,
         dialog = choice => Explained',
         req # NoReq /\ req.to = choice => Explained',
         unsaved = "refused" \/ (unsaved = "dismissed" /\ page = "resale") => Explained'
  PROVE  ChoiceExplained'
  <2>1. Rank[status] >= Rank[choice] => Rank[status'] >= Rank[choice']
    BY <1>E, <1>R, <1>T, RankIsNat
  <2>2. Explained /\ Screen.keeps /\ choice # "approved"
    BY <1>E DEF ChoiceExplained
  <2>3. Explained'
    BY <1>E, <2>1, <2>2 DEF Explained
  <2> QED
    BY <1>E, <1>S, <2>2, <2>3 DEF ChoiceExplained
<1>0. ASSUME choice' = choice, dialog' = dialog,
             req # NoReq /\ req.to # "create" => req' # NoReq /\ req'.to = req.to, UNCHANGED unsaved
      PROVE  ChoiceExplained'
  <2>1. choice # "create"
    BY <1>T, RankedNames
  <2> QED
    BY <1>0, <1>E, <1>P, <2>1 DEF Explained
<1>1. CASE SwitchView \/ FetchArrive
  <2>1. (choice' = choice \/ choice' = "none") /\ UNCHANGED <<dialog, req, unsaved>>
    BY <1>1 DEF SwitchView, FetchArrive, Redrawn
  <2> QED
    BY <1>0, <2>1
<1>2. CASE Choose
  <2>1. PICK to :
           /\ to # choice /\ (page = "deployment" \/ (Idle /\ dialog = "none"))
           /\ IF to \in Screen.confirmed THEN dialog' = to /\ UNCHANGED req
                                         ELSE Send(to) /\ UNCHANGED dialog
           /\ choice' = IF Screen.keeps /\ to # "approved" /\ to # Displayed THEN to
                        ELSE IF to = Displayed THEN "none" ELSE choice
           /\ unsaved' = IF to = "approved" THEN unsaved ELSE "none"
    BY <1>2 DEF Choose
  <2>2. CASE Screen.keeps /\ to # "approved" /\ to # Displayed
    <3>1. choice' = to /\ (dialog' = to \/ Send(to))
      BY <2>1, <2>2
    <3>2. dialog' = to \/ (req' # NoReq /\ req'.to = to)
      BY <3>1, Sends
    <3> QED
      BY <1>S, <2>2, <3>1, <3>2 DEF ChoiceExplained, Explained
  <2>3. CASE ~(Screen.keeps /\ to # "approved" /\ to # Displayed)
    <3>1. choice' = choice /\ Screen.keeps
      BY <2>1, <2>3 DEF ChoiceExplained
    <3>2. Idle /\ dialog = "none" /\ to = "approved"
      BY <1>K, <2>1, <2>3, <3>1
    <3> QED
      BY <1>E, <1>P, <2>1, <3>1, <3>2 DEF Explained, Idle
  <2> QED
    BY <2>2, <2>3
<1>3. CASE Confirm
  <2>1. Idle /\ UNCHANGED <<choice, dialog, unsaved>>
    BY <1>3 DEF Confirm
  <2> QED
    BY <1>0, <2>1 DEF Idle
<1>4. CASE Dismiss
  <2>1. /\ choice' = choice /\ ~(page = "repair" /\ dialog = "completed") /\ UNCHANGED req
        /\ unsaved' = IF choice = dialog THEN "dismissed" ELSE unsaved
    BY <1>4 DEF Dismiss
  <2>2. choice = dialog => page = "resale"
    <3> SUFFICES ASSUME choice = dialog PROVE page = "resale"
      OBVIOUS
    <3>1. Screen.keeps /\ dialog \in Screen.confirmed \ {"approved"}
      BY <1>T, <2>1 DEF ChoiceExplained
    <3> QED
      BY <1>T, <2>1, <3>1, ScreenTable
  <2> QED
    BY <1>E, <1>P, <2>1, <2>2 DEF Explained
<1>5. CASE ServeUpload \/ Serve \/ LoseAnswer \/ ServeCreate
  <2>1. req # NoReq /\ UNCHANGED <<choice, dialog, unsaved>>
    BY <1>5, NoRequest DEF ServeUpload, Serve, LoseAnswer, ServeCreate
  <2>2. \E p \in {"sent", "ok", "refused"} : req' = [req EXCEPT !.phase = p]
    BY <1>5 DEF ServeUpload, Serve, LoseAnswer, ServeCreate
  <2> QED
    BY <1>0, <2>1, <2>2, RequestMoves
<1>6. CASE ReplyOk
  <2>1. /\ req # NoReq /\ req.phase = "ok" /\ req.to # "create" /\ choice' = choice
        /\ UNCHANGED <<status, unsaved>>
    BY <1>6, NoRequest DEF ReplyOk
  <2>2. Rank[status] >= Rank[req.to]
    BY <2>1 DEF RequestsInOrder
  <2>3. dialog = choice => req.to = choice
    BY <1>K, <2>1 DEF ChoiceExplained, DialogIsSent
  <2> QED
    BY <1>E, <1>P, <2>1, <2>2, <2>3 DEF Explained
<1>7. CASE ReplyError
  <2>1. choice' = choice /\ UNCHANGED dialog /\ unsaved' = IF choice = req.to THEN "refused" ELSE unsaved
    BY <1>7 DEF ReplyError
  <2> QED
    BY <1>E, <1>P, <2>1 DEF Explained
<1>8. CASE CreateReply
  <2>1. req.to = "create" /\ UNCHANGED <<choice, dialog, unsaved>>
    BY <1>8 DEF CreateReply
  <2> QED
    BY <1>0, <2>1
<1>9. CASE Submit
  <2>1. req = NoReq /\ UNCHANGED <<choice, dialog, unsaved>>
    BY <1>9 DEF Submit, Idle
  <2> QED
    BY <1>0, <2>1
<1>10. CASE \/ UNCHANGED ticketVars
            \/ Refocus \/ FetchServe \/ FetchFail \/ Elsewhere \/ OpenForm
  <2>1. UNCHANGED <<choice, dialog, req, unsaved>>
    BY <1>10 DEF ticketVars, Refocus, FetchServe, FetchFail, Elsewhere, OpenForm
  <2> QED
    BY <1>0, <2>1
<1> QED
  BY <1>1, <1>2, <1>3, <1>4, <1>5, <1>6, <1>7, <1>8, <1>9, <1>10 DEF RowNext, FormNext

--------------------------------------------------------------------------------
LEMMA TicketStartsRight == TicketInit => TicketIInv
<1> SUFFICES ASSUME TicketInit PROVE TicketIInv
  OBVIOUS
<1>1. page \in Pages
  BY TicketAssumption DEF TicketInit, Pages
<1>2. status \in Ranked
  BY <1>1, AcceptsRanked, RankedNames DEF TicketInit
<1>3. req = NoReq /\ req.phase = "no" /\ choice = "none" /\ dialog = "none"
  BY NoRequest DEF TicketInit
<1>4. /\ fetch = [v \in View |-> IF v = "all" THEN Asked ELSE NotAsked]
      /\ row = [v \in View |-> "unknown"] /\ shown = "all" /\ "all" \in List /\ List \subseteq View
  BY DEF TicketInit, List, View
<1>5. TicketTyped
  <2>1. fetch \in [View -> Fetches]
    BY <1>4, FetchKinds
  <2>2. proofs \in 0..2 /\ "none" \in Ranked
    BY RankedNames DEF TicketInit
  <2> QED
    BY <1>1, <1>2, <1>3, <1>4, <2>1, <2>2 DEF TicketTyped
<1>6. RequestsInOrder
  BY <1>3 DEF RequestsInOrder
<1>7. OfferedIsAccepted
  BY DEF OfferedIsAccepted, TicketInit
<1>8. AnswersTrue
  BY <1>4, FetchKinds DEF AnswersTrue
<1>9. RowsTrue /\ PickerTrue
  BY <1>4 DEF RowsTrue, PickerTrue, Fetched, View
<1>10. ShownIsFetched
  BY <1>4, FetchKinds DEF ShownIsFetched, Fetching
<1>11. DialogIsSent /\ ChoiceIsOption /\ ChoiceExplained
  BY <1>3 DEF DialogIsSent, ChoiceIsOption, ChoiceExplained
<1> QED
  BY <1>5, <1>6, <1>7, <1>8, <1>9, <1>10, <1>11 DEF TicketIInv

LEMMA TicketInvKept ==
    ASSUME TicketIInv, [RowNext \/ FormNext]_ticketVars
    PROVE  TicketIInv'
BY TicketTypedKept, RequestsInOrderKept, OfferedIsAcceptedKept, AnswersTrueKept, RowsTrueKept,
   PickerTrueKept, ShownIsFetchedKept, DialogIsSentKept, ChoiceIsOptionKept, ChoiceExplainedKept
   DEF TicketIInv

\* The inductive invariant of the list pages, from every page, role and status they can begin with.
THEOREM TicketInvariant == TicketSpec => []TicketIInv
<1>1. TicketInit => TicketIInv
  BY TicketStartsRight
<1>2. TicketIInv /\ [RowNext \/ FormNext]_ticketVars => TicketIInv'
  BY TicketInvKept
<1> QED
  BY <1>1, <1>2, PTL DEF TicketSpec

\* Whatever the user and others do, a change a page offers for the status the ticket has is one
\* its service takes from that user, but for the two that the code offers and refuses.
THEOREM OffersAreTaken == TicketSpec => []OfferedIsAccepted
<1>1. TicketIInv => OfferedIsAccepted
  BY DEF TicketIInv
<1> QED
  BY <1>1, TicketInvariant, PTL

\* A select that is left showing what its row does not say was refused, or dismissed on the
\* resale page: its choice is an option of the row, so it is ahead of the row's status, and the
\* ticket would be as far by now had the change been made.
THEOREM SelectsTellStatus == TicketSpec => []SelectTellsStatus
<1>1. TicketIInv => SelectTellsStatus
  <2> SUFFICES ASSUME TicketIInv, Idle, dialog = "none", ~Fetching(shown), choice # "none",
                      shown \notin stale \cup late
               PROVE  unsaved = "refused" \/ (unsaved = "dismissed" /\ page = "resale")
    BY DEF SelectTellsStatus
  <2>0. page \in Pages /\ status \in Ranked /\ shown \in List /\ choice \in Ranked
    BY DEF TicketIInv, TicketTyped
  <2>1. shown \in Fetched
    BY DEF TicketIInv, ShownIsFetched
  <2>2. row[shown] = Answer(shown)
    BY <2>0, <2>1, NoRequest DEF TicketIInv, RowsTrue, Idle
  <2>3. choice \in Offered(page, row[shown])
    BY <2>1 DEF TicketIInv, ChoiceIsOption
  <2>4. row[shown] \in Ranked \ {"none"} /\ Rank[choice] > Rank[row[shown]]
    BY <2>0, <2>3, OffersLeadOn
  <2>5. row[shown] = status
    BY <2>0, <2>2, <2>4 DEF Answer, List
  <2>6. ~(Rank[status] >= Rank[choice])
    BY <2>0, <2>4, <2>5, RankIsNat
  <2> QED
    BY <2>6 DEF TicketIInv, ChoiceExplained, Explained, Idle
<1> QED
  BY <1>1, TicketInvariant, PTL

\* The lists show the user's own changes as soon as nothing is on its way.
THEOREM OwnChangesAreShown == TicketSpec => []ShowsOwnChanges
<1>1. TicketIInv => ShowsOwnChanges
  BY NoRequest DEF TicketIInv, RowsTrue, ShowsOwnChanges, Idle
<1> QED
  BY <1>1, TicketInvariant, PTL

\* The create form offers no asset the user's own ticket holds, but on the resale and disposal pages.
THEOREM FormOffersFree == TicketSpec => []PickerFree
<1>1. TicketIInv => PickerFree
  BY NoRequest DEF TicketIInv, PickerTrue, PickerFree, Idle
<1> QED
  BY <1>1, TicketInvariant, PTL

(***************************************************************************)
(* CreateForms: the inductive invariant                                    *)
(***************************************************************************)
Person == [client : Client, name : Name \cup {NoText}]

Handler == [no : Nat, step : {"create", "send"}, client : Client, assets : SUBSET Asset,
            name : Name \cup {NoText}, user : Nat]

FormTyped ==
    /\ at \in {"repair", "resale", "disposal", "deployment", "retrieval"}
    /\ client \in Client \cup {NoClient}
    /\ picked \subseteq Asset
    /\ typed \in Name \cup {NoText}
    /\ endUser \in Seq(Person)
    /\ linked \in User \cup {0}
    /\ known \in [Client \cup {NoClient} -> SUBSET User]
    /\ creating \subseteq Person
    /\ submit \subseteq Handler /\ ticket \subseteq Handler
    /\ \A s \in submit \cup ticket : s.user \in User \cup {0}
    /\ pressed \in Nat

\* The assets picked are the chosen client's, and what is being sent was picked so.
PickedFromClient ==
    at # "deployment" => /\ \A a \in picked : Owner[a] = client
                         /\ \A s \in submit : \A a \in s.assets : Owner[a] = s.client

\* The name in the box is the linked end user's, and a handler has found its end user or will.
Named(s) == /\ s.user # 0 => endUser[s.user].name = s.name
            /\ s.user = 0 => s.name = NoText \/ ~Ships

NamesTrue ==
    /\ linked # 0 => endUser[linked].name = typed
    /\ \A s \in submit : s.step = "send" => Named(s)

\* A name that is being created, and was not asked for in haste, is nobody's yet and is being
\* created once.
NameTaken(c, n) == \E u \in User : endUser[u] = [client |-> c, name |-> n]

Creates == {s \in submit : s.step = "create"}

CreatedOnce ==
    /\ \A k \in creating \cup Creates :
          <<k.client, k.name>> \notin hasty => ~NameTaken(k.client, k.name)
    /\ \A k \in creating, s \in Creates :
          k.client = s.client /\ k.name = s.name => <<s.client, s.name>> \in hasty
    /\ \A r, s \in Creates :
          r # s /\ r.client = s.client /\ r.name = s.name => <<s.client, s.name>> \in hasty

FormIInv ==
    /\ FormTyped
    /\ PickedFromClient
    /\ NamesTrue
    /\ NamedUser
    /\ CreatedOnce
    /\ NameOnce

--------------------------------------------------------------------------------
LEMMA OnePageTicks == ASSUME FormTyped, at # "deployment" PROVE ~Form.ticks
<1> USE DEF Form
<1>1. CASE at = "repair" \/ at = "resale" \/ at = "disposal"
  BY <1>1 DEF RepairForm, ResaleForm, DisposalForm
<1>2. CASE at = "retrieval"
  BY <1>2 DEF RetrievalForm
<1> QED
  BY <1>1, <1>2 DEF FormTyped

\* End users are only added, and stay what they are.
LEMMA UserAppended ==
    ASSUME FormTyped, NEW c, NEW n, CreateUser(c, n), [client |-> c, name |-> n] \in Person
    PROVE  /\ endUser' \in Seq(Person)
           /\ User' = User \cup {Len(endUser')} /\ Len(endUser') \in Nat \ {0}
           /\ Len(endUser') \notin User
           /\ \A u \in User : endUser'[u] = endUser[u]
           /\ endUser'[Len(endUser')] = [client |-> c, name |-> n]
<1>1. endUser \in Seq(Person) /\ endUser' = Append(endUser, [client |-> c, name |-> n])
  BY DEF FormTyped, CreateUser
<1>2. /\ endUser' \in Seq(Person) /\ Len(endUser') = Len(endUser) + 1 /\ Len(endUser) \in Nat
      /\ endUser'[Len(endUser) + 1] = [client |-> c, name |-> n]
      /\ \A u \in 1..Len(endUser) : endUser'[u] = endUser[u]
  BY <1>1
<1>3. 1..(Len(endUser) + 1) = (1..Len(endUser)) \cup {Len(endUser) + 1}
  BY <1>2
<1> QED
  BY <1>2, <1>3 DEF User

\* What a creation was for.
LEMMA CreatesOnePerson ==
    ASSUME FormTyped
    PROVE  \A k \in creating \cup submit : [client |-> k.client, name |-> k.name] \in Person
BY DEF FormTyped, Person, Handler

LEMMA UsersStay ==
    ASSUME FormTyped, [CreateFormNext]_formVars
    PROVE  /\ endUser' \in Seq(Person) /\ User \subseteq User'
           /\ \A u \in User : endUser'[u] = endUser[u]
<1>1. CASE UNCHANGED endUser
  BY <1>1 DEF User, FormTyped
<1>2. CASE ListedCreated \/ SubmitCreates
  <2>1. PICK k \in creating \cup submit : CreateUser(k.client, k.name)
    BY <1>2 DEF ListedCreated, SubmitCreates
  <2> QED
    BY <2>1, CreatesOnePerson, UserAppended
<1> QED
  BY <1>1, <1>2
     DEF CreateFormNext, formVars, ChooseClient, PickAssets, ListArrives, TypeName, PickListed,
     CreateListed, ListedFailed, PressSubmit, SubmitGivesUp, TicketAccepted, TicketRefused, CloseForm

\* What a press of the button hands over.
Pressed == [no |-> pressed,
            step |-> IF Ships /\ typed # NoText /\ linked = 0 /\ Matches(client, typed) = {}
                     THEN "create" ELSE "send",
            client |-> client, assets |-> picked, name |-> typed,
            user |-> IF linked # 0 THEN linked
                     ELSE IF Ships /\ typed # NoText /\ Matches(client, typed) # {}
                          THEN CHOOSE u \in Matches(client, typed) : TRUE
                          ELSE 0]

LEMMA MatchesAreUsers ==
    ASSUME FormTyped, NEW n
    PROVE  /\ Matches(client, n) \subseteq User
           /\ Matches(client, n) # {} =>
                LET u == CHOOSE u \in Matches(client, n) : TRUE
                IN u \in User /\ endUser[u].name = n
<1>1. ListedFor(client) \subseteq User
  BY DEF ListedFor, FormTyped
<1>2. Matches(client, n) # {} => (CHOOSE u \in Matches(client, n) : TRUE) \in Matches(client, n)
  OBVIOUS
<1> QED
  BY <1>1, <1>2 DEF Matches

LEMMA PressHandsOver ==
    ASSUME FormTyped, PressSubmit
    PROVE  /\ submit' = submit \cup {Pressed} /\ Pressed \in Handler
           /\ Pressed.user \in User \cup {0}
           /\ Pressed.client = client /\ Pressed.assets = picked /\ Pressed.name = typed
           /\ Pressed.step = "create" =>
                /\ Ships /\ typed # NoText /\ Matches(client, typed) = {} /\ client \in Client
                /\ hasty' = hasty \cup Haste
           /\ Pressed.step = "send" => hasty' = hasty
           /\ client \in Client
           /\ UNCHANGED <<at, client, picked, typed, linked, endUser, known, creating, ticket>>
<1>1. client \in Client /\ pressed \in Nat /\ picked \in SUBSET Asset /\ typed \in Name \cup {NoText}
  BY DEF PressSubmit, Ready, FormTyped
<1>2. Pressed.user \in User \cup {0} /\ Pressed.user \in Nat
  <2>1. Matches(client, typed) # {} => (CHOOSE u \in Matches(client, typed) : TRUE) \in User
    BY MatchesAreUsers
  <2>2. Pressed.user \in {linked, CHOOSE u \in Matches(client, typed) : TRUE, 0}
        /\ (Matches(client, typed) = {} => Pressed.user \in {linked, 0})
    BY DEF Pressed
  <2>3. Pressed.user \in User \cup {0}
    BY <2>1, <2>2 DEF FormTyped
  <2>4. \A u \in User \cup {0} : u \in Nat
    BY DEF User
  <2> QED
    BY <2>3, <2>4
<1>3. /\ Pressed.no = pressed /\ Pressed.step \in {"create", "send"}
      /\ Pressed.client = client /\ Pressed.assets = picked /\ Pressed.name = typed
      /\ Pressed = [no |-> Pressed.no, step |-> Pressed.step, client |-> Pressed.client,
                    assets |-> Pressed.assets, name |-> Pressed.name, user |-> Pressed.user]
      /\ Pressed.step = "create" <=> Ships /\ typed # NoText /\ linked = 0 /\ Matches(client, typed) = {}
  BY DEF Pressed
<1>4. Pressed \in Handler
  BY <1>1, <1>2, <1>3 DEF Handler
<1>5. /\ submit' = submit \cup {Pressed}
      /\ hasty' = IF Ships /\ typed # NoText /\ linked = 0 /\ Matches(client, typed) = {}
                  THEN hasty \cup Haste ELSE hasty
  BY DEF PressSubmit, Pressed
<1>6. UNCHANGED <<at, client, picked, typed, linked, endUser, known, creating, ticket>>
  BY DEF PressSubmit
<1> QED
  BY <1>1, <1>2, <1>3, <1>4, <1>5, <1>6

\* A handler that has its end user now.
LEMMA HandlerGoesOn ==
    ASSUME NEW s \in Handler, NEW n \in Nat
    PROVE  LET r == [s EXCEPT !.step = "send", !.user = n]
           IN /\ r \in Handler /\ r.step = "send" /\ r.user = n
              /\ r.client = s.client /\ r.assets = s.assets /\ r.name = s.name
BY DEF Handler

LEMMA SubmitMovesOn ==
    ASSUME FormTyped, SubmitCreates
    PROVE  \E s \in submit, r \in Handler :
              /\ s.step = "create" /\ r.step = "send" /\ r.user = Len(endUser')
              /\ r.client = s.client /\ r.assets = s.assets /\ r.name = s.name
              /\ CreateUser(s.client, s.name)
              /\ submit' = (submit \ {s}) \cup {r}
<1>1. PICK s \in submit :
         /\ s.step = "create" /\ CreateUser(s.client, s.name)
         /\ submit' = (submit \ {s}) \cup {[s EXCEPT !.step = "send", !.user = Len(endUser')]}
  BY DEF SubmitCreates
<1>2. s \in Handler /\ Len(endUser') \in Nat
  BY <1>1, CreatesOnePerson, UserAppended DEF FormTyped
<1> DEFINE r == [s EXCEPT !.step = "send", !.user = Len(endUser')]
<1>3. /\ r \in Handler /\ r.step = "send" /\ r.user = Len(endUser')
      /\ r.client = s.client /\ r.assets = s.assets /\ r.name = s.name
  BY <1>2, HandlerGoesOn
<1> QED
  BY <1>1, <1>3

LEMMA FormTypedKept ==
    ASSUME FormTyped, [CreateFormNext]_formVars
    PROVE  FormTyped'
<1>T. /\ at \in {"repair", "resale", "disposal", "deployment", "retrieval"}
      /\ client \in Client \cup {NoClient} /\ picked \subseteq Asset /\ typed \in Name \cup {NoText}
      /\ endUser \in Seq(Person) /\ linked \in User \cup {0} /\ known \in [Client \cup {NoClient} -> SUBSET User]
      /\ creating \subseteq Person /\ submit \subseteq Handler /\ ticket \subseteq Handler
      /\ (\A s \in submit \cup ticket : s.user \in User \cup {0})
      /\ pressed \in Nat
  BY DEF FormTyped
<1>U. endUser' \in Seq(Person) /\ User \subseteq User'
  BY UsersStay
<1>A. UNCHANGED at
  BY DEF CreateFormNext, formVars, ChooseClient, PickAssets, ListArrives, TypeName, PickListed,
     CreateListed, ListedCreated, ListedFailed, PressSubmit, SubmitCreates, SubmitGivesUp,
     TicketAccepted, TicketRefused, CloseForm
<1>K. known' \in [Client \cup {NoClient} -> SUBSET User']
  <2>1. CASE ListArrives
    <3>1. known' = [known EXCEPT ![client] = OfClient(client)] /\ UNCHANGED endUser
      BY <2>1 DEF ListArrives
    <3> QED
      BY <1>T, <3>1 DEF OfClient, User
  <2>2. CASE UNCHANGED known
    BY <1>T, <1>U, <2>2
  <2> QED
    BY <2>1, <2>2 DEF CreateFormNext, formVars, ChooseClient, PickAssets, TypeName, PickListed,
       CreateListed, ListedCreated, ListedFailed, PressSubmit, SubmitCreates, SubmitGivesUp,
       TicketAccepted, TicketRefused, CloseForm
<1>P. client' \in Client \cup {NoClient} /\ picked' \subseteq Asset
  <2>1. CASE UNCHANGED <<client, picked>>
    BY <1>T, <2>1
  <2>2. CASE ChooseClient \/ TicketAccepted \/ CloseForm
    BY <1>T, <2>2 DEF ChooseClient, TicketAccepted, CloseForm
  <2>3. CASE PickAssets
    <3>1. Pickable \subseteq Asset
      BY DEF Pickable
    <3>2. client' = client /\ picked' \subseteq picked \cup Pickable
      BY <2>3 DEF PickAssets
    <3> QED
      BY <1>T, <3>1, <3>2
  <2> QED
    BY <2>1, <2>2, <2>3
       DEF CreateFormNext, formVars, ListArrives, TypeName, PickListed, CreateListed,
       ListedCreated, ListedFailed, PressSubmit, SubmitCreates, SubmitGivesUp, TicketRefused
<1>0. ASSUME creating' \subseteq Person, submit' \subseteq Handler, ticket' \subseteq Handler,
             linked' \in User' \cup {0}, typed' \in Name \cup {NoText},
             \A s \in submit' \cup ticket' : s.user \in User' \cup {0}, pressed' \in Nat
      PROVE  FormTyped'
  BY <1>0, <1>T, <1>U, <1>A, <1>K, <1>P DEF FormTyped
<1>1. CASE \/ UNCHANGED formVars
           \/ ChooseClient \/ PickAssets \/ ListArrives \/ TypeName \/ ListedFailed \/ SubmitGivesUp
           \/ TicketAccepted \/ TicketRefused \/ CloseForm
  <2>1. creating' \subseteq creating /\ submit' \subseteq submit /\ UNCHANGED pressed
    BY <1>1
       DEF formVars, ChooseClient, PickAssets, ListArrives, TypeName, ListedFailed, SubmitGivesUp,
            TicketAccepted, TicketRefused, CloseForm
  <2>2. ticket' \subseteq submit \cup ticket
    BY <1>1
       DEF formVars, ChooseClient, PickAssets, ListArrives, TypeName, ListedFailed, SubmitGivesUp,
            TicketAccepted, TicketRefused, CloseForm
  <2>3. linked' \in {linked, 0} /\ typed' \in Name \cup {NoText}
    BY <1>1, <1>T DEF formVars, ChooseClient, PickAssets, ListArrives, TypeName, ListedFailed,
            SubmitGivesUp, TicketAccepted, TicketRefused, CloseForm
  <2> QED
    BY <1>0, <1>T, <1>U, <2>1, <2>2, <2>3
<1>2. CASE PickListed
  <2>1. PICK u \in ListedFor(client) : linked' = u /\ typed' = endUser[u].name
    BY <1>2 DEF PickListed
  <2>2. u \in User
    BY <1>T, <2>1 DEF ListedFor
  <2>3. typed' \in Name \cup {NoText}
    <3>1. endUser[u] \in Person
      BY <1>T, <2>2 DEF User
    <3> QED
      BY <2>1, <3>1 DEF Person
  <2>4. UNCHANGED <<creating, submit, ticket, pressed>>
    BY <1>2 DEF PickListed
  <2> QED
    BY <1>0, <1>T, <1>U, <2>1, <2>2, <2>3, <2>4
<1>3. CASE CreateListed
  <2>1. creating' = {[client |-> client, name |-> typed]} /\ client \in Client
    BY <1>3, <1>T DEF CreateListed
  <2>2. creating' \subseteq Person
    BY <1>T, <2>1 DEF Person
  <2>3. UNCHANGED <<linked, typed, submit, ticket, pressed>>
    BY <1>3 DEF CreateListed
  <2> QED
    BY <1>0, <1>T, <1>U, <2>2, <2>3
<1>4. CASE ListedCreated
  <2>1. PICK k \in creating : /\ CreateUser(k.client, k.name)
                              /\ linked' = Len(endUser') /\ typed' = k.name /\ creating' = {}
    BY <1>4 DEF ListedCreated
  <2>2. linked' \in User' /\ typed' \in Name \cup {NoText}
    BY <1>T, <2>1, CreatesOnePerson, UserAppended DEF Person
  <2>3. UNCHANGED <<submit, ticket, pressed>>
    BY <1>4 DEF ListedCreated
  <2> QED
    BY <1>0, <1>T, <1>U, <2>1, <2>2, <2>3
<1>5. CASE PressSubmit
  <2>1. pressed' = pressed + 1
    BY <1>5 DEF PressSubmit
  <2>2. pressed' \in Nat
    BY <1>T, <2>1
  <2> QED
    BY <1>0, <1>5, <1>T, <1>U, <2>2, PressHandsOver
<1>6. CASE SubmitCreates
  <2>1. PICK s \in submit, r \in Handler :
           /\ r.user = Len(endUser') /\ CreateUser(s.client, s.name)
           /\ submit' = (submit \ {s}) \cup {r}
    BY <1>6, SubmitMovesOn
  <2>2. r.user \in User'
    BY <2>1, CreatesOnePerson, UserAppended
  <2>3. UNCHANGED <<linked, typed, creating, ticket, pressed>>
    BY <1>6 DEF SubmitCreates
  <2> QED
    BY <1>0, <1>T, <1>U, <2>1, <2>2, <2>3
<1> QED
  BY <1>1, <1>2, <1>3, <1>4, <1>5, <1>6 DEF CreateFormNext

--------------------------------------------------------------------------------
LEMMA FormPageStays == ASSUME [CreateFormNext]_formVars PROVE UNCHANGED at
BY DEF CreateFormNext, formVars, ChooseClient, PickAssets, ListArrives, TypeName, PickListed,
   CreateListed, ListedCreated, ListedFailed, PressSubmit, SubmitCreates, SubmitGivesUp,
   TicketAccepted, TicketRefused, CloseForm

\* Choosing a client forgets the asset of another, and a press takes what is there.
LEMMA PickedFromClientKept ==
    ASSUME FormTyped, PickedFromClient, [CreateFormNext]_formVars
    PROVE  PickedFromClient'
<1>A. UNCHANGED at
  BY FormPageStays
<1> SUFFICES ASSUME at # "deployment"
             PROVE  /\ \A a \in picked' : Owner[a] = client'
                    /\ \A s \in submit' : \A a \in s.assets : Owner[a] = s.client
  BY <1>A DEF PickedFromClient
<1>0. /\ \A a \in picked : Owner[a] = client
      /\ \A s \in submit : \A a \in s.assets : Owner[a] = s.client
  BY DEF PickedFromClient
<1>1. CASE submit' \subseteq submit /\ (UNCHANGED <<picked, client>> \/ picked' = {})
  BY <1>0, <1>1
<1>F. ~Form.filter
  BY DEF FormTyped, Form, RepairForm, ResaleForm, DisposalForm, RetrievalForm
<1>2. CASE PickAssets
  <2>1. picked' \subseteq Pickable /\ UNCHANGED <<client, submit>>
    BY <1>2, OnePageTicks DEF PickAssets
  <2>2. \A a \in picked' : Owner[a] = client'
    BY <1>F, <2>1 DEF Pickable
  <2> QED
    BY <1>0, <2>1, <2>2
<1>3. CASE PressSubmit
  <2>1. /\ submit' = submit \cup {Pressed} /\ Pressed.client = client /\ Pressed.assets = picked
        /\ UNCHANGED <<picked, client>>
    BY <1>3, PressHandsOver
  <2> QED
    BY <1>0, <2>1
<1>4. CASE SubmitCreates
  <2>1. PICK s \in submit, r \in Handler :
           r.client = s.client /\ r.assets = s.assets /\ submit' = (submit \ {s}) \cup {r}
    BY <1>4, SubmitMovesOn
  <2>2. \A a \in r.assets : Owner[a] = r.client
    BY <1>0, <2>1
  <2>3. UNCHANGED <<picked, client>>
    BY <1>4 DEF SubmitCreates
  <2> QED
    BY <1>0, <2>1, <2>2, <2>3
<1>5. CASE ChooseClient
  BY <1>1, <1>5, OnePageTicks DEF ChooseClient
<1>6. \/ submit' \subseteq submit /\ (UNCHANGED <<picked, client>> \/ picked' = {})
      \/ PickAssets \/ PressSubmit \/ SubmitCreates \/ ChooseClient
  BY DEF CreateFormNext, formVars, ListArrives, TypeName, PickListed, CreateListed, ListedCreated,
         ListedFailed, SubmitGivesUp, TicketAccepted, TicketRefused, CloseForm
<1> QED
  BY <1>1, <1>2, <1>3, <1>4, <1>5, <1>6

\* The box and the handlers go by the right name.
LEMMA NamesTrueKept ==
    ASSUME FormTyped, NamesTrue, [CreateFormNext]_formVars
    PROVE  NamesTrue'
<1>A. UNCHANGED at /\ Ships' = Ships
  BY FormPageStays DEF Ships, Form
<1>U. User \subseteq User' /\ \A u \in User : endUser'[u] = endUser[u]
  BY UsersStay
<1>T. linked \in User \cup {0} /\ \A s \in submit : s.user \in User \cup {0}
  BY DEF FormTyped
<1>N. \A s \in submit : s.step = "send" => Named(s)'
  BY <1>A, <1>U, <1>T DEF NamesTrue, Named
<1>L. linked # 0 => endUser'[linked].name = typed
  BY <1>U, <1>T DEF NamesTrue
<1>0. ASSUME linked' # 0 => endUser'[linked'].name = typed',
             \A s \in submit' : s.step = "send" => s \in submit \/ Named(s)'
      PROVE  NamesTrue'
  BY <1>0, <1>N DEF NamesTrue
<1>1. CASE submit' \subseteq submit /\ (UNCHANGED <<linked, typed>> \/ linked' = 0)
  BY <1>0, <1>1, <1>L
<1>2. CASE PickListed
  <2>1. PICK u \in ListedFor(client) : linked' = u /\ typed' = endUser[u].name
    BY <1>2 DEF PickListed
  <2>2. u \in User
    BY <2>1 DEF ListedFor, FormTyped
  <2>3. UNCHANGED submit
    BY <1>2 DEF PickListed
  <2> QED
    BY <1>0, <1>U, <2>1, <2>2, <2>3
<1>3. CASE ListedCreated
  <2>1. PICK k \in creating : /\ CreateUser(k.client, k.name)
                              /\ linked' = Len(endUser') /\ typed' = k.name
    BY <1>3 DEF ListedCreated
  <2>2. endUser'[Len(endUser')] = [client |-> k.client, name |-> k.name]
    BY <2>1, CreatesOnePerson, UserAppended
  <2>3. UNCHANGED submit
    BY <1>3 DEF ListedCreated
  <2> QED
    BY <1>0, <2>1, <2>2, <2>3
<1>4. CASE PressSubmit
  <2>1. /\ submit' = submit \cup {Pressed} /\ Pressed.name = typed
        /\ UNCHANGED <<linked, typed, endUser>>
    BY <1>4, PressHandsOver
  <2>2. Pressed.step = "send" => Named(Pressed)
    <3>1. CASE linked # 0
      <4>1. Pressed.user = linked
        BY <3>1 DEF Pressed
      <4> QED
        BY <2>1, <3>1, <4>1 DEF NamesTrue, Named
    <3>2. CASE linked = 0 /\ Ships /\ typed # NoText /\ Matches(client, typed) # {}
      <4> DEFINE u == CHOOSE u \in Matches(client, typed) : TRUE
      <4>1. Pressed.user = u
        BY <3>2 DEF Pressed
      <4>2. u \in User /\ endUser[u].name = typed
        BY <3>2, MatchesAreUsers
      <4>3. 0 \notin User
        BY DEF User
      <4> QED
        BY <2>1, <4>1, <4>2, <4>3 DEF Named
    <3>3. CASE linked = 0 /\ Ships /\ typed # NoText /\ Matches(client, typed) = {}
      BY <3>3 DEF Pressed
    <3>4. CASE linked = 0 /\ (~Ships \/ typed = NoText)
      <4>1. Pressed.user = 0
        BY <3>4 DEF Pressed
      <4> QED
        BY <2>1, <3>4, <4>1 DEF Named
    <3> QED
      BY <3>1, <3>2, <3>3, <3>4
  <2>3. PICK p : p = Pressed
    OBVIOUS
  <2>4. p.step = "send" => Named(p)'
    BY <1>A, <2>1, <2>2, <2>3 DEF Named
  <2>5. submit' = submit \cup {p}
    BY <2>1, <2>3
  <2> QED
    BY <1>0, <1>L, <2>1, <2>4, <2>5
<1>5. CASE SubmitCreates
  <2>1. PICK s \in submit, r \in Handler :
           /\ r.user = Len(endUser') /\ r.name = s.name /\ CreateUser(s.client, s.name)
           /\ submit' = (submit \ {s}) \cup {r}
    BY <1>5, SubmitMovesOn
  <2>2. /\ endUser'[Len(endUser')] = [client |-> s.client, name |-> s.name]
        /\ Len(endUser') # 0
    BY <2>1, CreatesOnePerson, UserAppended
  <2>3. Named(r)'
    BY <2>1, <2>2 DEF Named
  <2>4. UNCHANGED <<linked, typed>>
    BY <1>5 DEF SubmitCreates
  <2> QED
    BY <1>0, <1>L, <2>1, <2>3, <2>4
<1>6. \/ submit' \subseteq submit /\ (UNCHANGED <<linked, typed>> \/ linked' = 0)
      \/ PickListed \/ ListedCreated \/ PressSubmit \/ SubmitCreates
  BY DEF CreateFormNext, formVars, ChooseClient, PickAssets, ListArrives, TypeName, CreateListed,
         ListedFailed, SubmitGivesUp, TicketAccepted, TicketRefused, CloseForm
<1> QED
  BY <1>1, <1>2, <1>3, <1>4, <1>5, <1>6

LEMMA NamedUserKept ==
    ASSUME FormTyped, NamesTrue, NamedUser, [CreateFormNext]_formVars
    PROVE  NamedUser'
<1>A. Ships' = Ships
  BY FormPageStays DEF Ships, Form
<1>U. \A u \in User : endUser'[u] = endUser[u]
  BY UsersStay
<1>1. CASE UNCHANGED ticket
  BY <1>1, <1>A, <1>U DEF NamedUser, FormTyped
<1>2. CASE TicketAccepted
  <2>1. PICK s \in submit : s.step = "send" /\ ticket' = {s} /\ UNCHANGED endUser
    BY <1>2 DEF TicketAccepted
  <2>2. Named(s)
    BY <2>1 DEF NamesTrue
  <2> QED
    BY <1>A, <2>1, <2>2 DEF NamedUser, Named
<1> QED
  BY <1>1, <1>2
     DEF CreateFormNext, formVars, ChooseClient, PickAssets, ListArrives, TypeName, PickListed,
     CreateListed, ListedCreated, ListedFailed, PressSubmit, SubmitCreates, SubmitGivesUp,
     TicketRefused, CloseForm

--------------------------------------------------------------------------------
\* A creation that is begun without haste is of a name the client has not, and that is not
\* being created.
LEMMA BegunInTime ==
    ASSUME FormTyped, client \in Client, Matches(client, typed) = {}, client # NoClient,
           hasty' = hasty \cup Haste, <<client, typed>> \notin hasty'
    PROVE  /\ ~NameTaken(client, typed)
           /\ \A k \in creating : ~(k.client = client /\ k.name = typed)
           /\ \A s \in Creates : ~(s.client = client /\ s.name = typed)
<1>1. Haste = {}
  BY DEF Haste
<1>2. /\ known[client] = OfClient(client)
      /\ [client |-> client, name |-> typed] \notin creating
      /\ ~ \E s \in submit : s.step = "create" /\ s.client = client /\ s.name = typed
  BY <1>1 DEF Haste
<1>3. ~NameTaken(client, typed)
  <2> SUFFICES ASSUME NEW u \in User, endUser[u] = [client |-> client, name |-> typed]
               PROVE  FALSE
    BY DEF NameTaken
  <2>1. endUser[u].client = client /\ endUser[u].name = typed
    OBVIOUS
  <2>2. u \in known[client]
    BY <1>2, <2>1 DEF OfClient
  <2> QED
    BY <2>1, <2>2 DEF Matches, ListedFor
<1>4. \A k \in creating : k = [client |-> k.client, name |-> k.name]
  BY DEF FormTyped, Person
<1> QED
  BY <1>2, <1>3, <1>4 DEF Creates

\* A name becomes taken by its creation only.
LEMMA TakenByCreation ==
    ASSUME FormTyped, NEW c, NEW n, CreateUser(c, n), [client |-> c, name |-> n] \in Person
    PROVE  \A d, m : NameTaken(d, m)' => NameTaken(d, m) \/ (d = c /\ m = n)
<1>1. /\ User' = User \cup {Len(endUser')}
      /\ \A u \in User : endUser'[u] = endUser[u]
      /\ endUser'[Len(endUser')] = [client |-> c, name |-> n]
  BY UserAppended
<1> SUFFICES ASSUME NEW d, NEW m, NEW u \in User', endUser'[u] = [client |-> d, name |-> m]
             PROVE  NameTaken(d, m) \/ (d = c /\ m = n)
  BY DEF NameTaken
<1>2. CASE u \in User
  BY <1>1, <1>2 DEF NameTaken
<1>3. CASE u = Len(endUser')
  <2>1. [client |-> d, name |-> m] = [client |-> c, name |-> n]
    BY <1>1, <1>3
  <2>2. [client |-> d, name |-> m].client = [client |-> c, name |-> n].client
        /\ [client |-> d, name |-> m].name = [client |-> c, name |-> n].name
    BY <2>1
  <2> QED
    BY <2>2
<1> QED
  BY <1>1, <1>2, <1>3

LEMMA CreatedOnceKept ==
    ASSUME FormTyped, CreatedOnce, [CreateFormNext]_formVars
    PROVE  CreatedOnce'
<1>0. /\ \A k \in creating \cup Creates :
            <<k.client, k.name>> \notin hasty => ~NameTaken(k.client, k.name)
      /\ \A k \in creating, s \in Creates :
            k.client = s.client /\ k.name = s.name => <<s.client, s.name>> \in hasty
      /\ \A r, s \in Creates :
            r # s /\ r.client = s.client /\ r.name = s.name => <<s.client, s.name>> \in hasty
  BY DEF CreatedOnce
<1>1. CASE creating' \subseteq creating /\ submit' \subseteq submit /\ UNCHANGED <<endUser, hasty>>
  <2>1. Creates' \subseteq Creates /\ \A c, n : NameTaken(c, n)' = NameTaken(c, n)
    BY <1>1 DEF Creates, NameTaken, User
  <2> QED
    BY <1>0, <1>1, <2>1 DEF CreatedOnce
<1>2. CASE CreateListed
  <2>1. /\ creating = {} /\ creating' = {[client |-> client, name |-> typed]}
        /\ hasty' = hasty \cup Haste /\ Matches(client, typed) = {} /\ client # NoClient
        /\ UNCHANGED <<submit, endUser>>
    BY <1>2 DEF CreateListed
  <2>2. Creates' = Creates /\ \A c, n : NameTaken(c, n)' = NameTaken(c, n)
    BY <2>1 DEF Creates, NameTaken, User
  <2>3. client \in Client
    BY <2>1 DEF FormTyped
  <2>4. <<client, typed>> \notin hasty' =>
          /\ ~NameTaken(client, typed)
          /\ \A s \in Creates : ~(s.client = client /\ s.name = typed)
    BY <2>1, <2>3, BegunInTime
  <2>5. \A k \in creating' : k.client = client /\ k.name = typed
    BY <2>1
  <2>6. hasty \subseteq hasty'
    BY <2>1
  <2> QED
    BY <1>0, <2>2, <2>4, <2>5, <2>6 DEF CreatedOnce
<1>3. CASE ListedCreated
  <2>1. PICK k \in creating : CreateUser(k.client, k.name) /\ creating' = {}
                              /\ UNCHANGED <<submit, hasty>>
    BY <1>3 DEF ListedCreated
  <2>2. \A d, m : NameTaken(d, m)' => NameTaken(d, m) \/ (d = k.client /\ m = k.name)
    <3>1. [client |-> k.client, name |-> k.name] \in Person
      BY CreatesOnePerson
    <3> QED
      BY <2>1, <3>1, TakenByCreation
  <2>3. Creates' = Creates
    BY <2>1 DEF Creates
  <2> QED
    BY <1>0, <2>1, <2>2, <2>3 DEF CreatedOnce
<1>4. CASE PressSubmit
  <2>1. submit' = submit \cup {Pressed} /\ UNCHANGED <<creating, endUser>>
    BY <1>4, PressHandsOver
  <2>2. \A c, n : NameTaken(c, n)' = NameTaken(c, n)
    BY <2>1 DEF NameTaken, User
  <2>3. CASE Pressed.step # "create"
    <3>1. Creates' = Creates /\ hasty' = hasty
      BY <1>4, <2>1, <2>3, PressHandsOver DEF Creates, Handler
    <3> QED
      BY <1>0, <2>1, <2>2, <3>1 DEF CreatedOnce
  <2>4. CASE Pressed.step = "create"
    <3>1. /\ Matches(client, typed) = {} /\ client \in Client /\ hasty' = hasty \cup Haste
          /\ Pressed.client = client /\ Pressed.name = typed
      BY <1>4, <2>4, PressHandsOver
    <3>2. client # NoClient
      BY <3>1, FormAssumption
    <3>3. <<client, typed>> \notin hasty' =>
            /\ ~NameTaken(client, typed)
            /\ \A k \in creating : ~(k.client = client /\ k.name = typed)
            /\ \A s \in Creates : ~(s.client = client /\ s.name = typed)
      BY <3>1, <3>2, BegunInTime
    <3>4. Creates' = Creates \cup {Pressed}
      BY <2>1, <2>4 DEF Creates
    <3>5. hasty \subseteq hasty'
      BY <3>1
    <3> HIDE DEF Pressed
    <3> QED
      BY <1>0, <2>1, <2>2, <3>1, <3>3, <3>4, <3>5 DEF CreatedOnce
  <2> QED
    BY <2>3, <2>4
<1>5. CASE SubmitCreates
  <2>1. PICK s \in submit, r \in Handler :
           /\ s.step = "create" /\ r.step = "send" /\ CreateUser(s.client, s.name)
           /\ submit' = (submit \ {s}) \cup {r}
    BY <1>5, SubmitMovesOn
  <2>2. \A d, m : NameTaken(d, m)' => NameTaken(d, m) \/ (d = s.client /\ m = s.name)
    <3>1. [client |-> s.client, name |-> s.name] \in Person
      BY CreatesOnePerson
    <3> QED
      BY <2>1, <3>1, TakenByCreation
  <2>3. Creates' = Creates \ {s} /\ s \in Creates
    BY <2>1 DEF Creates
  <2>4. UNCHANGED <<creating, hasty>>
    BY <1>5 DEF SubmitCreates
  <2> QED
    BY <1>0, <2>2, <2>3, <2>4 DEF CreatedOnce
<1>6. \/ creating' \subseteq creating /\ submit' \subseteq submit /\ UNCHANGED <<endUser, hasty>>
      \/ CreateListed \/ ListedCreated \/ PressSubmit \/ SubmitCreates
  BY DEF CreateFormNext, formVars, ChooseClient, PickAssets, ListArrives, TypeName, PickListed,
         ListedFailed, SubmitGivesUp, TicketAccepted, TicketRefused, CloseForm
<1> QED
  BY <1>1, <1>2, <1>3, <1>4, <1>5, <1>6

\* An end user more, of a name that was free or asked for in haste.
LEMMA NewNameIsNew ==
    ASSUME FormTyped, NameOnce, NEW c, NEW n, CreateUser(c, n),
           [client |-> c, name |-> n] \in Person, UNCHANGED hasty,
           <<c, n>> \notin hasty => ~NameTaken(c, n)
    PROVE  NameOnce'
<1>1. /\ User' = User \cup {Len(endUser')} /\ Len(endUser') \notin User /\ Len(endUser') \in Nat
      /\ \A u \in User : endUser'[u] = endUser[u]
      /\ endUser'[Len(endUser')] = [client |-> c, name |-> n]
  BY UserAppended
<1> SUFFICES ASSUME NEW u \in User', NEW v \in User', u < v, endUser'[u] = endUser'[v]
             PROVE  <<endUser'[u].client, endUser'[u].name>> \in hasty
  BY DEF NameOnce
<1>2. CASE u \in User /\ v \in User
  BY <1>1, <1>2 DEF NameOnce
<1>3. CASE u = Len(endUser') \/ v = Len(endUser')
  <2>1. /\ endUser'[u] = [client |-> c, name |-> n]
        /\ u \in User \/ v \in User
    <3>1. u # v
      BY <1>1 DEF User
    <3> QED
      BY <1>1, <1>3, <3>1
  <2>2. NameTaken(c, n)
    BY <1>1, <2>1 DEF NameTaken
  <2> QED
    BY <2>1, <2>2
<1> QED
  BY <1>1, <1>2, <1>3

LEMMA NameOnceKept ==
    ASSUME FormTyped, CreatedOnce, NameOnce, [CreateFormNext]_formVars
    PROVE  NameOnce'
<1>1. CASE UNCHANGED endUser /\ hasty \subseteq hasty'
  BY <1>1 DEF NameOnce, User
<1>2. CASE ListedCreated \/ SubmitCreates
  <2>1. PICK k \in creating \cup Creates : CreateUser(k.client, k.name) /\ UNCHANGED hasty
    BY <1>2 DEF ListedCreated, SubmitCreates, Creates
  <2>2. [client |-> k.client, name |-> k.name] \in Person
    BY CreatesOnePerson DEF Creates
  <2> QED
    BY <2>1, <2>2, NewNameIsNew DEF CreatedOnce
<1>3. CASE PressSubmit
  BY <1>1, <1>3, PressHandsOver DEF PressSubmit
<1> QED
  BY <1>1, <1>2, <1>3
     DEF CreateFormNext, formVars, ChooseClient, PickAssets, ListArrives, TypeName,
     PickListed, CreateListed, ListedFailed, SubmitGivesUp, TicketAccepted, TicketRefused, CloseForm

--------------------------------------------------------------------------------
LEMMA FormStartsRight == FormInit => FormIInv
<1> SUFFICES ASSUME FormInit PROVE FormIInv
  OBVIOUS
<1>1. /\ client = NoClient /\ picked = {} /\ typed = NoText /\ linked = 0
      /\ creating = {} /\ submit = {} /\ ticket = {} /\ pressed = 0
      /\ known = [c \in Client \cup {NoClient} |-> {}]
  BY DEF FormInit
<1>2. endUser \in Seq(Person) /\ Len(endUser) \in {0, 1}
  <2>1. CASE endUser = <<>>
    BY <2>1
  <2>2. CASE endUser # <<>>
    <3>1. PICK c \in Client, n \in Name : endUser = <<[client |-> c, name |-> n]>>
      BY <2>2 DEF FormInit
    <3>2. [client |-> c, name |-> n] \in Person
      BY DEF Person
    <3> QED
      BY <3>1, <3>2
  <2> QED
    BY <2>1, <2>2
<1>3. at \in {"repair", "resale", "disposal", "deployment", "retrieval"}
  BY FormAssumption DEF FormInit
<1>4. FormTyped
  BY <1>1, <1>2, <1>3 DEF FormTyped
<1>5. PickedFromClient /\ NamesTrue /\ NamedUser /\ CreatedOnce
  BY <1>1 DEF PickedFromClient, NamesTrue, NamedUser, CreatedOnce, Creates
<1>6. NameOnce
  BY <1>2 DEF NameOnce, User
<1> QED
  BY <1>4, <1>5, <1>6 DEF FormIInv

\* The inductive invariant of the create forms, for every client, asset, name and bound.
THEOREM FormInvariant == FormSpec => []FormIInv
<1>1. FormInit => FormIInv
  BY FormStartsRight
<1>2. FormIInv /\ [CreateFormNext]_formVars => FormIInv'
  BY FormTypedKept, PickedFromClientKept, NamesTrueKept, NamedUserKept, CreatedOnceKept,
     NameOnceKept
     DEF FormIInv
<1> QED
  BY <1>1, <1>2, PTL DEF FormSpec

\* No form but the deployment's sends an asset of another client than the one it names.
THEOREM FormSendsItsAssets == FormSpec => []SendsItsAssets
<1>1. FormIInv => SendsItsAssets
  BY DEF FormIInv, PickedFromClient, SendsItsAssets
<1> QED
  BY <1>1, FormInvariant, PTL

\* A ticket gets the end user whose name the form showed when the button was pressed.
THEOREM TicketNamesItsUser == FormSpec => []NamedUser
<1>1. FormIInv => NamedUser
  BY DEF FormIInv
<1> QED
  BY <1>1, FormInvariant, PTL

\* Only haste gives a client two end users of one name.
THEOREM NoNameTwice == FormSpec => []NameOnce
<1>1. FormIInv => NameOnce
  BY DEF FormIInv
<1> QED
  BY <1>1, FormInvariant, PTL

(***************************************************************************)
(* Access: the tables                                                      *)
(***************************************************************************)
\* The pages a role gets to.
Reach(r) ==
    IF r = "client_user"
    THEN {"dashboard", "inspections", "endUsers", "billing", "help", "inventory", "ledger",
          "deployment", "asset", "inspection"}
    ELSE {p \in Route : /\ p \in {"clients", "auditLog"} => r = "admin"
                        /\ p = "users" => r \in {"admin", "client_admin"}
                        /\ p = "ruralPincodes" => r \in Approvers}

\* An offer of a page is served, or is one of those known not to be.
Served(p, a) ==
    \A r \in UserRole :
       r \in a.by /\ p \in Reach(r) =>
          r \in Endpoint(a.call).roles \/ <<p, r, a.call>> \in Unserved

LEMMA Permits ==
    ASSUME NEW by, NEW controller, NEW handler, NEW p,
           \A r \in by : r \in UserRole /\ p \in Reach(r) =>
              \/ r \in Endpoints[controller][handler].roles
              \/ <<p, r, <<controller, handler>>>> \in Unserved
    PROVE  Served(p, Ask(by, controller, handler)) /\ Served(p, Fetch(by, controller, handler))
<1>1. Endpoint(<<controller, handler>>) = Endpoints[controller][handler]
  BY DEF Endpoint
<1>2. \A a : a.by = by /\ a.call = <<controller, handler>> => Served(p, a)
  BY <1>1 DEF Served
<1> QED
  BY <1>2 DEF Ask, Fetch

LEMMA Fits ==
    ASSUME NEW by, NEW controller, NEW handler, NEW p,
           by \subseteq Endpoints[controller][handler].roles
    PROVE  Served(p, Ask(by, controller, handler)) /\ Served(p, Fetch(by, controller, handler))
BY Permits

LEMMA RolesOf ==
    ASSUME NEW roles
    PROVE  /\ Common(roles).roles = roles /\ Listed(roles).roles = roles
           /\ Owned(roles).roles = roles /\ Stamped(roles).roles = roles
BY DEF Common, Listed, Owned, Stamped

\* The roles of the endpoints the pages call.
RolesFor(controller, handlers, roles) ==
    \A h \in handlers : Endpoints[controller][h].roles = roles

LEMMA EndpointRoles ==
    /\ RolesFor("assetReads", {"billingSummary", "exportCsv", "findAll", "findOne"}, UserRole)
    /\ RolesFor("inventory", {"ageing", "exportAgeingCsv", "findAll", "summary"}, UserRole)
    /\ RolesFor("inspectionReads",
                {"downloadReport", "findAll", "findOne", "servePhoto"}, UserRole)
    /\ RolesFor("inboundReads",
                {"downloadGrnPdf", "findAllDeliveries", "findOneDelivery"}, UserRole)
    /\ RolesFor("clients", {"create", "update", "deactivate"}, {"admin"})
    /\ RolesFor("clients", {"findAll"}, Staff)
    /\ RolesFor("clients", {"transportPricing"}, UserRole)
    /\ RolesFor("inbound",
                {"createExpectedDelivery", "updateDelivery", "updateDeliveryStatus"}, Editors)
    /\ RolesFor("inbound", {"receiveDevices", "updateGrn", "updateReceivedDevice"}, Writers)
    /\ RolesFor("locations", {"create", "update", "delete"}, Heads)
    /\ RolesFor("locations", {"findAll"}, UserRole)
    /\ RolesFor("assets", {"bulkMove", "create", "move", "update"}, Writers)
    /\ RolesFor("documents", {"listForAsset", "listForInspection"}, UserRole)
    /\ RolesFor("documents", {"uploadForAsset", "uploadForInspection"}, Writers)
    /\ RolesFor("documentRows", {"delete"}, Writers \ {"editor"})
    /\ RolesFor("documentRows", {"download"}, UserRole)
    /\ RolesFor("documentRows", {"uploadForRepair"}, Writers)
    /\ RolesFor("inspections", {"cancel", "complete", "create", "uploadPhoto"}, Writers)
    /\ RolesFor("ledger", {"createCorrection"}, {"admin"})
    /\ RolesFor("ledger", {"exportCsv"}, Heads)
    /\ RolesFor("ledger", {"findMany"}, Readers)
    /\ RolesFor("rateCard", {"create"}, {"admin"})
    /\ RolesFor("rateCard", {"findCurrent"}, Writers)
    /\ RolesFor("users", {"create", "setStatus"}, {"admin", "client_admin"})
    /\ RolesFor("users", {"findAll"}, Approvers)
    /\ RolesFor("users", {"findDirectory"}, Writers)
    /\ RolesFor("endUsers", {"create", "update"}, Editors)
    /\ RolesFor("endUsers", {"deactivate"}, {"admin", "client_admin"})
    /\ RolesFor("endUsers", {"findAll"}, UserRole)
    /\ RolesFor("storage", {"getSummary"}, UserRole)
    /\ RolesFor("storage", {"runAccrual"}, {"admin"})
    /\ RolesFor("inboundBilling", {"getPending", "markBilled", "undo"}, Approvers)
    /\ RolesFor("chargeBilling", {"getState"}, Readers)
    /\ RolesFor("chargeBilling", {"markBilled", "undo"}, Approvers)
    /\ RolesFor("logistics",
                {"listRuralPincodes", "addRuralPincode", "removeRuralPincode"}, Approvers)
    /\ RolesFor("logistics", {"resolveZone", "resolveState"}, UserRole)
    /\ RolesFor("ticketLookup", {"lookup"}, UserRole)
    /\ RolesFor("auditLog", {"findMany"}, Heads)
    /\ RolesFor("repair", {"findAll", "downloadReport"}, UserRole)
    /\ RolesFor("repair", {"create", "updateStatus", "updateSla"}, Writers)
    /\ RolesFor("repair", {"approve"}, Approvers)
    /\ RolesFor("disposal", {"findAll", "downloadCertificate"}, UserRole)
    /\ RolesFor("disposal", {"create", "startProcessing", "complete"}, Writers)
    /\ RolesFor("disposal", {"approve"}, Approvers)
    /\ RolesFor("resale", {"findAll"}, UserRole)
    /\ RolesFor("resale", {"create", "updateStatus"}, Writers)
    /\ RolesFor("deployment", {"findAll", "downloadDeliveryChallan"}, UserRole)
    /\ RolesFor("deployment",
                {"create", "update", "updateStatus", "updateZone", "updateTracking"}, Writers)
    /\ RolesFor("retrieval", {"findAll", "downloadRetrievalPdf"}, UserRole)
    /\ RolesFor("retrieval", {"create", "updateStatus"}, Writers)
<1>1. RolesFor("assetReads", {"billingSummary", "exportCsv", "findAll", "findOne"}, UserRole)
  BY RolesOf DEF RolesFor, Endpoints, AssetReads
<1>2. RolesFor("inventory", {"ageing", "exportAgeingCsv", "findAll", "summary"}, UserRole)
  BY RolesOf DEF RolesFor, Endpoints, InventoryController
<1>3. /\ RolesFor("inspectionReads",
                  {"downloadReport", "findAll", "findOne", "servePhoto"}, UserRole)
  BY RolesOf DEF RolesFor, Endpoints, InspectionReads
<1>4. /\ RolesFor("inboundReads",
                  {"downloadGrnPdf", "findAllDeliveries", "findOneDelivery"}, UserRole)
  BY RolesOf DEF RolesFor, Endpoints, InboundReads
<1>5. /\ RolesFor("clients", {"create", "update", "deactivate"}, {"admin"})
      /\ RolesFor("clients", {"findAll"}, Staff)
      /\ RolesFor("clients", {"transportPricing"}, UserRole)
  BY RolesOf DEF RolesFor, Endpoints, ClientsController
<1>6. /\ RolesFor("inbound",
                  {"createExpectedDelivery", "updateDelivery", "updateDeliveryStatus"}, Editors)
      /\ RolesFor("inbound", {"receiveDevices", "updateGrn", "updateReceivedDevice"}, Writers)
  BY RolesOf DEF RolesFor, Endpoints, InboundWrites
<1>7. /\ RolesFor("locations", {"create", "update", "delete"}, Heads)
      /\ RolesFor("locations", {"findAll"}, UserRole)
  BY RolesOf DEF RolesFor, Endpoints, LocationsController
<1>8. RolesFor("assets", {"bulkMove", "create", "move", "update"}, Writers)
  BY RolesOf DEF RolesFor, Endpoints, AssetWrites
<1>9. /\ RolesFor("documents", {"listForAsset", "listForInspection"}, UserRole)
      /\ RolesFor("documents", {"uploadForAsset", "uploadForInspection"}, Writers)
  BY RolesOf DEF RolesFor, Endpoints, DocumentUploads
<1>10. /\ RolesFor("documentRows", {"delete"}, Writers \ {"editor"})
       /\ RolesFor("documentRows", {"download"}, UserRole)
       /\ RolesFor("documentRows", {"uploadForRepair"}, Writers)
  BY RolesOf DEF RolesFor, Endpoints, DocumentRows
<1>11. RolesFor("inspections", {"cancel", "complete", "create", "uploadPhoto"}, Writers)
  BY RolesOf DEF RolesFor, Endpoints, InspectionWrites
<1>12. /\ RolesFor("ledger", {"createCorrection"}, {"admin"})
       /\ RolesFor("ledger", {"exportCsv"}, Heads)
       /\ RolesFor("ledger", {"findMany"}, Readers)
  BY RolesOf DEF RolesFor, Endpoints, LedgerController
<1>13. /\ RolesFor("rateCard", {"create"}, {"admin"})
       /\ RolesFor("rateCard", {"findCurrent"}, Writers)
  BY RolesOf DEF RolesFor, Endpoints, RateCardController
<1>14. /\ RolesFor("users", {"create", "setStatus"}, {"admin", "client_admin"})
       /\ RolesFor("users", {"findAll"}, Approvers)
       /\ RolesFor("users", {"findDirectory"}, Writers)
  BY RolesOf DEF RolesFor, Endpoints, UsersController
<1>15. /\ RolesFor("endUsers", {"create", "update"}, Editors)
       /\ RolesFor("endUsers", {"deactivate"}, {"admin", "client_admin"})
       /\ RolesFor("endUsers", {"findAll"}, UserRole)
  BY RolesOf DEF RolesFor, Endpoints, EndUsersController
<1>16. /\ RolesFor("storage", {"getSummary"}, UserRole)
       /\ RolesFor("storage", {"runAccrual"}, {"admin"})
  BY RolesOf DEF RolesFor, Endpoints, StorageController
<1>17. RolesFor("inboundBilling", {"getPending", "markBilled", "undo"}, Approvers)
  BY RolesOf DEF RolesFor, Endpoints, InboundBillingController
<1>18. /\ RolesFor("chargeBilling", {"getState"}, Readers)
       /\ RolesFor("chargeBilling", {"markBilled", "undo"}, Approvers)
  BY RolesOf DEF RolesFor, Endpoints, ChargeBillingController
<1>19. /\ RolesFor("logistics",
                   {"listRuralPincodes", "addRuralPincode", "removeRuralPincode"}, Approvers)
      /\ RolesFor("logistics", {"resolveZone", "resolveState"}, UserRole)
  BY RolesOf DEF RolesFor, Endpoints, LogisticsController
<1>20. RolesFor("ticketLookup", {"lookup"}, UserRole)
  BY RolesOf DEF RolesFor, Endpoints, TicketLookupController
<1>21. RolesFor("auditLog", {"findMany"}, Heads)
  BY RolesOf DEF RolesFor, Endpoints, AuditController
<1>22. /\ RolesFor("repair", {"findAll", "downloadReport"}, UserRole)
       /\ RolesFor("repair", {"create", "updateStatus", "updateSla"}, Writers)
       /\ RolesFor("repair", {"approve"}, Approvers)
  BY RolesOf DEF RolesFor, Endpoints, RepairController
<1>23. /\ RolesFor("disposal", {"findAll", "downloadCertificate"}, UserRole)
       /\ RolesFor("disposal", {"create", "startProcessing", "complete"}, Writers)
       /\ RolesFor("disposal", {"approve"}, Approvers)
  BY RolesOf DEF RolesFor, Endpoints, DisposalController
<1>24. /\ RolesFor("resale", {"findAll"}, UserRole)
       /\ RolesFor("resale", {"create", "updateStatus"}, Writers)
  BY RolesOf DEF RolesFor, Endpoints, ResaleController
<1>25. /\ RolesFor("deployment", {"findAll", "downloadDeliveryChallan"}, UserRole)
       /\ RolesFor("deployment",
                   {"create", "update", "updateStatus", "updateZone", "updateTracking"}, Writers)
  BY RolesOf DEF RolesFor, Endpoints, DeploymentController
<1>26. /\ RolesFor("retrieval", {"findAll", "downloadRetrievalPdf"}, UserRole)
       /\ RolesFor("retrieval", {"create", "updateStatus"}, Writers)
  BY RolesOf DEF RolesFor, Endpoints, RetrievalController
<1> QED
  BY <1>1, <1>2, <1>3, <1>4, <1>5, <1>6, <1>7, <1>8, <1>9, <1>10, <1>11, <1>12, <1>13, <1>14,
     <1>15, <1>16, <1>17, <1>18, <1>19, <1>20, <1>21, <1>22, <1>23, <1>24, <1>25, <1>26

\* The pages that few roles get to.
LEMMA Closed ==
    /\ \A p \in {"inbound", "receive", "rateCard", "repair", "disposal", "resale", "retrieval"} :
          p \notin Reach("client_user")
    /\ \A r : "clients" \in Reach(r) \/ "auditLog" \in Reach(r) => r = "admin"
    /\ \A r : "users" \in Reach(r) => r \in {"admin", "client_admin"}
    /\ \A r : "ruralPincodes" \in Reach(r) => r \in Approvers
BY DEF Reach

\* Every offer of a page is served, or known not to be.
LEMMA PagesServed ==
    /\ \A p : \A a \in SearchBox : Served(p, a)
    /\ \A a \in DashboardAsks : Served("dashboard", a)
    /\ \A a \in InventoryAsks : Served("inventory", a)
    /\ \A a \in DeliveryAsks : Served("delivery", a)
    /\ \A a \in AgeingAsks : Served("ageing", a)
    /\ \A a \in InspectionsAsks : Served("inspections", a)
    /\ \A a \in LocationsAsks : Served("locations", a)
    /\ \A a \in EndUsersAsks : Served("endUsers", a)
    /\ \A a \in InboundAsks : Served("inbound", a)
    /\ \A a \in ReceiveAsks : Served("receive", a)
    /\ \A a \in RateCardAsks : Served("rateCard", a)
    /\ \A a \in LedgerAsks : Served("ledger", a)
    /\ \A a \in BillingAsks : Served("billing", a)
    /\ \A a \in AssetAsks : Served("asset", a)
    /\ \A a \in InspectionAsks : Served("inspection", a)
    /\ \A a \in ClientsAsks : Served("clients", a)
    /\ \A a \in UsersAsks : Served("users", a)
    /\ \A a \in RepairAsks : Served("repair", a)
    /\ \A a \in DisposalAsks : Served("disposal", a)
    /\ \A a \in ResaleAsks : Served("resale", a)
    /\ \A a \in DeploymentAsks : Served("deployment", a)
    /\ \A a \in RetrievalAsks : Served("retrieval", a)
    /\ \A a \in RuralPincodesAsks : Served("ruralPincodes", a)
    /\ Served("ticketLookup", Ask(UserRole, "ticketLookup", "lookup"))
    /\ Served("auditLog", Ask(UserRole, "auditLog", "findMany"))
<1> USE EndpointRoles DEF RolesFor, UserRole, ClientScoped, Internal, Heads, Staff, Approvers,
                          Editors, Writers, Readers
<1>1. \A p : \A a \in SearchBox : Served(p, a)
  BY Fits DEF SearchBox
<1>2. \A a \in DashboardAsks : Served("dashboard", a)
  BY Fits DEF DashboardAsks
<1>3. \A a \in InventoryAsks : Served("inventory", a)
  BY Fits DEF InventoryAsks
<1>4. \A a \in DeliveryAsks : Served("delivery", a)
  BY Fits DEF DeliveryAsks
<1>5. \A a \in AgeingAsks : Served("ageing", a)
  BY Fits DEF AgeingAsks
<1>6. \A a \in InspectionsAsks : Served("inspections", a)
  BY Fits DEF InspectionsAsks
<1>7. \A a \in LocationsAsks : Served("locations", a)
  BY Fits DEF LocationsAsks
<1>8. \A a \in EndUsersAsks : Served("endUsers", a)
  BY Fits DEF EndUsersAsks
<1>9. \A a \in InboundAsks : Served("inbound", a)
  <2>1. Served("inbound", Ask(Writers, "inbound", "createExpectedDelivery"))
    BY Permits, Closed DEF Unserved, UnservedOperator
  <2>2. Served("inbound", Ask(UserRole, "inbound", "updateDeliveryStatus"))
    BY Permits, Closed DEF Unserved, UnservedOperator
  <2> QED
    BY <2>1, <2>2, Fits DEF InboundAsks
<1>10. \A a \in ReceiveAsks : Served("receive", a)
  <2>1. Served("receive", Ask(UserRole, "inbound", "receiveDevices"))
    BY Permits, Closed
  <2> QED
    BY <2>1, Fits DEF ReceiveAsks
<1>11. \A a \in RateCardAsks : Served("rateCard", a)
  <2>1. Served("rateCard", Ask(UserRole, "rateCard", "findCurrent"))
    BY Permits, Closed
  <2> QED
    BY <2>1, Fits DEF RateCardAsks
<1>12. \A a \in LedgerAsks : Served("ledger", a)
  <2>1. Served("ledger", Ask(UserRole, "ledger", "findMany"))
    BY Permits DEF Unserved, UnservedOperator
  <2>2. Served("ledger", Fetch(UserRole, "ledger", "exportCsv"))
    BY Permits DEF Unserved, UnservedOperator
  <2> QED
    BY <2>1, <2>2, Fits DEF LedgerAsks
<1>13. \A a \in BillingAsks : Served("billing", a)
  <2>1. Served("billing", Ask(UserRole, "ledger", "findMany"))
    BY Permits DEF Unserved, UnservedOperator
  <2>2. Served("billing", Ask(UserRole, "chargeBilling", "getState"))
    BY Permits DEF Unserved, UnservedOperator
  <2> QED
    BY <2>1, <2>2, Fits DEF BillingAsks
<1>14. \A a \in AssetAsks : Served("asset", a)
  <2>1. Served("asset", Ask(UserRole, "assets", "update"))
    BY Permits DEF Unserved, UnservedClientUser
  <2>2. Served("asset", Ask(UserRole, "assets", "move"))
    BY Permits DEF Unserved, UnservedClientUser
  <2>3. Served("asset", Fetch(UserRole, "documents", "uploadForAsset"))
    BY Permits DEF Unserved, UnservedClientUser
  <2>4. Served("asset", Ask(UserRole, "documentRows", "delete"))
    BY Permits DEF Unserved
  <2> QED
    BY <2>1, <2>2, <2>3, <2>4, Fits DEF AssetAsks, DocumentAsks
<1>15. \A a \in InspectionAsks : Served("inspection", a)
  <2>1. Served("inspection", Ask(UserRole, "inspections", "complete"))
    BY Permits DEF Unserved, UnservedClientUser
  <2>2. Served("inspection", Ask(UserRole, "inspections", "cancel"))
    BY Permits DEF Unserved, UnservedClientUser
  <2>3. Served("inspection", Fetch(UserRole, "inspections", "uploadPhoto"))
    BY Permits DEF Unserved, UnservedClientUser
  <2>4. Served("inspection", Fetch(UserRole, "documents", "uploadForInspection"))
    BY Permits DEF Unserved, UnservedClientUser
  <2>5. Served("inspection", Ask(UserRole, "documentRows", "delete"))
    BY Permits DEF Unserved
  <2> QED
    BY <2>1, <2>2, <2>3, <2>4, <2>5, Fits DEF InspectionAsks, DocumentAsks
<1>16. \A a \in ClientsAsks : Served("clients", a)
  <2>1. Served("clients", Ask(UserRole, "clients", "findAll"))
    BY Permits, Closed
  <2> QED
    BY <2>1, Fits DEF ClientsAsks
<1>17. \A a \in UsersAsks : Served("users", a)
  <2>1. Served("users", Ask(UserRole, "users", "findAll"))
    BY Permits, Closed
  <2> QED
    BY <2>1, Fits DEF UsersAsks
<1>18. \A a \in RepairAsks : Served("repair", a)
  <2>1. ASSUME NEW c \in {"create", "updateStatus", "updateSla"}
        PROVE  Served("repair", Ask(UserRole, "repair", c))
    BY Permits, Closed
  <2>2. Served("repair", Fetch(UserRole, "documentRows", "uploadForRepair"))
    BY Permits, Closed
  <2> QED
    BY <2>1, <2>2, Fits DEF RepairAsks, TicketAsks, RowAsks
<1>19. \A a \in DisposalAsks : Served("disposal", a)
  <2>1. ASSUME NEW c \in {"create", "startProcessing", "complete"}
        PROVE  Served("disposal", Ask(UserRole, "disposal", c))
    BY Permits, Closed
  <2> QED
    BY <2>1, Fits DEF DisposalAsks, TicketAsks, RowAsks
<1>20. \A a \in ResaleAsks : Served("resale", a)
  <2>1. ASSUME NEW c \in {"create", "updateStatus"}
        PROVE  Served("resale", Ask(UserRole, "resale", c))
    BY Permits, Closed
  <2> QED
    BY <2>1, Fits DEF ResaleAsks, TicketAsks, RowAsks
<1>21. \A a \in DeploymentAsks : Served("deployment", a)
  <2>1. Served("deployment", Ask(Writers, "endUsers", "create"))
    BY Permits DEF Unserved, UnservedOperator
  <2>2. ASSUME NEW c \in {"updateStatus", "updateZone", "updateTracking"}
        PROVE  Served("deployment", Ask(UserRole, "deployment", c))
    BY Permits DEF Unserved, UnservedClientUser
  <2>3. \A a \in DeliveryFormAsks(Writers) : Served("deployment", a)
    BY <2>1, Fits DEF DeliveryFormAsks
  <2>4. \A a \in RowAsks("deployment", {"updateStatus", "updateZone", "updateTracking"}) :
           Served("deployment", a)
    BY <2>2 DEF RowAsks
  <2>5. \A a \in TicketAsks("deployment", "inventory", Writers) : Served("deployment", a)
    BY Fits DEF TicketAsks
  <2> QED
    BY <2>3, <2>4, <2>5, Fits DEF DeploymentAsks
<1>22. \A a \in RetrievalAsks : Served("retrieval", a)
  <2>1. ASSUME NEW c \in {"create", "updateStatus"}
        PROVE  Served("retrieval", Ask(UserRole, "retrieval", c))
    BY Permits, Closed
  <2>2. Served("retrieval", Ask(UserRole, "endUsers", "create"))
    BY Permits, Closed DEF Unserved, UnservedOperator
  <2>3. Served("retrieval", Ask(UserRole, "users", "findDirectory"))
    BY Permits, Closed
  <2>4. \A a \in DeliveryFormAsks(UserRole) : Served("retrieval", a)
    BY <2>2, Fits DEF DeliveryFormAsks
  <2> QED
    BY <2>1, <2>3, <2>4, Fits DEF RetrievalAsks, TicketAsks, RowAsks
<1>23. \A a \in RuralPincodesAsks : Served("ruralPincodes", a)
  <2>1. ASSUME NEW c \in {"listRuralPincodes", "addRuralPincode", "removeRuralPincode"}
        PROVE  Served("ruralPincodes", Ask(UserRole, "logistics", c))
    BY Permits, Closed
  <2> QED
    BY <2>1 DEF RuralPincodesAsks
<1>24. Served("ticketLookup", Ask(UserRole, "ticketLookup", "lookup"))
  BY Fits
<1>25. Served("auditLog", Ask(UserRole, "auditLog", "findMany"))
  BY Permits, Closed
<1> QED
  BY <1>1, <1>2, <1>3, <1>4, <1>5, <1>6, <1>7, <1>8, <1>9, <1>10, <1>11, <1>12, <1>13, <1>14,
     <1>15, <1>16, <1>17, <1>18, <1>19, <1>20, <1>21, <1>22, <1>23, <1>24, <1>25

LEMMA AsksServed == \A p \in Route : \A a \in Asks[p] \cup SearchBox : Served(p, a)
<1>1. ASSUME NEW p \in Route PROVE \A a \in Asks[p] : Served(p, a)
  <2>1. CASE p \in {"dashboard", "inventory", "delivery", "ageing", "inspections", "locations",
                    "endUsers", "ticketLookup", "help"}
    BY <2>1, PagesServed DEF Asks
  <2>2. CASE p \in {"inbound", "receive", "rateCard", "ledger", "billing", "asset", "inspection"}
    BY <2>2, PagesServed DEF Asks
  <2>3. CASE p \in {"clients", "users", "ruralPincodes", "auditLog"}
    BY <2>3, PagesServed DEF Asks
  <2>4. CASE p \in {"repair", "disposal", "resale", "deployment", "retrieval"}
    BY <2>4, PagesServed DEF Asks
  <2> QED
    BY <2>1, <2>2, <2>3, <2>4 DEF Route, Asks
<1> QED
  BY <1>1, PagesServed

(***************************************************************************)
(* Access: the tab                                                         *)
(***************************************************************************)
\* The page is one that the role of the tab gets to, and rows of an owner are only listed to a
\* session that may touch them.
AccessIInv ==
    /\ AccessTypeOK
    /\ me # NoSession => route \in Reach(me.role)
    /\ listed # {} => filledBy # NoSession /\ listed \subseteq RowsOf(filledBy)
    /\ OfferedIsPermitted

LEMMA SessionRole == \A s \in Session : s.role \in UserRole
BY DEF Session, UserRole, ClientScoped

LEMMA ScopedRows ==
    ASSUME NEW s \in Session, s.role \in ClientScoped
    PROVE  RowsOf(s) = {s.client}
BY DEF RowsOf

LEMMA RowsAreTenants == \A s \in Session : RowsOf(s) \subseteq Tenant
BY DEF Session, RowsOf

LEMMA StartReached == \A r \in UserRole : "dashboard" \in Reach(r) /\ "dashboard" \in Route
BY DEF Reach, Route, Asks, UserRole

LEMMA SidebarReached == \A r \in UserRole : Sidebar(r) \subseteq Reach(r)
BY DEF Sidebar, Reach

LEMMA ReachRoutes == \A r : Reach(r) \subseteq Route
BY DEF Reach, Route, Asks

LEMMA LinksReached ==
    ASSUME NEW r \in UserRole, route \in Reach(r)
    PROVE  PageLinks(r) \subseteq Reach(r)
<1>1. CASE r = "client_user"
  BY <1>1 DEF PageLinks, Reach, Internal, ClientScoped, UserRole, Writers
<1>2. CASE r # "client_user"
  <2>1. {"inspections", "inventory", "ledger", "inbound", "deployment", "retrieval", "disposal",
         "repair", "resale"} \subseteq Reach(r)
    BY <1>2 DEF Reach, Route, Asks
  <2> QED
    BY <2>1 DEF PageLinks
<1> QED
  BY <1>1, <1>2

LEMMA RowLinksReached ==
    ASSUME me.role \in UserRole, route \in Reach(me.role)
    PROVE  RowLinks \subseteq Reach(me.role)
<1>1. CASE me.role = "client_user"
  BY <1>1 DEF RowLinks, Reach, Internal, ClientScoped, UserRole
<1>2. CASE me.role # "client_user"
  <2>1. {"asset", "inspection", "delivery", "receive"} \subseteq Reach(me.role)
    BY <1>2 DEF Reach, Route, Asks
  <2> QED
    BY <2>1 DEF RowLinks
<1> QED
  BY <1>1, <1>2

\* A call the tab offers to its own session is granted, unless it is one of those known.
LEMMA OfferGranted ==
    ASSUME AccessIInv, me # NoSession, stored = me, filledBy \in {me, NoSession},
           NEW a \in Calls(me.role), NEW owner \in Subjects(a), ~Granted(a, owner)
    PROVE  <<route, me.role, a.call>> \in Unserved
<1>1. me \in Session /\ me.role \in UserRole /\ route \in Route /\ route \in Reach(me.role)
  BY SessionRole DEF AccessIInv, AccessTypeOK
<1>2. a \in Asks[route] \cup SearchBox /\ me.role \in a.by
  BY DEF Calls
<1>3. Served(route, a)
  BY <1>1, <1>2, AsksServed
<1>4. MayTouch(stored, a.call, owner)
  <2>1. SUFFICES ASSUME Endpoint(a.call).rows = "owned", me.role \in ClientScoped
                 PROVE  owner = me.client
    BY DEF MayTouch
  <2>2. owner \in listed
    BY <2>1 DEF Subjects
  <2>3. owner \in RowsOf(me)
    BY <2>2 DEF AccessIInv
  <2> QED
    BY <1>1, <2>1, <2>3, ScopedRows
<1>5. me.role \notin Endpoint(a.call).roles
  BY <1>4 DEF Granted, MayCall
<1> QED
  BY <1>1, <1>2, <1>3, <1>5 DEF Served

LEMMA AccessInitially == AccessInit => AccessIInv
BY StartReached DEF AccessInit, AccessIInv, AccessTypeOK, OfferedIsPermitted, Route, Asks

LEMMA AccessStep == AccessIInv /\ [AccessNext]_accessVars => AccessIInv'
<1> SUFFICES ASSUME AccessIInv, [AccessNext]_accessVars PROVE AccessIInv'
  OBVIOUS
<1>t. AccessTypeOK
  BY DEF AccessIInv
<1>q. refusal' = NoRefusal => OfferedIsPermitted'
  BY DEF OfferedIsPermitted
<1>1. CASE GoTo
  <2>0. me \in Session /\ me.role \in UserRole /\ route \in Reach(me.role)
    BY <1>1, <1>t, SessionRole DEF GoTo, AccessTypeOK, AccessIInv
  <2>1. ASSUME NEW p \in Sidebar(me.role) \cup PageLinks(me.role), route' = p, Empty
        PROVE  AccessIInv'
    <3>1. route' \in Reach(me.role) /\ route' \in Route
      BY <2>0, <2>1, SidebarReached, LinksReached, ReachRoutes
    <3> QED
      BY <1>1, <1>t, <1>q, <2>1, <3>1 DEF GoTo, Empty, AccessIInv, AccessTypeOK
  <2>2. ASSUME NEW p \in RowLinks, NEW c \in listed, route' = p, listed' = {c}, UNCHANGED filledBy
        PROVE  AccessIInv'
    <3>1. route' \in Reach(me.role) /\ route' \in Route
      BY <2>0, <2>2, RowLinksReached, ReachRoutes
    <3>2. listed' \subseteq RowsOf(filledBy') /\ filledBy' # NoSession /\ listed' \subseteq Tenant
      BY <2>2, <1>t DEF AccessIInv, AccessTypeOK
    <3> QED
      BY <1>1, <1>t, <1>q, <2>2, <3>1, <3>2 DEF GoTo, AccessIInv, AccessTypeOK, RowsOf
  <2> QED
    BY <1>1, <2>1, <2>2 DEF GoTo
<1>2. CASE Load \/ SignIn \/ SignOut \/ Unauthorized
  <2>1. /\ me' \in Session \cup {NoSession} /\ stored' \in Session \cup {NoSession}
        /\ expired' \in BOOLEAN /\ route' = "dashboard" /\ listed' = {} /\ filledBy' = NoSession
        /\ refusal' = NoRefusal
    BY <1>2, <1>t DEF Load, SignIn, SignOut, Unauthorized, Empty, AccessTypeOK
  <2>2. me' # NoSession => route' \in Reach(me'.role)
    BY <2>1, SessionRole, StartReached
  <2>3. AccessTypeOK'
    BY <2>1 DEF AccessTypeOK, Route, Asks
  <2> QED
    BY <1>q, <2>1, <2>2, <2>3 DEF AccessIInv
<1>3. CASE OtherTab \/ Expire
  <2>1. /\ stored' \in Session \cup {NoSession} /\ expired' \in BOOLEAN
        /\ refusal' = NoRefusal /\ UNCHANGED <<me, route, listed, filledBy>>
    BY <1>3, <1>t DEF OtherTab, Expire, AccessTypeOK
  <2>2. RowsOf(filledBy)' = RowsOf(filledBy)
    BY <2>1 DEF RowsOf
  <2> QED
    BY <1>t, <1>q, <2>1, <2>2 DEF AccessIInv, AccessTypeOK
<1>4. CASE Answered
  <2>1. me # NoSession /\ stored # NoSession /\ UNCHANGED <<me, stored, expired, route>>
    BY <1>4 DEF Answered
  <2> DEFINE AnswerTo(a, owner) ==
          IF Granted(a, owner)
          THEN /\ IF Endpoint(a.call).rows = "listed"
                  THEN listed' = RowsOf(stored) /\ filledBy' = stored
                  ELSE UNCHANGED <<listed, filledBy>>
               /\ refusal' = NoRefusal
          ELSE /\ refusal' = [call |-> a.call, role |-> me.role,
                              same |-> stored = me /\ filledBy \in {me, NoSession}]
               /\ UNCHANGED <<listed, filledBy>>
  <2>a. PICK a \in Calls(me.role) : \E owner \in Subjects(a) : AnswerTo(a, owner)
    BY <1>4 DEF Answered
  <2>2. PICK owner \in Subjects(a) : AnswerTo(a, owner)
    BY <2>a
  <2>3. /\ listed' \subseteq Tenant /\ filledBy' \in Session \cup {NoSession}
        /\ listed' # {} => filledBy' # NoSession /\ listed' \subseteq RowsOf(filledBy')
    BY <1>t, <2>1, <2>2, RowsAreTenants DEF AccessTypeOK, AccessIInv
  <2>4. OfferedIsPermitted'
    <3>1. CASE Granted(a, owner)
      BY <1>q, <2>2, <3>1
    <3>2. CASE ~Granted(a, owner)
      <4>1. refusal' = [call |-> a.call, role |-> me.role,
                        same |-> stored = me /\ filledBy \in {me, NoSession}]
        BY <2>2, <3>2
      <4>2. refusal'.same => <<route', refusal'.role, refusal'.call>> \in Unserved
        BY <2>1, <3>2, <4>1, OfferGranted
      <4> QED
        BY <4>2 DEF OfferedIsPermitted
    <3> QED
      BY <3>1, <3>2
  <2> QED
    BY <1>t, <2>1, <2>3, <2>4 DEF AccessIInv, AccessTypeOK, RowsOf
<1>5. CASE UNCHANGED accessVars
  BY <1>5 DEF accessVars, AccessIInv, AccessTypeOK, OfferedIsPermitted, RowsOf
<1> QED
  BY <1>1, <1>2, <1>3, <1>4, <1>5 DEF AccessNext

\* The inductive invariant of a tab and its session, for any number of clients.
THEOREM AccessInvariant == AccessSpec => []AccessIInv
<1> QED
  BY AccessInitially, AccessStep, PTL DEF AccessSpec

\* No page refuses its own user what it offers, but for the offers of Unserved, which the tables of
\* the pages make and the @Roles decorators and row checks of the API do not take.
THEOREM OffersArePermitted == AccessSpec => []OfferedIsPermitted
<1>1. AccessIInv => OfferedIsPermitted
  BY DEF AccessIInv
<1> QED
  BY <1>1, AccessInvariant, PTL

(***************************************************************************)
(* ScreenCache: the tables                                                 *)
(***************************************************************************)
\* The answers that have to catch up with a change.
OnItsPage(c, k) == k \in ShownOn[c.on] /\ k # "assetBilling"

OfInventory(c, k) ==
    /\ "status" \in c.writes
    /\ k = "assets" \/ (k = "inventorySummary" /\ c.on \notin {"inventory", "asset"})

OfInspections(c, k) == c.on = "inspection" /\ k \in {"asset", "inspections", "inspectionsToDo"}

\* What the answers of the pages with several answers read.
LEMMA AnswersRead ==
    /\ Reads["asset"] \subseteq {"row", "status", "place", "inspection", "event"}
    /\ Reads["assetDocs"] \subseteq {"document"} /\ Reads["inspectionDocs"] \subseteq {"document"}
    /\ Reads["inspection"] \subseteq {"inspection", "row", "status"}
    /\ Reads["inspections"] \subseteq {"inspection", "row", "status"}
    /\ Reads["inspectionsToDo"] \subseteq {"inspection", "row"}
    /\ Reads["billingLedger"] \subseteq {"event", "row"}
    /\ Reads["storageSummary"] \subseteq {"status", "row", "rate", "accrual", "client"}
    /\ Reads["inboundPending"] \subseteq {"row", "ingest", "stamp", "rate"}
    /\ Reads["chargeBilling"] \subseteq {"batch"}
<1> DEFINE In(k, S) == \A t \in AnswerTables : k \in DOMAIN t => t[k] \subseteq S
<1>1. /\ In("asset", {"row", "status", "place", "inspection", "event"})
      /\ In("assetDocs", {"document"}) /\ In("inspectionDocs", {"document"})
      /\ In("inspection", {"inspection", "row", "status"})
      /\ In("inspections", {"inspection", "row", "status"})
      /\ In("inspectionsToDo", {"inspection", "row"})
      /\ In("billingLedger", {"event", "row"})
      /\ In("storageSummary", {"status", "row", "rate", "accrual", "client"})
      /\ In("inboundPending", {"row", "ingest", "stamp", "rate"})
      /\ In("chargeBilling", {"batch"})
  BY DEF AnswerTables, AssetAnswers, SummaryAnswers, LocationAnswers, InboundAnswers,
         InspectionAnswers, RepairAnswers, ResaleAnswers, DisposalAnswers, DeploymentAnswers,
         RetrievalAnswers, LedgerAnswers, StorageAnswers, PendingAnswers, BilledAnswers,
         AssetBillAnswers, RateAnswers, ClientAnswers, UserAnswers, EndUserAnswers,
         PincodeAnswers, DocumentAnswers
<1>2. {"asset", "assetDocs", "inspectionDocs", "inspection", "inspections", "inspectionsToDo",
       "billingLedger", "storageSummary", "inboundPending", "chargeBilling"} \subseteq Keys
  BY DEF Keys, AnswerTables, AssetAnswers, DocumentAnswers, InspectionAnswers, LedgerAnswers,
         StorageAnswers, PendingAnswers, BilledAnswers
<1>3. \A k \in Keys : \A S : In(k, S) => Reads[k] \subseteq S
  BY DEF Reads
<1> HIDE DEF In
<1> QED
  BY <1>1, <1>2, <1>3

LEMMA ChangeFields ==
    ASSUME NEW on, NEW does, NEW writes, NEW names, NEW to
    PROVE  LET c == Change(on, does, writes, names)
           IN /\ c.on = on /\ c.writes = writes /\ c.names = names
              /\ GoingTo(c, to).on = on /\ GoingTo(c, to).writes = writes
              /\ GoingTo(c, to).names = names
              /\ EvenIfRefused(c).on = on /\ EvenIfRefused(c).writes = writes
              /\ EvenIfRefused(c).names = names
BY DEF Change, GoingTo, EvenIfRefused

\* A change names every answer of its page, of the inventory and of what shows an inspection, that
\* it makes old.
NamesEnough(c) ==
    \A k \in Keys : /\ Reads[k] \cap c.writes # {}
                    /\ OnItsPage(c, k) \/ OfInventory(c, k) \/ OfInspections(c, k)
                    => k \in c.names

\* What the pages show.
LEMMA PagesShow ==
    /\ ShownOn["inventory"] = {"assets"} /\ ShownOn["asset"] = {"asset", "assetDocs"}
    /\ ShownOn["inbound"] = {"inboundDeliveries"} /\ ShownOn["delivery"] = {"delivery"}
    /\ ShownOn["receive"] = {"delivery"} /\ ShownOn["ledger"] = {"ledger"}
    /\ ShownOn["rateCard"] = {"rateCardCurrent"} /\ ShownOn["clients"] = {"clients"}
    /\ ShownOn["users"] = {"users"} /\ ShownOn["locations"] = {"locationsFull"}
    /\ ShownOn["endUsers"] = {"endUsers"} /\ ShownOn["pincodes"] = {"ruralPincodes"}
    /\ ShownOn["billing"] = {"billingLedger", "storageSummary", "inboundPending",
                             "chargeBilling", "assetBilling"}
BY DEF ShownOn

LEMMA Enough ==
    ASSUME NEW c,
           \A k \in ShownOn[c.on] \ {"assetBilling"} : Reads[k] \cap c.writes # {} => k \in c.names,
           "status" \in c.writes => /\ "assets" \in c.names
                                   /\ \/ "inventorySummary" \in c.names
                                      \/ c.on \in {"inventory", "asset"},
           c.on # "inspection"
    PROVE  NamesEnough(c)
BY DEF NamesEnough, OnItsPage, OfInventory, OfInspections

LEMMA InventoryNamesEnough == \A c \in InventoryChanges \cup AssetChanges : NamesEnough(c)
<1>1. \A c \in InventoryChanges : c.on = "inventory" /\ "assets" \in c.names
  BY ChangeFields DEF InventoryChanges
<1>2. \A c \in AssetChanges : /\ c.on = "asset"
                              /\ \/ /\ "asset" \in c.names /\ "assets" \in c.names
                                    /\ "document" \notin c.writes
                                 \/ "assetDocs" \in c.names /\ c.writes = {"document"}
  BY ChangeFields DEF AssetChanges
<1>3. \A c \in InventoryChanges : NamesEnough(c)
  BY <1>1, Enough, PagesShow
<1>4. \A c \in AssetChanges : NamesEnough(c)
  BY <1>2, Enough, PagesShow, AnswersRead
<1> QED
  BY <1>3, <1>4

LEMMA InboundNamesEnough ==
    \A c \in InboundChanges \cup DeliveryChanges \cup GrnChanges \cup ReceiveChanges : NamesEnough(c)
<1>1. \A c \in InboundChanges : /\ c.on = "inbound" /\ "inboundDeliveries" \in c.names
                                /\ "status" \notin c.writes
  BY ChangeFields DEF InboundChanges
<1>2. \A c \in DeliveryChanges \cup GrnChanges : /\ c.on = "delivery" /\ "delivery" \in c.names
                                               /\ "status" \notin c.writes
  BY ChangeFields DEF DeliveryChanges, GrnChanges
<1>3. \A c \in ReceiveChanges : /\ c.on = "receive"
                                /\ {"delivery", "assets", "inventorySummary"} \subseteq c.names
  BY ChangeFields DEF ReceiveChanges
<1>4. \A c \in InboundChanges : NamesEnough(c)
  BY <1>1, Enough, PagesShow
<1>5. \A c \in DeliveryChanges \cup GrnChanges : NamesEnough(c)
  BY <1>2, Enough, PagesShow
<1>6. \A c \in ReceiveChanges : NamesEnough(c)
  BY <1>3, Enough, PagesShow
<1> QED
  BY <1>4, <1>5, <1>6

LEMMA InspectionNamesEnough ==
    \A c \in InspectionsChanges \cup InspectionChanges : NamesEnough(c)
BY AnswersRead, ChangeFields
   DEF NamesEnough, OnItsPage, OfInventory, OfInspections, ShownOn, InspectionsChanges,
       InspectionChanges

LEMMA MovesNameEnough ==
    ASSUME NEW on, NEW kind, NEW list, NEW does, ShownOn[on] = {list}, on # "inspection"
    PROVE  \A c \in Moves(on, kind, list, does) \cup Marks(on, kind, list, does) :
             kind # "status" => NamesEnough(c)
BY ChangeFields DEF NamesEnough, OnItsPage, OfInventory, OfInspections, Moves, Marks

LEMMA TicketNamesEnough ==
    \A c \in RepairChanges \cup ResaleChanges \cup DisposalChanges \cup DeploymentChanges
               \cup RetrievalChanges \cup OrderEdit : NamesEnough(c)
<1>1. /\ ShownOn["repair"] = {"repairRequests"} /\ ShownOn["resale"] = {"resaleListings"}
      /\ ShownOn["disposal"] = {"disposalRequests"} /\ ShownOn["deployment"] = {"deploymentOrders"}
      /\ ShownOn["retrieval"] = {"retrievalRequests"}
  BY DEF ShownOn
<1>2. \A c \in OrderEdit : NamesEnough(c)
  BY <1>1, ChangeFields DEF NamesEnough, OnItsPage, OfInventory, OfInspections, OrderEdit
<1> QED
  BY <1>1, <1>2, MovesNameEnough
     DEF RepairChanges, ResaleChanges, DisposalChanges, DeploymentChanges, RetrievalChanges

LEMMA BillingNamesEnough == \A c \in BillingChanges : NamesEnough(c)
<1>1. \A c \in BillingChanges :
         /\ c.on = "billing"
         /\ \/ /\ c.writes = {"event", "accrual"} /\ {"storageSummary", "billingLedger"} \subseteq c.names
            \/ c.writes = {"stamp"} /\ "inboundPending" \in c.names
            \/ c.writes = {"batch"} /\ "chargeBilling" \in c.names
  <2> TAKE c \in BillingChanges
  <2>1. CASE c = Change("billing", "accrual", {"event", "accrual"}, {"storageSummary", "billingLedger"})
    BY <2>1, ChangeFields
  <2>2. CASE \E does \in {"markInbound", "undoInbound"} :
                c = Change("billing", does, {"stamp"}, {"inboundPending"})
    BY <2>2, ChangeFields
  <2>3. CASE c = EvenIfRefused(Change("billing", "mark", {"batch"}, {"chargeBilling"}))
    BY <2>3, ChangeFields
  <2>4. CASE c = Change("billing", "undo", {"batch"}, {"chargeBilling"})
    BY <2>4, ChangeFields
  <2> QED
    BY <2>1, <2>2, <2>3, <2>4 DEF BillingChanges
<1>2. ASSUME NEW c \in BillingChanges, NEW k \in ShownOn["billing"] \ {"assetBilling"},
             Reads[k] \cap c.writes # {}
      PROVE  k \in c.names
  <2>1. CASE c.writes = {"event", "accrual"}
    BY <1>1, <1>2, <2>1, PagesShow, AnswersRead
  <2>2. CASE c.writes = {"stamp"}
    BY <1>1, <1>2, <2>2, PagesShow, AnswersRead
  <2>3. CASE c.writes = {"batch"}
    BY <1>1, <1>2, <2>3, PagesShow, AnswersRead
  <2> QED
    BY <1>1, <2>1, <2>2, <2>3
<1> QED
  BY <1>1, <1>2, Enough

LEMMA RegisterNamesEnough ==
    \A c \in CorrectionChanges \cup RateChanges \cup ClientChanges \cup UserChanges
               \cup LocationChanges \cup EndUserChanges \cup PincodeChanges : NamesEnough(c)
<1>1. \A c : /\ c.names = ShownOn[c.on] /\ "status" \notin c.writes
             /\ c.on # "inspection"
             => NamesEnough(c)
  BY Enough
<1>2. \A c \in CorrectionChanges : NamesEnough(c)
  <2> DEFINE d == Change("ledger", "correct", {"event", "ingest"}, {"ledger"})
  <2>1. d.names = ShownOn[d.on] /\ "status" \notin d.writes /\ d.on # "inspection"
    BY PagesShow DEF Change
  <2>2. CorrectionChanges = {d}
    BY DEF CorrectionChanges
  <2> HIDE DEF d
  <2> QED
    BY <1>1, <2>1, <2>2
<1>3. \A c \in RateChanges : NamesEnough(c)
  <2> DEFINE d == Change("rateCard", "create", {"rate"}, {"rateCardCurrent"})
  <2>1. d.names = ShownOn[d.on] /\ "status" \notin d.writes /\ d.on # "inspection"
    BY PagesShow DEF Change
  <2>2. RateChanges = {d}
    BY DEF RateChanges
  <2> HIDE DEF d
  <2> QED
    BY <1>1, <2>1, <2>2
<1>4. \A c \in ClientChanges : NamesEnough(c)
  <2> DEFINE d == Change("clients", "save", {"client"}, {"clients"})
  <2>1. d.names = ShownOn[d.on] /\ "status" \notin d.writes /\ d.on # "inspection"
    BY PagesShow DEF Change
  <2>2. ClientChanges = {d}
    BY DEF ClientChanges
  <2> HIDE DEF d
  <2> QED
    BY <1>1, <2>1, <2>2
<1>5. \A c \in UserChanges : NamesEnough(c)
  <2> DEFINE d == Change("users", "save", {"user"}, {"users"})
  <2>1. d.names = ShownOn[d.on] /\ "status" \notin d.writes /\ d.on # "inspection"
    BY PagesShow DEF Change
  <2>2. UserChanges = {d}
    BY DEF UserChanges
  <2> HIDE DEF d
  <2> QED
    BY <1>1, <2>1, <2>2
<1>6. \A c \in LocationChanges : NamesEnough(c)
  <2> DEFINE d == Change("locations", "save", {"location"}, {"locationsFull"})
  <2>1. d.names = ShownOn[d.on] /\ "status" \notin d.writes /\ d.on # "inspection"
    BY PagesShow DEF Change
  <2>2. LocationChanges = {d}
    BY DEF LocationChanges
  <2> HIDE DEF d
  <2> QED
    BY <1>1, <2>1, <2>2
<1>7. \A c \in EndUserChanges : NamesEnough(c)
  <2> DEFINE d == Change("endUsers", "save", {"endUser"}, {"endUsers"})
  <2>1. d.names = ShownOn[d.on] /\ "status" \notin d.writes /\ d.on # "inspection"
    BY PagesShow DEF Change
  <2>2. EndUserChanges = {d}
    BY DEF EndUserChanges
  <2> HIDE DEF d
  <2> QED
    BY <1>1, <2>1, <2>2
<1>8. \A c \in PincodeChanges : NamesEnough(c)
  <2> DEFINE d == Change("pincodes", "save", {"pincode"}, {"ruralPincodes"})
  <2>1. d.names = ShownOn[d.on] /\ "status" \notin d.writes /\ d.on # "inspection"
    BY PagesShow DEF Change
  <2>2. PincodeChanges = {d}
    BY DEF PincodeChanges
  <2> HIDE DEF d
  <2> QED
    BY <1>1, <2>1, <2>2
<1> QED
  BY <1>2, <1>3, <1>4, <1>5, <1>6, <1>7, <1>8

LEMMA ChangesNameEnough == \A c \in Changes : NamesEnough(c)
BY InventoryNamesEnough, InboundNamesEnough, InspectionNamesEnough, TicketNamesEnough,
   BillingNamesEnough, RegisterNamesEnough DEF Changes

(***************************************************************************)
(* ScreenCache: the tab                                                    *)
(***************************************************************************)
CacheTyped ==
    /\ change \in Changes /\ key \in Keys /\ Reads[key] \cap change.writes # {}
    /\ cached \in {"none", "before", "after"} /\ aged \in BOOLEAN
    /\ reply \in {"no", "asked", "before", "after"}
    /\ outrun \in BOOLEAN /\ dropped \in BOOLEAN

Follows == OnItsPage(change, key) \/ OfInventory(change, key) \/ OfInspections(change, key)

\* Whatever is left from before the change is known to be old, unless an answer on its way has
\* outrun the change; and only such an answer can still bring something from before it.
OldIsAged == cached = "before" => aged

Settled ==
    phase = "done" /\ Follows =>
       /\ reply = "before" => outrun /\ OldIsAged
       /\ ~outrun => Caught /\ OldIsAged

CacheIInv == CacheTyped /\ Settled

LEMMA FollowingIsNamed ==
    ASSUME CacheTyped, Follows
    PROVE  key \in change.names
BY ChangesNameEnough DEF CacheTyped, Follows, NamesEnough

LEMMA CacheInitially == CacheInit => CacheIInv
BY DEF CacheInit, CacheIInv, CacheTyped, Settled

\* Naming an answer settles the change.
LEMMA NamingSettles ==
    ASSUME CacheTyped, NEW goes, NameAnswer(goes), screen' = goes, UNCHANGED <<key, cached>>
    PROVE  /\ aged' \in BOOLEAN /\ outrun' \in BOOLEAN
           /\ reply' \in {"no", "asked", "before", "after"}
           /\ reply' = "before" => outrun' /\ OldIsAged'
           /\ ~outrun' => Caught' /\ OldIsAged'
<1>1. aged' \in BOOLEAN /\ outrun' \in BOOLEAN
  BY DEF NameAnswer
<1>2. OldIsAged'
  BY DEF NameAnswer, OldIsAged, CacheTyped
<1>3. CASE Shows(screen)
  <2>1. reply' = "asked"
    BY <1>3 DEF NameAnswer
  <2> QED
    BY <1>1, <1>2, <2>1 DEF Caught
<1>4. CASE ~Shows(screen) /\ Shows(goes)
  <2>1. reply' = Joined /\ outrun' = (reply = "before")
    BY <1>4 DEF NameAnswer
  <2>2. reply' # "no" /\ reply' \in {"asked", "before", "after"} /\ (reply' = "before" => outrun')
    BY <2>1 DEF Joined, CacheTyped
  <2> QED
    BY <1>1, <1>2, <2>2 DEF Caught
<1>5. CASE ~Shows(screen) /\ ~Shows(goes)
  <2>1. reply' = reply /\ outrun' = (reply = "before") /\ aged' = (cached # "none")
    BY <1>5 DEF NameAnswer
  <2>2. ~Shows(screen)'
    BY <1>5 DEF Shows
  <2>3. Caught'
    BY <2>1, <2>2 DEF Caught
  <2> QED
    BY <1>1, <1>2, <2>1, <2>3 DEF CacheTyped
<1> QED
  BY <1>3, <1>4, <1>5

LEMMA CacheStep == CacheIInv /\ [CacheNext]_cacheVars => CacheIInv'
<1> SUFFICES ASSUME CacheIInv, [CacheNext]_cacheVars PROVE CacheIInv'
  OBVIOUS
<1> USE DEF CacheIInv
<1>1. ASSUME NEW p \in DOMAIN ShownOn, Visit(p) PROVE CacheIInv'
  <2>1. CacheTyped'
    BY <1>1 DEF Visit, CacheTyped, Joined
  <2>2. ASSUME phase' = "done", Follows'
        PROVE  /\ reply' = "before" => outrun' /\ OldIsAged'
               /\ ~outrun' => Caught' /\ OldIsAged'
    <3>1. phase = "done" /\ Follows
      BY <1>1, <2>2 DEF Visit, Follows
    <3>2. reply' = "before" => reply = "before"
      BY <1>1 DEF Visit, Joined
    <3>3. ASSUME ~outrun PROVE Caught'
      <4>1. Caught /\ OldIsAged
        BY <3>1, <3>3 DEF Settled
      <4>2. CASE cached # "before" \/ reply # "no"
        BY <1>1, <4>2 DEF Visit, Caught, Joined
      <4>3. CASE cached = "before" /\ reply = "no"
        <5>1. aged /\ Stale
          BY <4>1, <4>3 DEF OldIsAged, Stale
        <5>2. CASE Shows(p)
          BY <1>1, <5>1, <5>2, <4>3 DEF Visit, Caught, Joined
        <5>3. CASE ~Shows(p)
          BY <1>1, <5>1, <5>3 DEF Visit, Caught, Shows
        <5> QED
          BY <5>2, <5>3
      <4> QED
        BY <4>2, <4>3
    <3> QED
      BY <1>1, <3>1, <3>2, <3>3 DEF Settled, Visit, OldIsAged
  <2> QED
    BY <2>1, <2>2 DEF Settled
<1>2. CASE FocusBack
  BY <1>2 DEF FocusBack, CacheTyped, Settled, Follows, Caught, OldIsAged
<1>3. CASE Sync
  <2>1. CacheTyped'
    BY <1>3 DEF Sync, CacheTyped
  <2>2. Caught' /\ OldIsAged' /\ reply' # "before"
    BY <1>3 DEF Sync, Caught, OldIsAged
  <2> QED
    BY <2>1, <2>2 DEF Settled
<1>4. CASE GrowOld
  <2>1. CacheTyped'
    BY <1>4 DEF GrowOld, CacheTyped
  <2>2. OldIsAged' /\ (Caught => Caught')
    BY <1>4 DEF GrowOld, Caught, OldIsAged, Shows
  <2> QED
    BY <1>4, <2>1, <2>2 DEF Settled, GrowOld, Follows
<1>5. CASE AnswerRead
  <2>1. CacheTyped'
    BY <1>5 DEF AnswerRead, CacheTyped
  <2>2. Caught' /\ (OldIsAged => OldIsAged') /\ (phase' = "done" => reply' # "before")
    BY <1>5 DEF AnswerRead, Caught, OldIsAged
  <2> QED
    BY <1>5, <2>1, <2>2 DEF Settled, AnswerRead, Follows
<1>6. CASE AnswerArrives
  <2>1. CacheTyped'
    BY <1>6 DEF AnswerArrives, CacheTyped
  <2>2. CASE reply = "after"
    <3>1. Caught' /\ OldIsAged' /\ reply' # "before"
      BY <1>6, <2>2 DEF AnswerArrives, Caught, OldIsAged
    <3> QED
      BY <2>1, <3>1 DEF Settled
  <2>3. CASE reply = "before"
    <3>1. reply' # "before" /\ outrun' = outrun
      BY <1>6, <2>3 DEF AnswerArrives, CacheTyped
    <3> QED
      BY <1>6, <2>1, <2>3, <3>1 DEF Settled, AnswerArrives, Follows
  <2> QED
    BY <1>6, <2>2, <2>3 DEF AnswerArrives
<1>7. CASE AnswerFails
  <2>1. CacheTyped'
    BY <1>7 DEF AnswerFails, CacheTyped
  <2>2. reply' # "before" /\ (OldIsAged => OldIsAged' /\ Caught')
    BY <1>7 DEF AnswerFails, Caught, OldIsAged
  <2>3. ~outrun' => ~outrun \/ reply = "before"
    BY <1>7 DEF AnswerFails
  <2> QED
    BY <1>7, <2>1, <2>2, <2>3 DEF Settled, AnswerFails, Follows
<1>8. CASE MakeChange \/ ChangeSaved
  BY <1>8 DEF MakeChange, ChangeSaved, CacheTyped, Settled
<1>9. CASE ChangeDone
  <2> DEFINE goes == IF change.then = "" THEN screen ELSE change.then
  <2>1. CASE key \in change.names /\ NameAnswer(goes)
    <3>1. screen' = goes /\ UNCHANGED <<change, key, cached, dropped>>
      BY <1>9 DEF ChangeDone
    <3> HIDE DEF goes
    <3> QED
      BY <2>1, <3>1, NamingSettles DEF CacheTyped, Settled
  <2>2. CASE /\ key \notin change.names
             /\ reply' = IF goes # screen /\ Shows(goes) /\ Stale THEN Joined ELSE reply
             /\ UNCHANGED <<aged, outrun>>
    <3>1. CacheTyped'
      BY <1>9, <2>2 DEF ChangeDone, CacheTyped, Joined
    <3>2. ~Follows'
      BY <1>9, <2>2, FollowingIsNamed DEF ChangeDone, Follows
    <3> QED
      BY <3>1, <3>2 DEF Settled
  <2> QED
    BY <1>9, <2>1, <2>2 DEF ChangeDone
<1>10. CASE ChangeLost
  <2>1. CASE NamedAnyway
    <3>1. NameAnswer(screen) /\ UNCHANGED <<change, key, screen, cached, dropped>>
      BY <1>10, <2>1 DEF ChangeLost
    <3> QED
      BY <3>1, NamingSettles DEF CacheTyped, Settled
  <2>2. CASE ~NamedAnyway
    <3>1. CacheTyped'
      BY <1>10, <2>2 DEF ChangeLost, CacheTyped
    <3>2. phase' = "done" => ~Follows'
      BY <1>10, <2>2, FollowingIsNamed DEF ChangeLost, NamedAnyway, Follows
    <3> QED
      BY <3>1, <3>2 DEF Settled
  <2> QED
    BY <2>1, <2>2
<1>11. CASE ChangeRefused
  <2>1. CASE NamedAnyway
    <3>1. /\ NameAnswer(screen) /\ UNCHANGED <<change, key, screen, cached, dropped>>
          /\ phase' = "idle"
      BY <1>11, <2>1 DEF ChangeRefused
    <3> QED
      BY <3>1, NamingSettles DEF CacheTyped, Settled
  <2>2. CASE ~NamedAnyway
    BY <1>11, <2>2 DEF ChangeRefused, CacheTyped, Settled
  <2> QED
    BY <2>1, <2>2
<1>12. CASE UNCHANGED cacheVars
  BY <1>12 DEF cacheVars, CacheTyped, Settled, Follows, Caught, OldIsAged, Shows
<1> QED
  BY <1>1, <1>2, <1>3, <1>4, <1>5, <1>6, <1>7, <1>8, <1>9, <1>10, <1>11, <1>12 DEF CacheNext

LEMMA SettledCatchUp == CacheIInv => PagesCatchUp
BY DEF CacheIInv, CacheTyped, Settled, PagesCatchUp, OwnChangesShow, InventoryFollows,
       InspectionsFollow, Follows, OnItsPage, OfInventory, OfInspections

\* The inductive invariant of the query cache, for every change and every answer it makes old.
THEOREM CacheInvariant == CacheSpec => []CacheIInv
<1> QED
  BY CacheInitially, CacheStep, PTL DEF CacheSpec

\* The page a change is made on, the asset list, the counts after a receipt, an inspection or a
\* ticket, and what shows an inspection catch up with the user's changes: onSuccess names these
\* where its change makes them old, and what was on its way to the screen is asked for again.
THEOREM ScreensCatchUp == CacheSpec => []PagesCatchUp
<1> QED
  BY CacheInvariant, SettledCatchUp, PTL

(***************************************************************************)
(* BillingPage                                                             *)
(***************************************************************************)
ReceptionRow == [type : {"INGEST", "CORRECTION_INGEST"}, recent : BOOLEAN]

\* A reception that was never reversed has one row, if any.
BillingIInv ==
    /\ fees \subseteq Fee
    /\ posted \in [Device -> Seq(ReceptionRow)]
    /\ \A d \in Device : LedgerOf(d, "CORRECTION_INGEST") = {} =>
         posted[d] = <<>> \/ (Len(posted[d]) = 1 /\ posted[d][1].type = "INGEST")

LEMMA BillingStartsRight == BillingInit => BillingIInv
BY DEF BillingInit, BillingIInv

LEMMA ReceptionKinds ==
    /\ \A r \in BOOLEAN : Ingest(r) \in ReceptionRow /\ Ingest(r).type = "INGEST"
    /\ Reversal \in ReceptionRow /\ Reversal.type = "CORRECTION_INGEST"
BY DEF Ingest, Reversal, ReceptionRow

LEMMA ShortRows ==
    ASSUME NEW S, NEW a \in S, NEW b \in S
    PROVE  /\ <<a>> \in Seq(S) /\ Len(<<a>>) = 1 /\ <<a>>[1] = a
           /\ <<a, b>> \in Seq(S) /\ Len(<<a, b>>) = 2 /\ <<a, b>>[1] = a
OBVIOUS

\* A reversal stays in the ledger.
LEMMA ReversalStays ==
    ASSUME NEW s \in Seq(ReceptionRow), NEW t \in Seq(ReceptionRow), Len(t) > 0,
           t[1].type = "CORRECTION_INGEST"
    PROVE  /\ s \o t \in Seq(ReceptionRow)
           /\ \E j \in DOMAIN (s \o t) : (s \o t)[j].type = "CORRECTION_INGEST"
<1>1. s \o t \in Seq(ReceptionRow) /\ Len(s \o t) = Len(s) + Len(t) /\ Len(s) \in Nat /\ Len(t) \in Nat
  OBVIOUS
<1>2. (s \o t)[Len(s) + 1] = t[1] /\ Len(s) + 1 \in DOMAIN (s \o t)
  BY <1>1
<1> QED
  BY <1>1, <1>2

LEMMA BillingInvKept ==
    ASSUME BillingIInv, [BillingNext]_billingVars
    PROVE  BillingIInv'
<1>0. /\ fees \subseteq Fee /\ posted \in [Device -> Seq(ReceptionRow)]
      /\ \A d \in Device : LedgerOf(d, "CORRECTION_INGEST") = {} =>
           posted[d] = <<>> \/ (Len(posted[d]) = 1 /\ posted[d][1].type = "INGEST")
  BY DEF BillingIInv
<1>1. CASE UNCHANGED posted
  <2>1. fees' \subseteq Fee
    BY <1>0 DEF BillingNext, billingVars, serverVars, screenVars, DeviceArrives, DeviceReversed,
         DeviceWaived, BundleReversed, FeePosted, ChooseDates, LedgerFetched, PendingFetched, BilledFetched,
         MarkInbound, MarkFees, InboundMarked, FeesMarked, UndoBilling
  <2> QED
    BY <1>0, <1>1, <2>1 DEF BillingIInv, LedgerOf
<1>2. ASSUME NEW d \in Device, NEW s \in Seq(ReceptionRow),
             posted' = [posted EXCEPT ![d] = s], UNCHANGED fees,
             \/ s = <<>> \/ (Len(s) = 1 /\ s[1].type = "INGEST")
             \/ \E j \in DOMAIN s : s[j].type = "CORRECTION_INGEST"
      PROVE  BillingIInv'
  <2>1. posted' \in [Device -> Seq(ReceptionRow)] /\ posted'[d] = s
        /\ \A e \in Device : e # d => posted'[e] = posted[e]
    BY <1>0, <1>2
  <2>2. ASSUME NEW e \in Device, LedgerOf(e, "CORRECTION_INGEST")' = {}
        PROVE  posted'[e] = <<>> \/ (Len(posted'[e]) = 1 /\ posted'[e][1].type = "INGEST")
    <3>1. ~ \E j \in DOMAIN posted'[e] : posted'[e][j].type = "CORRECTION_INGEST"
      BY <2>2 DEF LedgerOf
    <3>2. CASE e = d
      BY <1>2, <2>1, <3>1, <3>2
    <3>3. CASE e # d
      BY <1>0, <2>1, <3>1, <3>3 DEF LedgerOf
    <3> QED
      BY <3>2, <3>3
  <2> QED
    BY <1>0, <1>2, <2>1, <2>2 DEF BillingIInv
<1>3. ASSUME NEW d \in Device, DeviceArrives(d) PROVE BillingIInv'
  <2>1. PICK more \in {<<>>, <<Ingest(TRUE)>>, <<Ingest(FALSE)>>} :
          posted' = [posted EXCEPT ![d] = more] /\ UNCHANGED fees
    BY <1>3 DEF DeviceArrives
  <2>2. more \in Seq(ReceptionRow) /\ (more = <<>> \/ (Len(more) = 1 /\ more[1].type = "INGEST"))
    <3>1. Ingest(TRUE) \in ReceptionRow /\ Ingest(FALSE) \in ReceptionRow
          /\ Ingest(TRUE).type = "INGEST" /\ Ingest(FALSE).type = "INGEST"
      BY ReceptionKinds
    <3>2. CASE more = <<>>
      BY <3>2
    <3>3. CASE more = <<Ingest(TRUE)>>
      BY <3>1, <3>3, ShortRows
    <3>4. CASE more = <<Ingest(FALSE)>>
      BY <3>1, <3>4, ShortRows
    <3> QED
      BY <2>1, <3>2, <3>3, <3>4
  <2> QED
    BY <1>2, <2>1, <2>2
<1>4. ASSUME NEW d \in Device, DeviceReversed(d) PROVE BillingIInv'
  <2>1. PICK more \in {<<Reversal>>, <<Reversal, Ingest(TRUE)>>, <<Reversal, Ingest(FALSE)>>} :
          posted' = [posted EXCEPT ![d] = posted[d] \o more] /\ UNCHANGED fees
    BY <1>4 DEF DeviceReversed
  <2>2. more \in Seq(ReceptionRow) /\ Len(more) > 0 /\ more[1].type = "CORRECTION_INGEST"
    <3>1. Ingest(TRUE) \in ReceptionRow /\ Ingest(FALSE) \in ReceptionRow
          /\ Reversal \in ReceptionRow /\ Reversal.type = "CORRECTION_INGEST"
      BY ReceptionKinds
    <3>2. CASE more = <<Reversal>>
      BY <3>1, <3>2, ShortRows
    <3>3. CASE \E i \in ReceptionRow : more = <<Reversal, i>>
      BY <3>1, <3>3, ShortRows
    <3> QED
      BY <2>1, <3>1, <3>2, <3>3
  <2>3. /\ posted[d] \o more \in Seq(ReceptionRow)
        /\ \E j \in DOMAIN (posted[d] \o more) : (posted[d] \o more)[j].type = "CORRECTION_INGEST"
    <3>1. posted[d] \in Seq(ReceptionRow)
      BY <1>0
    <3> QED
      BY <2>2, <3>1, ReversalStays
  <2> QED
    BY <1>2, <2>1, <2>3
<1>5. UNCHANGED posted \/ \E d \in Device : DeviceArrives(d) \/ DeviceReversed(d)
  BY DEF BillingNext, billingVars, serverVars, screenVars, DeviceWaived, BundleReversed, FeePosted,
         ChooseDates, LedgerFetched, PendingFetched, BilledFetched, MarkInbound, MarkFees, InboundMarked,
         FeesMarked, UndoBilling
<1> QED
  BY <1>1, <1>3, <1>4, <1>5

\* The devices listed, whether by a ledger row or apart, are those the page was told of.
LEMMA ListedAreTold ==
    ASSUME pendingSeen.loaded
    PROVE  PendingInboundRows \cup {e[1] : e \in PendingRows \ Fee} = {p.of : p \in pendingSeen.devices}
<1>1. \A e \in ledgerSeen \ Fee : e \in PendingRows <=> e[1] \in UnbilledInLedger
  BY BillingAssumption DEF PendingRows, IsBilledEntry
<1>2. PendingRows \subseteq ledgerSeen
  BY DEF PendingRows
<1>3. ASSUME NEW p \in pendingSeen.devices, p.of \notin PendingInboundRows
      PROVE  p.of \in {e[1] : e \in PendingRows \ Fee}
  <2>1. p.inLedger /\ p.of \in IngestListed
    BY <1>3 DEF PendingInboundRows
  <2>2. PICK e \in ledgerSeen \ Fee : e[1] = p.of
    BY <2>1 DEF IngestListed
  <2>3. e[1] \in UnbilledInLedger
    BY <2>1, <2>2 DEF UnbilledInLedger
  <2> QED
    BY <1>1, <2>2, <2>3
<1>4. PendingInboundRows \subseteq {p.of : p \in pendingSeen.devices}
  BY DEF PendingInboundRows
<1>5. ASSUME NEW e \in PendingRows \ Fee
      PROVE  e[1] \in {p.of : p \in pendingSeen.devices}
  BY <1>1, <1>2 DEF UnbilledInLedger
<1> QED
  BY <1>3, <1>4, <1>5

LEMMA AtMostOne == ASSUME NEW x, NEW S, S \subseteq {x} PROVE Cardinality(S) <= 1
<1>1. S = {} \/ S = {x}
  OBVIOUS
<1>2. Cardinality(S) \in {0, 1}
  BY <1>1, FS_EmptySet, FS_Singleton
<1> QED
  BY <1>2

\* One row of one reception, or one entry apart.
LEMMA ListedOnce ==
    ASSUME BillingIInv, LedgerAnswer(ledgerSeen),
           pendingSeen = [loaded |-> TRUE, devices |-> PendingNow],
           NEW d \in Device, LedgerOf(d, "CORRECTION_INGEST") = {}
    PROVE  Cardinality({e \in PendingRows \ Fee : e[1] = d} \cup ({d} \cap PendingInboundRows)) <= 1
<1> DEFINE L == {e \in PendingRows \ Fee : e[1] = d} \cup ({d} \cap PendingInboundRows)
<1>1. posted[d] = <<>> \/ (Len(posted[d]) = 1 /\ posted[d][1].type = "INGEST")
  BY DEF BillingIInv
<1>2. \A e \in PendingRows \ Fee : e \in InWindow \ Fee
  BY DEF PendingRows, LedgerAnswer
<1>3. \A e \in InWindow \ Fee : /\ e = <<e[1], e[2]>> /\ e[1] \in Device
                                 /\ e[2] \in DOMAIN posted[e[1]]
  BY DEF InWindow, ReceptionRows, BillingIInv
<1>4. CASE posted[d] = <<>>
  <2>1. {e \in PendingRows \ Fee : e[1] = d} = {}
    BY <1>2, <1>3, <1>4
  <2>2. L \subseteq {d}
    BY <2>1
  <2> QED
    BY <2>2, AtMostOne
<1>5. CASE Len(posted[d]) = 1 /\ posted[d][1].type = "INGEST"
  <2>1. posted[d] \in Seq(ReceptionRow) /\ DOMAIN posted[d] = {1}
    BY <1>5 DEF BillingIInv
  <2>2. \A e \in PendingRows \ Fee : e[1] = d => e = <<d, 1>>
    BY <1>2, <1>3, <2>1
  <2>3. LedgerOf(d, "INGEST") # {}
    BY <1>5, <2>1 DEF LedgerOf
  <2>4. \A p \in pendingSeen.devices : p.of = d => p.inLedger
    <3>1. ASSUME NEW p \in PendingNow
          PROVE  p.inLedger <=> LedgerOf(p.of, "INGEST") # {}
      <4>1. PICK e \in stock : p = [of |-> e, inLedger |-> LedgerOf(e, "INGEST") # {}]
        BY DEF PendingNow
      <4>2. p.of = e /\ p.inLedger = (LedgerOf(e, "INGEST") # {})
        BY <4>1, Zenon
      <4> QED
        BY <4>2, Zenon
    <3>2. pendingSeen.devices = PendingNow
      OBVIOUS
    <3> QED
      BY <2>3, <3>1, <3>2
  <2>5. d \in PendingInboundRows => d \notin IngestListed
    BY <2>4 DEF PendingInboundRows
  <2>6. <<d, 1>> \in PendingRows \ Fee => d \in IngestListed
    <3> SUFFICES ASSUME <<d, 1>> \in PendingRows \ Fee PROVE d \in IngestListed
      OBVIOUS
    <3>1. <<d, 1>> \in ledgerSeen \ Fee /\ <<d, 1>>[1] = d /\ <<d, 1>>[2] = 1
      BY DEF PendingRows
    <3>2. posted[<<d, 1>>[1]][<<d, 1>>[2]].type = "INGEST"
      BY <1>5, <3>1
    <3> QED
      BY <3>1, <3>2 DEF IngestListed
  <2>7. L \subseteq {<<d, 1>>} \/ L \subseteq {d}
    BY <2>2, <2>5, <2>6
  <2> QED
    BY <2>7, AtMostOne
<1> QED
  BY <1>1, <1>4, <1>5

\* The inductive invariant of the billing page, for every set of devices and charges.
THEOREM BillingInvariant == BillingSpec => []BillingIInv
<1>1. BillingInit => BillingIInv
  BY BillingStartsRight
<1>2. BillingIInv /\ [BillingNext]_billingVars => BillingIInv'
  BY BillingInvKept
<1> QED
  BY <1>1, <1>2, PTL DEF BillingSpec

\* The page lists what the services would bill, each reception once.
THEOREM ListedIsPending == BillingSpec => []PendingListed
<1> DEFINE Charges == {f \in fees \ (Accrual \cup suppressed \cup UNION batches) : wide \/ f \notin early}
<1>1. BillingIInv => PendingListed
  <2> SUFFICES ASSUME BillingIInv, LedgerAnswer(ledgerSeen), billedSeen = UNION batches,
                      pendingSeen = [loaded |-> TRUE, devices |-> PendingNow]
               PROVE  /\ PendingInboundRows \cup {e[1] : e \in PendingRows \ Fee} = {p.of : p \in PendingNow}
                      /\ Cardinality(InWindow) <= MaxAnswer => PendingRows \cap Fee = Charges
                      /\ \A d \in Device : LedgerOf(d, "CORRECTION_INGEST") = {} =>
                           Cardinality({e \in PendingRows \ Fee : e[1] = d}
                                         \cup ({d} \cap PendingInboundRows)) <= 1
    BY DEF PendingListed
  <2>1. pendingSeen.loaded /\ pendingSeen.devices = PendingNow
    OBVIOUS
  <2>2. ASSUME Cardinality(InWindow) <= MaxAnswer PROVE PendingRows \cap Fee = Charges
    <3>1. ledgerSeen = InWindow
      BY <2>2 DEF LedgerAnswer
    <3>2. InWindow \cap Fee = {f \in fees \ suppressed : wide \/ f \notin early}
      <4>1. fees \subseteq Fee /\ Fee \cap ReceptionRows = {}
        BY BillingAssumption DEF BillingIInv, ReceptionRows
      <4> QED
        BY <4>1 DEF InWindow, Recent
    <3>3. \A e \in Fee : IsBilledEntry(e) <=> e \in UNION batches
      BY DEF IsBilledEntry
    <3>4. PendingRows \cap Fee = {e \in (InWindow \cap Fee) \ Accrual : e \notin UNION batches}
      BY <3>1, <3>3 DEF PendingRows
    <3> QED
      BY <3>2, <3>4
  <2> QED
    BY <2>1, <2>2, ListedAreTold, ListedOnce
<1> QED
  BY <1>1, BillingInvariant, PTL

(***************************************************************************)
(* ReceivePage                                                             *)
(***************************************************************************)
RowKind == Kind \cup Typed \cup {NoKind}

RowType == [serial : Serial, line : ExpectedLines \cup {0}, kind : RowKind, auto : BOOLEAN]

ReceiveTyped ==
    /\ lines \in Seq([kind : Kind, quantity : Nat]) /\ Len(lines) = Len(expected)
    /\ expected \in Seq([kind : Kind, quantity : Nat])
    /\ received \in [Kind -> Nat] /\ seen \in [Kind -> Nat] /\ seenLeast \in [Kind -> Nat]
    /\ loaded \in BOOLEAN
    /\ rows \in Seq(RowType)
    /\ pickedLine \in ExpectedLines \cup {0}
    /\ sending \in Seq([serial : Serial, kind : RowKind])

\* The page takes no less to have been received than it ever did.
SeenLeast == \A k \in Kind : seenLeast[k] <= seen[k]

\* A line is only filled once the page has the delivery.
NotLoaded == ~loaded => pickedLine = 0 /\ \A i \in DOMAIN rows : rows[i].line = 0

AutoOf(rs, l) == {i \in DOMAIN rs : rs[i].auto /\ rs[i].line = l}

Fitting(rs) ==
    Len(expected) > 1 =>
       \A l \in ExpectedLines :
          Taken(seenLeast, l) + Cardinality(AutoOf(rs, l)) <= expected[l].quantity

NoneTwice(rs) == \A i, j \in DOMAIN rs : rs[i].serial = rs[j].serial => i = j

ReceiveIInv == ReceiveTyped /\ SeenLeast /\ NotLoaded /\ Fitting(rows) /\ NoneTwice(rows)

LEMMA TotalIsNat ==
    ASSUME NEW f, NEW S, IsFiniteSet(S), \A x \in S : f[x] \in Nat
    PROVE  Total(f, S) \in Nat
<1> DEFINE parts == {{x} \X (1..f[x]) : x \in S}
           part  == [x \in S |-> {x} \X (1..f[x])]
<1>1. IsFiniteSet(parts)
  <2>1. part \in Surjection(S, parts)
    BY DEF Surjection
  <2> QED
    BY <2>1, FS_Surjection
<1>2. \A p \in parts : IsFiniteSet(p)
  <2>1. ASSUME NEW x \in S PROVE IsFiniteSet({x} \X (1..f[x]))
    <3>1. IsFiniteSet({x})
      BY FS_Singleton
    <3>2. IsFiniteSet(1..f[x])
      BY FS_Interval
    <3> QED
      BY <3>1, <3>2, FS_Product
  <2> QED
    BY <2>1
<1>3. IsFiniteSet(UNION parts)
  BY <1>1, <1>2, FS_UNION
<1> QED
  BY <1>3, FS_CardinalityType DEF Total

LEMMA LineTyped ==
    ASSUME ReceiveTyped, NEW l \in ExpectedLines
    PROVE  expected[l].kind \in Kind /\ expected[l].quantity \in Nat
<1> DEFINE Line == [kind : Kind, quantity : Nat]
<1>0. expected \in Seq(Line) /\ l \in DOMAIN expected
  BY DEF ReceiveTyped, ExpectedLines
<1> HIDE DEF Line
<1>1. l \in 1..Len(expected)
  BY <1>0
<1>2. expected[l] \in Line
  BY <1>0, <1>1, ElementOfSeq
<1> QED
  BY <1>2 DEF Line

LEMMA LinesAreFinite ==
    ASSUME ReceiveTyped
    PROVE  ExpectedLines = 1..Len(expected) /\ Len(expected) \in Nat /\ IsFiniteSet(ExpectedLines)
<1>1. ExpectedLines = 1..Len(expected) /\ Len(expected) \in Nat
  BY DEF ReceiveTyped, ExpectedLines
<1> QED
  BY <1>1, FS_Interval

LEMMA BeforeIsNat ==
    ASSUME ReceiveTyped, NEW l \in ExpectedLines
    PROVE  Before(l) \in Nat
<1> DEFINE earlier == {m \in ExpectedLines : m < l /\ expected[m].kind = expected[l].kind}
           quantities == [m \in ExpectedLines |-> expected[m].quantity]
<1>1. IsFiniteSet(earlier)
  BY LinesAreFinite, FS_Subset
<1>2. \A m \in earlier : quantities[m] \in Nat
  BY LineTyped
<1>3. Total(quantities, earlier) \in Nat
  BY <1>1, <1>2, TotalIsNat
<1> QED
  BY <1>3 DEF Before

\* A line is allotted no more than it expects, and more the more devices there are.
LEMMA TakenFits ==
    ASSUME ReceiveTyped, NEW l \in ExpectedLines, NEW c \in [Kind -> Nat]
    PROVE  Taken(c, l) \in Nat /\ Taken(c, l) <= expected[l].quantity
<1>1. /\ c[expected[l].kind] \in Nat /\ expected[l].quantity \in Nat /\ Before(l) \in Nat
  BY LineTyped, BeforeIsNat
<1> QED
  BY <1>1 DEF Taken

LEMMA TakenGrows ==
    ASSUME ReceiveTyped, NEW l \in ExpectedLines, NEW c \in [Kind -> Nat], NEW d \in [Kind -> Nat],
           \A k \in Kind : c[k] <= d[k]
    PROVE  Taken(c, l) <= Taken(d, l)
<1>1. /\ c[expected[l].kind] \in Nat /\ d[expected[l].kind] \in Nat
      /\ c[expected[l].kind] <= d[expected[l].kind]
      /\ expected[l].quantity \in Nat /\ Before(l) \in Nat
  BY LineTyped, BeforeIsNat
<1> QED
  BY <1>1 DEF Taken

LEMMA RowsAreFinite ==
    ASSUME NEW rs \in Seq(RowType), NEW l
    PROVE  /\ IsFiniteSet(AutoOf(rs, l)) /\ Cardinality(AutoOf(rs, l)) \in Nat
           /\ ScannedFor(rs, l) \in Nat /\ Cardinality(AutoOf(rs, l)) <= ScannedFor(rs, l)
<1>1. IsFiniteSet(DOMAIN rs)
  BY FS_Interval
<1>2. IsFiniteSet({i \in DOMAIN rs : rs[i].line = l})
  BY <1>1, FS_Subset
<1>3. AutoOf(rs, l) \subseteq {i \in DOMAIN rs : rs[i].line = l}
  BY DEF AutoOf
<1> QED
  BY <1>2, <1>3, FS_Subset, FS_CardinalityType DEF ScannedFor

LEMMA NatMinimum ==
    ASSUME NEW T, T \subseteq Nat, T # {}
    PROVE  \E l \in T : \A m \in T : l <= m
<1> DEFINE Less == {ss \in Nat \X Nat : ss[1] < ss[2]}
<1>1. IsWellFoundedOn(Less, Nat)
  BY NatLessThanWellFounded DEF OpToRel
<1>2. PICK l \in T : \A m \in T : <<m, l>> \notin Less
  <2> HIDE DEF Less
  <2> QED
    BY <1>1, WFMin
<1>3. ASSUME NEW m \in T PROVE l <= m
  <2>1. m \in Nat /\ l \in Nat /\ ~(m < l)
    BY <1>2
  <2> QED
    BY <2>1
<1> QED
  BY <1>3

\* The line a new device is filled from.
LEMMA TargetOutstanding ==
    ASSUME ReceiveTyped, NotLoaded, NEW rs
    PROVE  /\ Target(rs) \in ExpectedLines \cup {0}
           /\ ~loaded => Target(rs) = 0
           /\ Target(rs) # 0 /\ pickedLine = 0 /\ Len(expected) > 1 => Outstanding(rs, Target(rs))
<1> DEFINE outstanding == {l \in ExpectedLines : Outstanding(rs, l)}
<1>1. CASE ~loaded
  BY <1>1 DEF Target
<1>2. CASE loaded /\ pickedLine # 0
  <2>1. Target(rs) = pickedLine
    BY <1>2 DEF Target
  <2> QED
    BY <1>2, <2>1 DEF ReceiveTyped
<1>3. CASE loaded /\ pickedLine = 0 /\ outstanding # {}
  <2>1. \E l \in outstanding : \A m \in outstanding : l <= m
    <3>1. outstanding \subseteq Nat
      BY LinesAreFinite
    <3> HIDE DEF outstanding
    <3> QED
      BY <1>3, <3>1, NatMinimum
  <2>2. Target(rs) = CHOOSE l \in outstanding : \A m \in outstanding : l <= m
    BY <1>3 DEF Target
  <2>3. Target(rs) \in outstanding
    <3> HIDE DEF outstanding
    <3> QED
      BY <2>1, <2>2
  <2> QED
    BY <1>3, <2>3
<1>4. CASE loaded /\ pickedLine = 0 /\ outstanding = {}
  <2>1. Target(rs) = IF Len(expected) = 1 THEN 1 ELSE 0
    BY <1>4 DEF Target
  <2>2. Len(expected) \in Nat /\ (Len(expected) = 1 => 1 \in ExpectedLines)
    BY LinesAreFinite
  <2>3. CASE Len(expected) = 1
    BY <1>4, <2>1, <2>2, <2>3
  <2>4. CASE Len(expected) # 1
    BY <1>4, <2>1, <2>4
  <2> QED
    BY <2>3, <2>4
<1> QED
  BY <1>1, <1>2, <1>3, <1>4

\* Rows as the page may hold them.
GoodRows(rs) ==
    /\ rs \in Seq(RowType) /\ Fitting(rs) /\ NoneTwice(rs)
    /\ ~loaded => \A i \in DOMAIN rs : rs[i].line = 0

LEMMA NewRow ==
    ASSUME ReceiveTyped, NotLoaded, NEW s \in Serial, NEW rs
    PROVE  /\ Row(s, Target(rs)) \in RowType
           /\ Row(s, Target(rs)).serial = s /\ Row(s, Target(rs)).line = Target(rs)
           /\ Row(s, Target(rs)).auto <=> pickedLine = 0
<1>1. FilledFrom(Target(rs)) \in RowKind
  BY TargetOutstanding, LineTyped DEF FilledFrom, RowKind
<1>2. Target(rs) \in ExpectedLines \cup {0}
  BY TargetOutstanding
<1> QED
  BY <1>1, <1>2 DEF Row, RowType

LEMMA AddSerialKeeps ==
    ASSUME ReceiveTyped, SeenLeast, NotLoaded, NEW rs, GoodRows(rs), NEW s \in Serial
    PROVE  GoodRows(AddSerial(rs, s))
<1>1. CASE s \in SerialsOf(rs)
  BY <1>1 DEF AddSerial
<1>2. CASE s \notin SerialsOf(rs)
  <2> DEFINE device == Row(s, Target(rs))
             new == Append(rs, device)
  <2>1. device \in RowType /\ device.serial = s /\ device.line = Target(rs) /\ (device.auto <=> pickedLine = 0)
    BY NewRow
  <2> HIDE DEF device
  <2>2. rs \in Seq(RowType) /\ Len(rs) \in Nat /\ DOMAIN rs = 1..Len(rs)
    BY DEF GoodRows
  <2>3. /\ new \in Seq(RowType) /\ DOMAIN new = 1..(Len(rs) + 1)
        /\ new[Len(rs) + 1] = device /\ \A i \in DOMAIN rs : new[i] = rs[i]
    BY <2>1, <2>2
  <2> HIDE DEF new
  <2>4. NoneTwice(new)
    <3>1. \A i \in DOMAIN rs : rs[i].serial # s
      BY <1>2 DEF SerialsOf
    <3> QED
      BY <2>1, <2>2, <2>3, <3>1 DEF NoneTwice, GoodRows
  <2>5. ASSUME ~loaded, NEW i \in DOMAIN new PROVE new[i].line = 0
    <3>1. Target(rs) = 0
      BY <2>5, TargetOutstanding
    <3> QED
      BY <2>1, <2>2, <2>3, <2>5, <3>1 DEF GoodRows
  <2>6. Fitting(new)
    <3> SUFFICES ASSUME Len(expected) > 1, NEW l \in ExpectedLines
                 PROVE  Taken(seenLeast, l) + Cardinality(AutoOf(new, l)) <= expected[l].quantity
      BY DEF Fitting
    <3>1. Taken(seenLeast, l) + Cardinality(AutoOf(rs, l)) <= expected[l].quantity
      BY DEF GoodRows, Fitting
    <3>2. CASE device.auto /\ device.line = l
      <4>1. AutoOf(new, l) = AutoOf(rs, l) \cup {Len(rs) + 1} /\ Len(rs) + 1 \notin AutoOf(rs, l)
        BY <2>2, <2>3, <3>2 DEF AutoOf
      <4>2. Cardinality(AutoOf(new, l)) = Cardinality(AutoOf(rs, l)) + 1
        BY <4>1, <2>2, RowsAreFinite, FS_AddElement
      <4>3. Outstanding(rs, l)
        <5>1. Target(rs) = l /\ pickedLine = 0 /\ l # 0
          BY <2>1, <3>2, LinesAreFinite
        <5> QED
          BY <5>1, TargetOutstanding
      <4>4. Taken(seenLeast, l) <= Taken(seen, l)
        BY TakenGrows DEF ReceiveTyped, SeenLeast
      <4>5. /\ Taken(seenLeast, l) \in Nat /\ Taken(seen, l) \in Nat /\ expected[l].quantity \in Nat
        BY TakenFits, LineTyped DEF ReceiveTyped
      <4>6. /\ Cardinality(AutoOf(rs, l)) \in Nat /\ ScannedFor(rs, l) \in Nat
            /\ Cardinality(AutoOf(rs, l)) <= ScannedFor(rs, l)
        BY <2>2, RowsAreFinite
      <4>7. Taken(seen, l) + ScannedFor(rs, l) < expected[l].quantity
        BY <4>3 DEF Outstanding
      <4> QED
        BY <4>2, <4>4, <4>5, <4>6, <4>7
    <3>3. CASE ~(device.auto /\ device.line = l)
      <4>1. AutoOf(new, l) = AutoOf(rs, l)
        BY <2>2, <2>3, <3>3 DEF AutoOf
      <4> QED
        BY <3>1, <4>1
    <3> QED
      BY <3>2, <3>3
  <2>7. AddSerial(rs, s) = new
    BY <1>2 DEF AddSerial, new, device
  <2> QED
    BY <2>3, <2>4, <2>5, <2>6, <2>7 DEF GoodRows
<1> QED
  BY <1>1, <1>2

\* Rows that come from good ones by renaming the places, without adding any, are good.
LEMMA FewerKeep ==
    ASSUME ReceiveTyped, NEW rs, GoodRows(rs), NEW new \in Seq(RowType),
           NEW from \in Injection(DOMAIN new, DOMAIN rs),
           \A i \in DOMAIN new :
              /\ new[i].serial = rs[from[i]].serial
              /\ new[i].auto => rs[from[i]].auto /\ new[i].line = rs[from[i]].line,
           ~loaded => \A i \in DOMAIN new : new[i].line = rs[from[i]].line
    PROVE  GoodRows(new)
<1>0. /\ from \in [DOMAIN new -> DOMAIN rs]
      /\ \A i, j \in DOMAIN new : from[i] = from[j] => i = j
  BY DEF Injection, IsInjective
<1>1. NoneTwice(new)
  BY <1>0 DEF NoneTwice, GoodRows
<1>2. ASSUME NEW l \in ExpectedLines
      PROVE  Cardinality(AutoOf(new, l)) <= Cardinality(AutoOf(rs, l))
  <2> DEFINE moved == [i \in AutoOf(new, l) |-> from[i]]
  <2>1. moved \in Injection(AutoOf(new, l), AutoOf(rs, l))
    BY <1>0 DEF Injection, IsInjective, AutoOf
  <2>2. IsFiniteSet(AutoOf(rs, l))
    BY RowsAreFinite DEF GoodRows
  <2> HIDE DEF moved
  <2> QED
    BY <2>1, <2>2, FS_Injection
<1>3. Fitting(new)
  <2> SUFFICES ASSUME Len(expected) > 1, NEW l \in ExpectedLines
               PROVE  Taken(seenLeast, l) + Cardinality(AutoOf(new, l)) <= expected[l].quantity
    BY DEF Fitting
  <2>1. Taken(seenLeast, l) + Cardinality(AutoOf(rs, l)) <= expected[l].quantity
    BY DEF GoodRows, Fitting
  <2>2. Taken(seenLeast, l) \in Nat /\ expected[l].quantity \in Nat
    BY TakenFits, LineTyped DEF ReceiveTyped
  <2>3. Cardinality(AutoOf(new, l)) \in Nat /\ Cardinality(AutoOf(rs, l)) \in Nat
    BY RowsAreFinite DEF GoodRows
  <2> QED
    BY <1>2, <2>1, <2>2, <2>3
<1> QED
  BY <1>0, <1>1, <1>3 DEF GoodRows

LEMMA ReceiveInitially == ReceiveInit => ReceiveIInv
<1> SUFFICES ASSUME ReceiveInit PROVE ReceiveIInv
  OBVIOUS
<1>1. ReceiveTyped
  BY ReceiveAssumption, EmptySeq DEF ReceiveInit, ReceiveTyped
<1>2. Fitting(rows)
  <2>1. rows = <<>> /\ rows \in Seq(RowType) /\ DOMAIN rows = {}
    BY EmptySeq DEF ReceiveInit
  <2>2. \A l : Cardinality(AutoOf(rows, l)) = 0
    BY <2>1, FS_EmptySet DEF AutoOf
  <2>3. \A l \in ExpectedLines : /\ Taken(seenLeast, l) \in Nat
                                 /\ Taken(seenLeast, l) <= expected[l].quantity
    BY <1>1, TakenFits DEF ReceiveTyped
  <2> QED
    BY <2>2, <2>3 DEF Fitting
<1>3. NoneTwice(rows) /\ NotLoaded /\ SeenLeast
  BY DEF ReceiveInit, NoneTwice, NotLoaded, SeenLeast
<1> QED
  BY <1>1, <1>2, <1>3 DEF ReceiveIInv

LEMMA SameLines ==
    ASSUME UNCHANGED expected
    PROVE  ExpectedLines' = ExpectedLines /\ RowType' = RowType
BY DEF ExpectedLines, RowType

LEMMA SameTaken ==
    ASSUME UNCHANGED expected, NEW l
    PROVE  Taken(seenLeast, l)' = Taken(seenLeast', l)
BY DEF Taken, Before, ExpectedLines

LEMMA GoodNow == ReceiveIInv => GoodRows(rows)
BY DEF ReceiveIInv, ReceiveTyped, GoodRows, NotLoaded

LEMMA SeqOf ==
    ASSUME NEW n \in Nat, NEW S, NEW f \in [1..n -> S]
    PROVE  f \in Seq(S)
BY SeqDef

\* A step that only changes rows.
LEMMA RowsStep ==
    ASSUME ReceiveIInv, GoodRows(rows'),
           UNCHANGED <<delivery, seenLeast, pickedLine, sending>>
    PROVE  ReceiveIInv'
<1>0. UNCHANGED <<lines, expected, received, kept, loaded, seen>>
  BY DEF delivery
<1>1. ExpectedLines' = ExpectedLines /\ RowType' = RowType
  BY <1>0, SameLines
<1>2. ReceiveTyped'
  BY <1>0, <1>1 DEF ReceiveIInv, ReceiveTyped, GoodRows
<1>3. SeenLeast' /\ NotLoaded'
  BY <1>0 DEF ReceiveIInv, SeenLeast, NotLoaded, GoodRows
<1>4. NoneTwice(rows)'
  BY DEF GoodRows, NoneTwice
<1>5. \A l : Taken(seenLeast, l)' = Taken(seenLeast, l)
  BY <1>0 DEF Taken, Before, ExpectedLines
<1>6. \A l : AutoOf(rows, l)' = AutoOf(rows', l)
  BY DEF AutoOf
<1>7. Fitting(rows)'
  BY <1>0, <1>1, <1>5, <1>6 DEF Fitting, GoodRows
<1> QED
  BY <1>2, <1>3, <1>4, <1>7 DEF ReceiveIInv

\* A step that leaves the rows and what they were counted against.
LEMMA CountsStep ==
    ASSUME ReceiveIInv, ReceiveTyped', SeenLeast', NotLoaded',
           UNCHANGED <<expected, rows, seenLeast>>
    PROVE  ReceiveIInv'
<1>1. \A l : Taken(seenLeast, l)' = Taken(seenLeast, l)
  BY DEF Taken, Before, ExpectedLines
<1>2. \A l : AutoOf(rows, l)' = AutoOf(rows, l)
  BY DEF AutoOf
<1>3. Fitting(rows)'
  BY <1>1, <1>2, SameLines DEF Fitting, ReceiveIInv
<1>4. NoneTwice(rows)'
  BY DEF NoneTwice, ReceiveIInv
<1> QED
  BY <1>3, <1>4 DEF ReceiveIInv

\* A step that counts against something else fits where no line was filled.
LEMMA FirstFits ==
    ASSUME ReceiveTyped, UNCHANGED expected, seenLeast' \in [Kind -> Nat],
           \A i \in DOMAIN rows' : rows'[i].line = 0
    PROVE  Fitting(rows)'
<1>1. ASSUME NEW l \in ExpectedLines
      PROVE  (Taken(seenLeast, l) + Cardinality(AutoOf(rows, l)))' <= expected[l].quantity
  <2>1. l # 0
    BY LinesAreFinite
  <2>2. AutoOf(rows, l)' = {}
    BY <2>1 DEF AutoOf
  <2>3. Cardinality(AutoOf(rows, l)') = 0
    BY <2>2, FS_EmptySet
  <2>4. Taken(seenLeast', l) \in Nat /\ Taken(seenLeast', l) <= expected[l].quantity
    BY TakenFits
  <2> QED
    BY <2>3, <2>4, SameTaken
<1> QED
  BY <1>1, SameLines DEF Fitting

\* Rows that are held against no line fit the lines there are.
LEMMA NoneAuto ==
    ReceiveTyped /\ (\A i \in DOMAIN rows : ~rows[i].auto) => Fitting(rows)
<1> SUFFICES ASSUME ReceiveTyped, \A i \in DOMAIN rows : ~rows[i].auto, NEW l \in ExpectedLines
             PROVE  Taken(seenLeast, l) + Cardinality(AutoOf(rows, l)) <= expected[l].quantity
  BY DEF Fitting
<1>1. AutoOf(rows, l) = {}
  BY DEF AutoOf
<1>2. Cardinality(AutoOf(rows, l)) = 0
  BY <1>1, FS_EmptySet
<1>3. Taken(seenLeast, l) \in Nat /\ Taken(seenLeast, l) <= expected[l].quantity
  BY TakenFits DEF ReceiveTyped
<1> QED
  BY <1>2, <1>3

LEMMA ReceiveStep == ReceiveIInv /\ [ReceiveNext]_receiveVars => ReceiveIInv'
<1> SUFFICES ASSUME ReceiveIInv, [ReceiveNext]_receiveVars PROVE ReceiveIInv'
  OBVIOUS
<1>t. ReceiveTyped /\ SeenLeast /\ NotLoaded /\ GoodRows(rows)
  BY GoodNow DEF ReceiveIInv
<1>r. rows \in Seq(RowType) /\ Len(rows) \in Nat /\ DOMAIN rows = 1..Len(rows)
  BY <1>t DEF ReceiveTyped
<1>1. CASE HandleScan
  <2>1. GoodRows(rows')
    BY <1>1, <1>t, AddSerialKeeps DEF HandleScan
  <2> QED
    BY <1>1, <2>1, RowsStep DEF HandleScan
<1>2. CASE HandlePaste
  <2>1. PICK s \in Serial, t \in Serial : rows' = AddSerial(AddSerial(rows, s), t)
    BY <1>2 DEF HandlePaste
  <2>2. GoodRows(AddSerial(rows, s))
    BY <1>t, AddSerialKeeps
  <2>3. GoodRows(rows')
    BY <1>t, <2>1, <2>2, AddSerialKeeps
  <2> QED
    BY <1>2, <2>3, RowsStep DEF HandlePaste
<1>3. CASE HandleSubmit
  <2>1. sending' \in Seq([serial : Serial, kind : RowKind])
    <3>1. sending' = [i \in 1..Len(rows) |-> [serial |-> rows[i].serial, kind |-> rows[i].kind]]
      BY <1>3, <1>r DEF HandleSubmit
    <3>2. \A i \in 1..Len(rows) : rows[i] \in RowType
      BY <1>r, ElementOfSeq
    <3>3. sending' \in [1..Len(rows) -> [serial : Serial, kind : RowKind]]
      BY <3>1, <3>2 DEF RowType
    <3> QED
      BY <1>r, <3>3, SeqOf
  <2>2. UNCHANGED <<lines, expected, received, kept, loaded, seen, seenLeast, rows, pickedLine>>
    BY <1>3 DEF HandleSubmit, delivery
  <2>3. ReceiveTyped' /\ SeenLeast' /\ NotLoaded'
    BY <1>t, <2>1, <2>2, SameLines DEF ReceiveTyped, SeenLeast, NotLoaded
  <2> QED
    BY <2>2, <2>3, CountsStep
<1>4. CASE SubmitStored
  <2> DEFINE count(k) == Cardinality({i \in DOMAIN sending : sending[i].kind = k})
  <2>1. /\ received' = [k \in Kind |-> received[k] + count(k)]
        /\ sending' = <<>> /\ UNCHANGED <<lines, expected, loaded, seen>>
        /\ Opened(seen) \/ UNCHANGED <<rows, pickedLine, seenLeast>>
    BY <1>4 DEF SubmitStored
  <2>2. \A k \in Kind : count(k) \in Nat
    <3>1. IsFiniteSet(DOMAIN sending)
      BY <1>t, FS_Interval DEF ReceiveTyped
    <3>2. ASSUME NEW k \in Kind PROVE IsFiniteSet({i \in DOMAIN sending : sending[i].kind = k})
      BY <3>1, FS_Subset
    <3> QED
      BY <3>2, FS_CardinalityType
  <2> HIDE DEF count
  <2>3. received' \in [Kind -> Nat]
    BY <1>t, <2>1, <2>2 DEF ReceiveTyped
  <2>4. sending' \in Seq([serial : Serial, kind : RowKind])
    BY <2>1, EmptySeq
  <2>5. CASE Opened(seen)
    <3>1. rows' = <<>> /\ pickedLine' = 0 /\ seenLeast' = seen
      BY <2>5 DEF Opened
    <3>2. rows' \in Seq(RowType') /\ DOMAIN rows' = {}
      BY <3>1, EmptySeq
    <3>3. ReceiveTyped' /\ SeenLeast' /\ NotLoaded'
      BY <1>t, <2>1, <2>3, <2>4, <3>1, <3>2, SameLines DEF ReceiveTyped, SeenLeast, NotLoaded
    <3>4. Fitting(rows)'
      BY <1>t, <2>1, <3>1, <3>2, FirstFits DEF ReceiveTyped
    <3>5. NoneTwice(rows)'
      BY <3>2 DEF NoneTwice
    <3> QED
      BY <3>3, <3>4, <3>5 DEF ReceiveIInv
  <2>6. CASE UNCHANGED <<rows, pickedLine, seenLeast>>
    <3>1. ReceiveTyped' /\ SeenLeast' /\ NotLoaded'
      BY <1>t, <2>1, <2>3, <2>4, <2>6, SameLines DEF ReceiveTyped, SeenLeast, NotLoaded
    <3> QED
      BY <2>1, <2>6, <3>1, CountsStep
  <2> QED
    BY <2>1, <2>5, <2>6
<1>5. CASE SubmitRefused
  <2>1. /\ UNCHANGED <<lines, expected, received, kept, loaded, seen, seenLeast, rows, pickedLine>>
        /\ sending' \in Seq([serial : Serial, kind : RowKind])
    BY <1>5, EmptySeq DEF SubmitRefused, delivery
  <2>2. ReceiveTyped' /\ SeenLeast' /\ NotLoaded'
    BY <1>t, <2>1, SameLines DEF ReceiveTyped, SeenLeast, NotLoaded
  <2> QED
    BY <2>1, <2>2, CountsStep
<1>6. CASE ReceivedElsewhere \/ CorrectedElsewhere
  <2>1. UNCHANGED <<lines, expected, kept, loaded, seen, seenLeast, rows, pickedLine, sending>>
    BY <1>6 DEF ReceivedElsewhere, CorrectedElsewhere
  <2>2. received' \in [Kind -> Nat]
    <3>1. CASE ReceivedElsewhere
      BY <1>t, <3>1 DEF ReceivedElsewhere, ReceiveTyped
    <3>2. CASE CorrectedElsewhere
      <4>1. PICK j \in Kind, k \in Kind :
               /\ j # k /\ received[j] > 0
               /\ received' = [received EXCEPT ![j] = @ - 1, ![k] = @ + 1]
        BY <3>2 DEF CorrectedElsewhere
      <4>2. received \in [Kind -> Nat] /\ received[j] - 1 \in Nat /\ received[k] + 1 \in Nat
        BY <1>t, <4>1 DEF ReceiveTyped
      <4> QED
        BY <4>1, <4>2
    <3> QED
      BY <1>6, <3>1, <3>2
  <2>3. ReceiveTyped' /\ SeenLeast' /\ NotLoaded'
    BY <1>t, <2>1, <2>2, SameLines DEF ReceiveTyped, SeenLeast, NotLoaded
  <2> QED
    BY <2>1, <2>3, CountsStep
<1>e. CASE EditedElsewhere
  <2>1. /\ UNCHANGED <<received, expected, kept, loaded, seen, seenLeast, rows, pickedLine, sending>>
        /\ lines' \in Deliveries /\ Len(lines') = Len(lines)
    BY <1>e DEF EditedElsewhere
  <2>2. lines' \in Seq([kind : Kind, quantity : Nat])
    BY <2>1, ReceiveAssumption
  <2>3. ReceiveTyped' /\ SeenLeast' /\ NotLoaded'
    BY <1>t, <2>1, <2>2, SameLines DEF ReceiveTyped, SeenLeast, NotLoaded
  <2> QED
    BY <2>1, <2>3, CountsStep
<1>7. CASE DeliveryFetched /\ loaded /\ expected = lines
  <2>1. /\ UNCHANGED <<lines, received, kept, loaded, expected, rows, pickedLine, sending>>
        /\ seen' = received /\ seenLeast' = Lesser(seenLeast, received)
    BY <1>7, <1>t DEF DeliveryFetched, ReceiveTyped
  <2>2. /\ seenLeast' \in [Kind -> Nat] /\ seen' \in [Kind -> Nat]
        /\ \A k \in Kind : seenLeast'[k] <= seen'[k] /\ seenLeast'[k] <= seenLeast[k]
    BY <1>t, <2>1 DEF ReceiveTyped, Lesser
  <2>3. ReceiveTyped' /\ SeenLeast' /\ NotLoaded'
    BY <1>t, <2>1, <2>2, SameLines DEF ReceiveTyped, SeenLeast, NotLoaded
  <2>4. Fitting(rows)'
    <3> SUFFICES ASSUME Len(expected) > 1, NEW l \in ExpectedLines
                 PROVE  Taken(seenLeast', l) + Cardinality(AutoOf(rows, l)) <= expected[l].quantity
      BY <2>1, SameLines, SameTaken DEF Fitting, AutoOf
    <3>1. Taken(seenLeast, l) + Cardinality(AutoOf(rows, l)) <= expected[l].quantity
      BY <1>t DEF GoodRows, Fitting
    <3>2. Taken(seenLeast', l) <= Taken(seenLeast, l)
      BY <1>t, <2>2, TakenGrows DEF ReceiveTyped
    <3>3. Taken(seenLeast', l) \in Nat /\ Taken(seenLeast, l) \in Nat /\ expected[l].quantity \in Nat
      BY <1>t, <2>2, TakenFits, LineTyped DEF ReceiveTyped
    <3>4. Cardinality(AutoOf(rows, l)) \in Nat
      BY <1>r, RowsAreFinite
    <3> QED
      BY <3>1, <3>2, <3>3, <3>4
  <2>5. NoneTwice(rows)'
    BY <2>1 DEF NoneTwice, ReceiveIInv
  <2> QED
    BY <2>3, <2>4, <2>5 DEF ReceiveIInv
<1>f. CASE DeliveryFetched /\ ~(loaded /\ expected = lines)
  <2>1. /\ UNCHANGED <<lines, received, kept, pickedLine, sending>>
        /\ loaded' = TRUE /\ seen' = received /\ expected' = lines /\ seenLeast' = received
        /\ rows' = [i \in DOMAIN rows |-> [rows[i] EXCEPT !.auto = FALSE]]
    BY <1>f DEF DeliveryFetched
  <2>2. ExpectedLines' = ExpectedLines /\ RowType' = RowType
    <3>1. DOMAIN lines = DOMAIN expected
      BY <1>t DEF ReceiveTyped
    <3> QED
      BY <2>1, <3>1 DEF ExpectedLines, RowType
  <2>3. /\ rows' \in [1..Len(rows) -> RowType]
        /\ \A i \in 1..Len(rows) : rows'[i].serial = rows[i].serial /\ ~rows'[i].auto
    <3>1. \A i \in 1..Len(rows) : rows[i] \in RowType
      BY <1>r, ElementOfSeq
    <3> QED
      BY <1>r, <2>1, <3>1 DEF RowType
  <2>4. rows' \in Seq(RowType) /\ DOMAIN rows' = 1..Len(rows)
    BY <1>r, <2>3, SeqOf
  <2>5. ReceiveTyped' /\ SeenLeast' /\ NotLoaded'
    BY <1>t, <2>1, <2>2, <2>4 DEF ReceiveTyped, SeenLeast, NotLoaded
  <2>6. Fitting(rows)'
    <3>1. (\A i \in DOMAIN rows : ~rows[i].auto)'
      BY <2>3, <2>4
    <3> QED
      BY <2>5, <3>1, NoneAuto, PTL
  <2>7. NoneTwice(rows)'
    BY <1>r, <1>t, <2>3, <2>4 DEF NoneTwice, GoodRows
  <2> QED
    BY <2>5, <2>6, <2>7 DEF ReceiveIInv
<1>8. ASSUME NEW l \in ExpectedLines, SelectItem(l) PROVE ReceiveIInv'
  <2>1. /\ loaded /\ pickedLine' \in {0, l}
        /\ UNCHANGED <<lines, expected, received, kept, loaded, seen, seenLeast, rows, sending>>
    BY <1>8 DEF SelectItem, delivery
  <2>2. ReceiveTyped' /\ SeenLeast' /\ NotLoaded'
    BY <1>t, <1>8, <2>1, SameLines DEF ReceiveTyped, SeenLeast, NotLoaded
  <2> QED
    BY <2>1, <2>2, CountsStep
<1> DEFINE same == [i \in DOMAIN rows |-> i]
<1>id. same \in Injection(DOMAIN rows, DOMAIN rows) /\ \A i \in DOMAIN rows : same[i] = i
  BY DEF Injection, IsInjective
<1> HIDE DEF same
<1>9. ASSUME NEW i \in DOMAIN rows, NEW l \in ExpectedLines \cup {0}, AssignItem(i, l)
      PROVE  ReceiveIInv'
  <2>0. loaded
    BY <1>9 DEF AssignItem
  <2>1. rows' = [rows EXCEPT ![i] = [rows[i] EXCEPT !.line = l,
                                                    !.kind = IF l = 0 THEN @ ELSE FilledFrom(l),
                                                    !.auto = FALSE]]
    BY <1>9 DEF AssignItem
  <2> DEFINE device == [rows[i] EXCEPT !.line = l, !.kind = IF l = 0 THEN @ ELSE FilledFrom(l),
                                    !.auto = FALSE]
  <2>2. rows[i] \in RowType
    BY <1>r, ElementOfSeq
  <2>3. device \in RowType /\ device.serial = rows[i].serial /\ ~device.auto
    <3>1. l # 0 => FilledFrom(l) \in RowKind
      BY <1>t, LineTyped DEF FilledFrom, RowKind
    <3> QED
      BY <2>2, <3>1 DEF RowType
  <2>4. rows' = [rows EXCEPT ![i] = device]
    BY <2>1
  <2> HIDE DEF device
  <2>5. /\ rows' \in [1..Len(rows) -> RowType]
        /\ \A j \in DOMAIN rows : /\ rows'[j].serial = rows[j].serial
                                  /\ rows'[j].auto => rows[j].auto /\ rows'[j].line = rows[j].line
    BY <1>r, <2>3, <2>4
  <2>6. rows' \in Seq(RowType) /\ DOMAIN rows' = 1..Len(rows)
    BY <1>r, <2>5, SeqOf
  <2>7. GoodRows(rows')
    BY <1>t, <1>r, <1>id, <2>0, <2>5, <2>6, FewerKeep
  <2> QED
    BY <1>9, <2>7, RowsStep DEF AssignItem
<1>10. ASSUME NEW i \in DOMAIN rows, UpdateDevice(i) PROVE ReceiveIInv'
  <2>1. PICK k \in Typed : rows' = [rows EXCEPT ![i].kind = k]
    BY <1>10 DEF UpdateDevice
  <2> DEFINE device == [rows[i] EXCEPT !.kind = k]
  <2>2. rows[i] \in RowType
    BY <1>r, ElementOfSeq
  <2>3. /\ device \in RowType /\ device.serial = rows[i].serial /\ device.line = rows[i].line
        /\ device.auto = rows[i].auto
    BY <2>2 DEF RowType, RowKind
  <2>4. rows' = [rows EXCEPT ![i] = device]
    BY <2>1
  <2> HIDE DEF device
  <2>5. /\ rows' \in [1..Len(rows) -> RowType]
        /\ \A j \in DOMAIN rows : /\ rows'[j].serial = rows[j].serial
                                  /\ rows'[j].line = rows[j].line
                                  /\ rows'[j].auto => rows[j].auto
    BY <1>r, <2>3, <2>4
  <2>6. rows' \in Seq(RowType) /\ DOMAIN rows' = 1..Len(rows)
    BY <1>r, <2>5, SeqOf
  <2>7. GoodRows(rows')
    BY <1>t, <1>r, <1>id, <2>5, <2>6, FewerKeep
  <2> QED
    BY <1>10, <2>7, RowsStep DEF UpdateDevice
<1>11. ASSUME NEW i \in DOMAIN rows, RemoveDevice(i) PROVE ReceiveIInv'
  <2> DEFINE front == SubSeq(rows, 1, i - 1)
             back  == SubSeq(rows, i + 1, Len(rows))
             from  == [j \in 1..(Len(rows) - 1) |-> IF j < i THEN j ELSE j + 1]
  <2>1. rows' = front \o back
    BY <1>11 DEF RemoveDevice
  <2>2. /\ front \in Seq(RowType) /\ Len(front) = i - 1
        /\ \A j \in 1..(i - 1) : front[j] = rows[j]
    BY <1>r, SubSeqProperties
  <2>3. /\ back \in Seq(RowType) /\ Len(back) = Len(rows) - i
        /\ \A j \in 1..(Len(rows) - i) : back[j] = rows[i + j]
    BY <1>r, SubSeqProperties
  <2> HIDE DEF front, back
  <2>c. /\ rows' \in Seq(RowType) /\ Len(rows') = Len(front) + Len(back)
        /\ \A j \in 1..(Len(front) + Len(back)) :
              rows'[j] = IF j <= Len(front) THEN front[j] ELSE back[j - Len(front)]
    BY <2>1, <2>2, <2>3, ConcatProperties
  <2>i. i \in Nat /\ 1 <= i /\ i <= Len(rows) /\ Len(rows) \in Nat
    BY <1>r
  <2>p. ASSUME NEW j \in 1..(Len(rows) - 1)
        PROVE  rows'[j] = IF j < i THEN front[j] ELSE back[j - (i - 1)]
    <3>1. Len(front) = i - 1 /\ Len(front) + Len(back) = Len(rows) - 1
      BY <2>i, <2>2, <2>3
    <3>2. rows'[j] = IF j <= Len(front) THEN front[j] ELSE back[j - Len(front)]
      BY <2>c, <3>1
    <3>3. j \in Int /\ (j <= i - 1 <=> j < i)
      BY <2>i
    <3> QED
      BY <3>1, <3>2, <3>3
  <2>4. rows' \in Seq(RowType) /\ Len(rows') = Len(rows) - 1
    BY <2>c, <2>i, <2>2, <2>3
  <2>5. ASSUME NEW j \in 1..(Len(rows) - 1) PROVE rows'[j] = rows[from[j]]
    <3>1. CASE j < i
      <4>1. rows'[j] = front[j] /\ from[j] = j /\ j \in 1..(i - 1)
        BY <2>p, <2>i, <3>1
      <4> QED
        BY <2>2, <4>1
    <3>2. CASE ~(j < i)
      <4>1. rows'[j] = back[j - (i - 1)] /\ from[j] = j + 1
        BY <2>p, <3>2
      <4>2. j - (i - 1) \in 1..(Len(rows) - i) /\ i + (j - (i - 1)) = j + 1
        BY <2>i, <3>2
      <4> QED
        BY <2>3, <4>1, <4>2
    <3> QED
      BY <3>1, <3>2
  <2>6. from \in Injection(DOMAIN rows', DOMAIN rows)
    BY <1>r, <2>4 DEF Injection, IsInjective
  <2> HIDE DEF from
  <2>7. GoodRows(rows')
    BY <1>t, <2>4, <2>5, <2>6, FewerKeep DEF GoodRows
  <2> QED
    BY <1>11, <2>7, RowsStep DEF RemoveDevice
<1>12. CASE UNCHANGED receiveVars
  <2>1. UNCHANGED <<lines, expected, received, kept, loaded, seen, seenLeast, rows, pickedLine, sending>>
    BY <1>12 DEF receiveVars
  <2>2. ReceiveTyped' /\ SeenLeast' /\ NotLoaded'
    BY <1>t, <2>1, SameLines DEF ReceiveTyped, SeenLeast, NotLoaded
  <2> QED
    BY <2>1, <2>2, CountsStep
<1> QED
  BY <1>1, <1>2, <1>3, <1>4, <1>5, <1>6, <1>e, <1>7, <1>f, <1>8, <1>9,
     <1>10, <1>11, <1>12 DEF ReceiveNext

LEMMA SerialsCounted ==
    ASSUME NEW rs \in Seq(RowType), NoneTwice(rs)
    PROVE  Cardinality(SerialsOf(rs)) = Len(rs)
<1> DEFINE serial == [i \in 1..Len(rs) |-> rs[i].serial]
<1>1. DOMAIN rs = 1..Len(rs) /\ Len(rs) \in Nat
  OBVIOUS
<1>2. serial \in Bijection(1..Len(rs), SerialsOf(rs))
  BY <1>1 DEF Bijection, Injection, Surjection, IsInjective, NoneTwice, SerialsOf
<1>3. IsFiniteSet(1..Len(rs)) /\ Cardinality(1..Len(rs)) = Len(rs)
  BY <1>1, FS_Interval
<1> HIDE DEF serial
<1>4. ExistsBijection(1..Len(rs), SerialsOf(rs))
  BY <1>2 DEF ExistsBijection
<1> QED
  BY <1>3, <1>4, FS_Bijection

LEMMA ReceiveFits == ReceiveIInv => AutoFillFits
<1> SUFFICES ASSUME ReceiveIInv PROVE AutoFillFits
  OBVIOUS
<1>1. Cardinality(SerialsOf(rows)) = Len(rows)
  BY SerialsCounted DEF ReceiveIInv, ReceiveTyped
<1> QED
  BY <1>1 DEF ReceiveIInv, AutoFillFits, Fitting, AutoOf

\* The inductive invariant of the receiving page, for every delivery and any number of rows.
THEOREM ReceiveInvariant == ReceiveSpec => []ReceiveIInv
<1> QED
  BY ReceiveInitially, ReceiveStep, PTL DEF ReceiveSpec

\* The page fills no line beyond what it expects and puts no serial into two rows, whatever others
\* receive meanwhile.
THEOREM LinesAreNotOverfilled == ReceiveSpec => []AutoFillFits
<1> QED
  BY ReceiveInvariant, ReceiveFits, PTL

================================================================================

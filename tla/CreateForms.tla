------------------------------ MODULE CreateForms ------------------------------
(***************************************************************************)
(* The create forms of the five ticket pages: the client, the assets and,  *)
(* for a shipment, the end user of a new ticket.  An end user can be       *)
(* picked from the list, created from the list, or left as a typed name,   *)
(* which the submit handler then matches with a known end user or creates  *)
(* before it sends the ticket.  A retrieval is a full-cycle one here: only *)
(* that names an end user.                                                 *)
(***************************************************************************)
EXTENDS Naturals, FiniteSets, Sequences

CONSTANTS Client, Name,
          FormPage,     \* the pages to look at
          Owner,        \* Owner[a]: the client of asset a
          MaxEndUsers,  \* bound: end users created
          MaxTickets,   \* bound: times the form is submitted
          MaxSwitches,  \* bound: times the client is chosen
          NoClient

Asset == DOMAIN Owner

ASSUME FormAssumption ==
    /\ FormPage \subseteq {"repair", "resale", "disposal", "deployment", "retrieval"}
    /\ NoClient \notin Client
    /\ \A a \in Asset : Owner[a] \in Client

VARIABLES at,           \* the page
          client,       \* the client chosen in the form
          picked,       \* the asset, or the shipment's assets
          typed,        \* the text of the end-user box
          linked,       \* the end user linked to it, 0 for none
          endUser,      \* the server's end users, in order of creation
          known,        \* known[c]: those the cached list of client c has, or of NoClient
          creating,     \* the "+ Create" requests in flight
          submit,       \* the submit handlers in flight
          ticket,       \* the ticket the server accepted last
          pressed,      \* times the form was submitted
          switches,     \* times the client was chosen
          hasty         \* names asked for while the list was behind or they were being created

formVars == <<at, client, picked, typed, linked, endUser, known, creating, submit, ticket,
              pressed, switches, hasty>>

\* The forms: whether a box asks for an end user; several assets may be ticked, and stay so when
\* another client is chosen; the client is a filter of the page, which outlives the form; and the
\* text of the box outlives it.
RepairForm == [ships |-> FALSE, ticks |-> FALSE, filter |-> FALSE, keepsText |-> FALSE]

ResaleForm == RepairForm

DisposalForm == RepairForm

DeploymentForm == [ships |-> TRUE, ticks |-> TRUE, filter |-> TRUE, keepsText |-> FALSE]

RetrievalForm == [ships |-> TRUE, ticks |-> FALSE, filter |-> FALSE, keepsText |-> TRUE]

Form == [repair |-> RepairForm, resale |-> ResaleForm, disposal |-> DisposalForm,
         deployment |-> DeploymentForm, retrieval |-> RetrievalForm][at]

Ships == Form.ships

\* The box is empty.
NoText == ""

User == 1..Len(endUser)

\* Where the client is a filter, no client is every client.
OfClient(c) == {u \in User : c \in {endUser[u].client, NoClient}}

\* The assets the form lists are those of the chosen client.
Pickable == {a \in Asset : client = Owner[a] \/ (client = NoClient /\ Form.filter)}

FormInit ==
    /\ at \in FormPage
    /\ client = NoClient /\ picked = {} /\ typed = NoText /\ linked = 0
    /\ endUser \in {<<>>} \cup {<<[client |-> c, name |-> n]>> : c \in Client, n \in Name}
    /\ known = [c \in Client \cup {NoClient} |-> {}]
    /\ creating = {} /\ submit = {} /\ ticket = {} /\ pressed = 0 /\ switches = 0 /\ hasty = {}

\* Mutant: the asset is kept.
ChooseClientKeep ==
    \E c \in (Client \cup {NoClient}) \ {client} :
        /\ switches < MaxSwitches
        /\ switches' = switches + 1
        /\ client' = c
        /\ UNCHANGED <<at, picked, typed, linked, endUser, known, creating, submit, ticket,
                       pressed, hasty>>

\* Choosing a client forgets the asset, on every page but deployment; nobody forgets the end user.
ChooseClient ==
    \E c \in (Client \cup {NoClient}) \ {client} :
        /\ switches < MaxSwitches
        /\ switches' = switches + 1
        /\ client' = c
        /\ picked' = IF Form.ticks THEN picked ELSE {}
        /\ UNCHANGED <<at, typed, linked, endUser, known, creating, submit, ticket, pressed,
                       hasty>>

\* One asset from a select; for a deployment, any of those shown, by box, by paste or all at once.
PickAssets ==
    /\ submit = {}
    /\ IF Form.ticks
       THEN \E add \in SUBSET Pickable \ {{}} :
               picked' = IF add \subseteq picked THEN picked \ add ELSE picked \cup add
       ELSE \E a \in Pickable : picked' = {a}
    /\ UNCHANGED <<at, client, typed, linked, endUser, known, creating, submit, ticket, pressed,
                   switches, hasty>>

\* The list of the client's end users arrives, on the deployment page before one is chosen too.
ListArrives ==
    /\ Ships /\ (client = NoClient => Form.filter)
    /\ known' = [known EXCEPT ![client] = OfClient(client)]
    /\ UNCHANGED <<at, client, picked, typed, linked, endUser, creating, submit, ticket,
                   pressed, switches, hasty>>

\* Mutant: it does not.
TypeNameKeepLink ==
    \E n \in Name \cup {NoText} :
        /\ Ships /\ n # typed
        /\ typed' = n
        /\ UNCHANGED <<at, client, picked, linked, endUser, known, creating, submit, ticket,
                       pressed, switches, hasty>>

\* Typing drops the link.
TypeName ==
    \E n \in Name \cup {NoText} :
        /\ Ships /\ n # typed
        /\ typed' = n /\ linked' = 0
        /\ UNCHANGED <<at, client, picked, endUser, known, creating, submit, ticket, pressed,
                       switches, hasty>>

ListedFor(c) == known[c]

PickListed ==
    \E u \in ListedFor(client) :
        /\ Ships
        /\ linked' = u /\ typed' = endUser[u].name
        /\ UNCHANGED <<at, client, picked, endUser, known, creating, submit, ticket, pressed,
                       switches, hasty>>

\* Mutant: the typed name is not looked up.
MatchesNever(c, n) == {}

Matches(c, n) == {u \in ListedFor(c) : endUser[u].name = n}

\* The list may not have the name yet although the client has, or is about to.
Haste == IF \/ known[client] # OfClient(client)
            \/ [client |-> client, name |-> typed] \in creating
            \/ \E s \in submit : s.step = "create" /\ s.client = client /\ s.name = typed
         THEN {<<client, typed>>} ELSE {}

\* "+ Create" is offered for a name the list does not have, one request at a time.
CreateListed ==
    /\ Ships /\ typed # NoText /\ client # NoClient /\ creating = {}
    /\ Matches(client, typed) = {}
    /\ creating' = {[client |-> client, name |-> typed]}
    /\ hasty' = hasty \cup Haste
    /\ UNCHANGED <<at, client, picked, typed, linked, endUser, known, submit, ticket, pressed,
                   switches>>

CreateUser(c, n) == /\ Len(endUser) < MaxEndUsers
                    /\ endUser' = Append(endUser, [client |-> c, name |-> n])

\* The answer links the new end user and shows his name, whatever was typed meanwhile.
ListedCreated ==
    \E k \in creating :
        /\ CreateUser(k.client, k.name)
        /\ linked' = Len(endUser') /\ typed' = k.name
        /\ creating' = {}
        /\ UNCHANGED <<at, client, picked, known, submit, ticket, pressed, switches, hasty>>

ListedFailed ==
    /\ creating # {}
    /\ creating' = {}
    /\ UNCHANGED <<at, client, picked, typed, linked, endUser, known, submit, ticket, pressed,
                   switches, hasty>>

\* The handler: what the form holds when the button is pressed, and the end user it resolves.
\* The button is disabled once the ticket is sent, not while an end user is created before it.
Ready == /\ client # NoClient /\ picked # {}
         /\ at = "retrieval" => (linked # 0 \/ typed # NoText)

Sending == \E s \in submit : s.step = "send"

PressSubmit ==
    /\ Ready /\ ~Sending
    /\ pressed < MaxTickets
    /\ pressed' = pressed + 1
    /\ LET named == Matches(client, typed)
           step  == IF Ships /\ typed # NoText /\ linked = 0 /\ named = {} THEN "create" ELSE "send"
           user  == IF linked # 0 THEN linked
                    ELSE IF Ships /\ typed # NoText /\ named # {} THEN CHOOSE u \in named : TRUE
                    ELSE 0
       IN /\ submit' = submit \cup {[no |-> pressed, step |-> step,
                                     client |-> client, assets |-> picked, name |-> typed,
                                     user |-> user]}
          /\ hasty' = IF step = "create" THEN hasty \cup Haste ELSE hasty
    /\ UNCHANGED <<at, client, picked, typed, linked, endUser, known, creating, ticket, switches>>

\* The typed name is created; the list is refetched, the form keeps its text and no link.
SubmitCreates ==
    \E s \in submit :
        /\ s.step = "create"
        /\ CreateUser(s.client, s.name)
        /\ submit' = (submit \ {s}) \cup {[s EXCEPT !.step = "send", !.user = Len(endUser')]}
        /\ UNCHANGED <<at, client, picked, typed, linked, known, creating, ticket, pressed,
                       switches, hasty>>

\* "Could not create end user": nothing is sent.
SubmitGivesUp ==
    \E s \in submit :
        /\ s.step = "create"
        /\ submit' = submit \ {s}
        /\ UNCHANGED <<at, client, picked, typed, linked, endUser, known, creating, ticket,
                       pressed, switches, hasty>>

\* The services take only assets of the ticket's client; none looks at the end user's client.
TicketAccepted ==
    \E s \in submit :
        /\ s.step = "send"
        /\ \A a \in s.assets : Owner[a] = s.client
        /\ ticket' = {s}
        /\ submit' = submit \ {s}
        \* the form closes and starts anew; the deployment form keeps its client, a page filter
        /\ client' = IF Form.filter THEN client ELSE NoClient
        /\ picked' = {} /\ typed' = NoText /\ linked' = 0
        /\ UNCHANGED <<at, endUser, known, creating, pressed, switches, hasty>>

\* Another guard of the service refused it: the form stays as it is.
TicketRefused ==
    \E s \in submit :
        /\ s.step = "send"
        /\ submit' = submit \ {s}
        /\ UNCHANGED <<at, client, picked, typed, linked, endUser, known, creating, ticket,
                       pressed, switches, hasty>>

\* Cancel.  The retrieval form forgets everything but the text of the box.
CloseForm ==
    /\ client' = IF Form.filter THEN client ELSE NoClient
    /\ picked' = {} /\ linked' = 0
    /\ typed' = IF Form.keepsText THEN typed ELSE NoText
    /\ UNCHANGED <<at, endUser, known, creating, submit, ticket, pressed, switches, hasty>>

CreateFormNext ==
    \/ ChooseClient \/ PickAssets \/ ListArrives
    \/ TypeName \/ PickListed \/ CreateListed \/ ListedCreated \/ ListedFailed
    \/ PressSubmit \/ SubmitCreates \/ SubmitGivesUp \/ TicketAccepted \/ TicketRefused \/ CloseForm

FormSpec == FormInit /\ [][CreateFormNext]_formVars

--------------------------------------------------------------------------------
(* What is sent has assets of the client it names.  The deployment form alone sends assets that
   were picked for another client and are no longer shown; its service then refuses the order. *)
SendsItsAssets ==
    \A s \in submit : at # "deployment" => \A a \in s.assets : Owner[a] = s.client

(* A ticket gets the end user whose name the form showed when it was submitted, through every
   order of typing, picking, late answers and inline creation. *)
NamedUser ==
    \A t \in ticket : /\ t.user # 0 => endUser[t.user].name = t.name
                      /\ t.user = 0 => t.name = NoText \/ ~Ships

(* A client gets an end user's name twice only when it was asked for in haste: from a list that was
   behind, or while it was being created already, which a second press of the button can do. *)
NameOnce ==
    \A u, v \in User :
        (u < v /\ endUser[u] = endUser[v]) => <<endUser[u].client, endUser[u].name>> \in hasty
================================================================================

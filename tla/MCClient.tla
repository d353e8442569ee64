------------------------------- MODULE MCClient -------------------------------
(***************************************************************************)
(* The web client for TLC: a behaviour exercises one part of it, so that   *)
(* the states of the parts, which share none, add up.                      *)
(***************************************************************************)
EXTENDS TicketPages, CreateForms, Access, ScreenCache, TLC

CONSTANTS a1, a2, c1, c2,
          Parts     \* the parts of the client to look at

VARIABLE focus          \* the part of the client in use

allVars == <<focus, ticketVars, formVars, accessVars, cacheVars>>

\* An asset of each client.
Owners == a1 :> c1 @@ a2 :> c2

\* The two names are alike, and so are the two clients with their assets.
Alike == Permutations(Name) \cup {c1 :> c2 @@ c2 :> c1 @@ a1 :> a2 @@ a2 :> a1}

\* A part that is not in use begins in one way only.
OthersFixed ==
    \* the create dialog of a row's page is looked at in the behaviours that begin without
    \* the ticket
    /\ (status = "none") = (focus = "form")
    /\ focus \notin {"rows", "form"} => page = "repair" /\ role = "reader" /\ status = "pending"
    \* what the roles make of a row is looked at in the behaviours that begin with it; where the
    \* dialog is opened, on each of the five pages, the user has the most that page tells apart
    /\ focus = "form" => (role = "approver") = (page \in {"repair", "disposal"}) /\ role # "reader"
    /\ focus # "create" => at = "repair" /\ endUser = <<>>
    /\ focus # "cache" => change = CHOOSE c \in RetrievalChanges : TRUE
    /\ focus # "cache" => key = "assets"

Init == /\ focus \in Parts
        /\ TicketInit /\ FormInit /\ AccessInit /\ CacheInit
        /\ OthersFixed

Next ==
    \/ /\ focus \in {"rows", "form"}
       /\ RowNext
       /\ UNCHANGED <<focus, formVars, accessVars, cacheVars>>
    \/ /\ focus = "form"
       /\ FormNext
       /\ UNCHANGED <<focus, formVars, accessVars, cacheVars>>
    \/ /\ focus = "create"
       /\ CreateFormNext
       /\ UNCHANGED <<focus, ticketVars, accessVars, cacheVars>>
    \/ /\ focus = "session"
       /\ AccessNext
       /\ UNCHANGED <<focus, ticketVars, formVars, cacheVars>>
    \/ /\ focus = "cache"
       /\ CacheNext
       /\ UNCHANGED <<focus, ticketVars, formVars, accessVars>>

Spec == Init /\ [][Next]_allVars
===============================================================================

------------------------------- MODULE OrderEdits -------------------------------
(***************************************************************************)
(* DeploymentService after an order is created: the transport charge and   *)
(* the end user are edited (update, updateTransportCharge) and the order   *)
(* moves on (updateStatus).  An edit reads the order and what the ledger   *)
(* has for its transport, writes the order together with its assets, and   *)
(* then posts the difference to the charge it was asked for.               *)
(***************************************************************************)
EXTENDS Backend

CONSTANTS Amount,       \* transport charges an operator may ask for, priced
          User,         \* end users of the client
          Shipped,      \* the assets of the order
          MaxEdits      \* bound: edits

ASSUME OrderEditsAssumption ==
    /\ Amount \subseteq Nat
    /\ MaxEdits \in Nat

VARIABLES order,        \* the deployment_orders row
          holder,       \* asset -> its currentEndUserId
          away,         \* the assets that are still deployed
          billed,       \* the sum of the order's TRANSPORT rows
          changing,     \* handler -> the call it is serving
          edits,        \* edits begun
          wasted,       \* calls that failed
          asked,        \* ghost: the amount of the last edit that answered
          mixed         \* ghost: an edit overlapped another or failed half-way

orderVars == <<order, holder, away, billed, changing, edits, wasted, asked, mixed>>

OrderStatus == {"pending", "in_transit", "delivered", "cancelled"}

\* What a call has read of the order, and what it was asked to write.
EditRecord == [at     : {"idle", "write", "post", "move"},
               status : OrderStatus,            \* as read
               user   : User,                   \* as read
               billed : Int,                    \* the transport total as read
               toUser : SUBSET User,            \* none: the end user is not edited
               amount : SUBSET Amount,          \* none: the charge is not edited
               next   : OrderStatus]

Free == [at |-> "idle", status |-> "pending", user |-> CHOOSE u \in User : TRUE,
         billed |-> 0, toUser |-> {}, amount |-> {}, next |-> "pending"]

OrderInit ==
    /\ \E u \in User, n \in Amount :
         /\ order = [status |-> "pending", user |-> u]
         /\ holder = [a \in Shipped |-> u]
         /\ billed = n
         /\ asked = n
    /\ away = Shipped
    /\ changing = [h \in Handler |-> Free]
    /\ edits = 0
    /\ wasted = 0
    /\ mixed = FALSE

Answers(h) == changing' = [changing EXCEPT ![h] = Free]

NotFree(h) == changing[h] # Free

Editing(h) == changing[h].at \in {"write", "post"}

(***************************************************************************)
(* update and updateTransportCharge                                        *)
(***************************************************************************)
AtMostOne(S) == {{}} \cup {{x} : x \in S}

\* findOne reads the order and the transport total.  A charge is not edited on an
\* order that was cancelled by then.  What else an edit may change are labels: with
\* nothing but a charge it goes straight to the ledger, as updateTransportCharge.
EditOrder(h, users, amount) ==
    /\ changing[h] = Free
    /\ edits < MaxEdits
    /\ users \cup amount # {}
    /\ amount # {} => order.status # "cancelled"
    /\ changing' = [changing EXCEPT ![h] =
         [Free EXCEPT !.at = IF users = {} THEN "post" ELSE "write",
                      !.status = order.status, !.user = order.user,
                      !.billed = billed, !.toUser = users, !.amount = amount]]
    /\ edits' = edits + 1
    /\ mixed' = (mixed \/ \E g \in Handler : Editing(g))
    /\ UNCHANGED <<order, holder, away, billed, wasted, asked>>

\* Mutant: the assets do not follow.
EditWriteOrderOnly(h) ==
    /\ changing[h].at = "write"
    /\ \E u \in changing[h].toUser : order' = [order EXCEPT !.user = u]
    /\ IF changing[h].amount = {}
       THEN Answers(h)
       ELSE changing' = [changing EXCEPT ![h].at = "post"]
    /\ UNCHANGED <<holder, away, billed, edits, wasted, asked, mixed>>

\* One transaction writes the order; if the end user is another than the one read,
\* the assets still deployed under the one read follow.
EditWrite(h) ==
    /\ changing[h].at = "write"
    /\ \E u \in changing[h].toUser :
         /\ order' = [order EXCEPT !.user = u]
         /\ holder' = [a \in Shipped |->
              IF a \in away /\ holder[a] = changing[h].user THEN u ELSE holder[a]]
    /\ IF changing[h].amount = {}
       THEN Answers(h)
       ELSE changing' = [changing EXCEPT ![h].at = "post"]
    /\ UNCHANGED <<away, billed, edits, wasted, asked, mixed>>

\* Mutant: the whole amount is posted, not the difference.
EditPostWhole(h) ==
    /\ changing[h].at = "post"
    /\ \E n \in changing[h].amount : billed' = billed + n /\ asked' = n
    /\ Answers(h)
    /\ UNCHANGED <<order, holder, away, edits, wasted, mixed>>

\* The difference to the total read at the beginning is posted; none if it is zero.
EditPost(h) ==
    /\ changing[h].at = "post"
    /\ \E n \in changing[h].amount :
         /\ billed' = billed + (n - changing[h].billed)
         /\ asked' = n
    /\ Answers(h)
    /\ UNCHANGED <<order, holder, away, edits, wasted, mixed>>

(***************************************************************************)
(* updateStatus, and what else moves the assets                            *)
(***************************************************************************)
OrderTransitions ==
    [s \in OrderStatus |-> CASE s = "pending" -> {"in_transit", "cancelled"}
                             [] s = "in_transit" -> {"delivered", "cancelled"}
                             [] s \in {"delivered", "cancelled"} -> {}]

MoveOrder(h, s) ==
    /\ changing[h] = Free
    /\ s \in OrderTransitions[order.status]
    /\ changing' = [changing EXCEPT ![h] =
         [Free EXCEPT !.at = "move", !.status = order.status, !.next = s]]
    /\ UNCHANGED <<order, holder, away, billed, edits, wasted, asked, mixed>>

\* The transition was checked on the row read before.
MoveWrite(h) ==
    /\ changing[h].at = "move"
    /\ order' = [order EXCEPT !.status = changing[h].next]
    /\ Answers(h)
    /\ UNCHANGED <<holder, away, billed, edits, wasted, asked, mixed>>

\* A retrieval brings an asset back.
ComeBack(a) ==
    /\ a \in away
    /\ away' = away \ {a}
    /\ UNCHANGED <<order, holder, billed, changing, edits, wasted, asked, mixed>>

OrderFail(h) ==
    /\ NotFree(h)
    /\ wasted < MaxFailures
    /\ wasted' = wasted + 1
    /\ Answers(h)
    /\ UNCHANGED <<order, holder, away, billed, edits, asked, mixed>>

OrderNext ==
    \/ \E a \in Shipped : ComeBack(a)
    \/ \E h \in Handler :
         \/ \E users \in AtMostOne(User), amount \in AtMostOne(Amount) :
              EditOrder(h, users, amount)
         \/ EditWrite(h)
         \/ EditPost(h)
         \/ \E s \in OrderStatus : MoveOrder(h, s)
         \/ MoveWrite(h)
         \/ OrderFail(h)

OrderSpec == OrderInit /\ [][OrderNext]_orderVars

(***************************************************************************)
(* Properties                                                              *)
(***************************************************************************)
OrderTypeOK ==
    /\ order \in [status : OrderStatus, user : User]
    /\ holder \in [Shipped -> User]
    /\ away \subseteq Shipped
    /\ billed \in Int
    /\ changing \in [Handler -> EditRecord]
    /\ edits \in 0..MaxEdits
    /\ wasted \in 0..MaxFailures
    /\ asked \in Amount
    /\ mixed \in BOOLEAN

\* As long as edits do not overlap, the transport billed for the order is what the
\* last edit of it asked for, whatever failed in between.
BilledAsAsked == ~ mixed => billed = asked

\* ... and the devices that are still out are with the order's end user.
DevicesFollowOrder == ~ mixed => \A a \in away : holder[a] = order.user
================================================================================

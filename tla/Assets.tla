------------------------------- MODULE Assets -------------------------------
(***************************************************************************)
(* AssetsService: registering an asset by hand, and the manual edit of an  *)
(* asset (PATCH), which may set any status.                                *)
(***************************************************************************)
EXTENDS AssetRegister

CONSTANTS FormStatus,   \* the statuses operators pick in the asset forms
          MaxEdits      \* bound: manual edits begun

ASSUME AssetsAssumption == FormStatus \subseteq AssetStatus /\ MaxEdits \in Nat

VARIABLE edits          \* manual edits begun so far

AssetsInit == edits = 0

AssetsTypeOK == edits \in 0..MaxEdits

\* create: the serial number is looked up before the transaction ...
AssetsCreate(h, a) ==
    /\ ~ Exists(a)
    /\ \E s \in FormStatus : Begin(h, Request("assets.create", NoRef, {a}, s))
    /\ Unposted /\ Stay /\ UNCHANGED edits

\* ... whose insert fails on the unique serial number if another call was first.
AssetsCreateTx(h) ==
    /\ In(h, "assets.create", "read")
    /\ IF \A a \in call[h].on : ~ Exists(a)
       THEN Move(h, call[h].on, Unread, call[h].to, "assets")
       ELSE Stay
    /\ Reply(h)
    /\ Unposted /\ UNCHANGED edits

AssetsUpdate(h, a) ==
    /\ Exists(a)
    /\ edits < MaxEdits
    /\ edits' = edits + 1
    /\ \E s \in FormStatus :
         Begin(h, [Request("assets.updateStatus", NoRef, {a}, s) EXCEPT !.seen = Snapshot({a})])
    /\ Unposted /\ Stay

\* The row is written in any case, the history only if the status asked for is
\* not the one read before the transaction: a status set meanwhile is overwritten
\* without a row.
AssetsUpdateTx(h) ==
    /\ In(h, "assets.updateStatus", "read")
    /\ IF \E a \in call[h].on : call[h].seen[a] # call[h].to
       THEN Move(h, call[h].on, call[h].seen, call[h].to, "assets")
       ELSE /\ Unlocked(h, call[h].on)
            /\ status' = [a \in Asset |-> IF a \in call[h].on THEN call[h].to ELSE status[a]]
            /\ unrecorded' = unrecorded \cup {a \in call[h].on : status[a] # call[h].to}
            /\ UNCHANGED history
    /\ Reply(h)
    /\ Unposted /\ UNCHANGED edits

AssetsNext ==
    \E h \in Handler : \/ \E a \in Asset : AssetsCreate(h, a) \/ AssetsUpdate(h, a)
                       \/ AssetsCreateTx(h)
                       \/ AssetsUpdateTx(h)
=============================================================================

------------------------------- MODULE Resale -------------------------------
(***************************************************************************)
(* ResaleService: a stored device is listed, then sold or taken off the    *)
(* list.  The asset is for_resale while it is listed.                      *)
(***************************************************************************)
EXTENDS AssetRegister

CONSTANT ListingId      \* ids the resale_listings table may hand out

ASSUME ResaleAssumption == ListingId \subseteq Ref

VARIABLE listing

NoListing == [status |-> "absent", on |-> {}]

ResaleTransitions == [absent    |-> {},
                      listed    |-> {"sold", "cancelled"},
                      sold      |-> {},
                      cancelled |-> {}]

ListingRecord == [status : DOMAIN ResaleTransitions, on : SUBSET Asset]

ResaleInit == listing = [l \in ListingId |-> NoListing]

\* Bound: create is called while the table has an id left.
ResaleRoom == \E l \in ListingId : listing[l].status = "absent"

ResaleTypeOK == listing \in [ListingId -> ListingRecord]

ResaleCreate(h, a) ==
    /\ ResaleRoom
    /\ status[a] = "in_storage"
    /\ Begin(h, Request("resale.create", NoRef, {a}, "listed"))
    /\ Unposted /\ Stay /\ UNCHANGED listing

\* The storage check is not repeated in the transaction.
ResaleCreateTx(h) ==
    /\ In(h, "resale.create", "read")
    /\ \E l \in ListingId :
         /\ listing[l].status = "absent"
         /\ listing' = [listing EXCEPT ![l] = [status |-> "listed", on |-> call[h].on]]
    /\ Move(h, call[h].on, Always("in_storage"), "for_resale", "resale")
    /\ Reply(h)
    /\ Unposted

ResaleUpdate(h, l) ==
    /\ \E to \in ResaleTransitions[listing[l].status] :
         Begin(h, Request("resale.updateStatus", l, listing[l].on, to))
    /\ Unposted /\ Stay /\ UNCHANGED listing

\* The transaction updates the listing row, which it holds from here on, and
\* reads the status the asset leaves.
ResaleUpdateTx(h) ==
    /\ In(h, "resale.updateStatus", "read")
    /\ \A g \in Handler : ~ (In(g, "resale.updateStatus", "tx") /\ call[g].id = call[h].id)
    /\ call' = [call EXCEPT ![h] = [@ EXCEPT !.at = "tx", !.seen = Snapshot(call[h].on)]]
    /\ Unposted /\ Stay /\ UNCHANGED listing

\* Mutant: taking a device off the list leaves its asset for_resale.
ResaleUpdateCommitKeepsAsset(h) ==
    /\ In(h, "resale.updateStatus", "tx")
    /\ listing' = [listing EXCEPT ![call[h].id] = [@ EXCEPT !.status = call[h].to]]
    /\ IF call[h].to = "sold"
       THEN Move(h, call[h].on, call[h].seen, "sold", "resale")
       ELSE Stay
    /\ Reply(h)
    /\ Unposted

ResaleUpdateCommit(h) ==
    /\ In(h, "resale.updateStatus", "tx")
    /\ listing' = [listing EXCEPT ![call[h].id] = [@ EXCEPT !.status = call[h].to]]
    /\ Move(h, call[h].on, call[h].seen,
            IF call[h].to = "sold" THEN "sold" ELSE "in_storage", "resale")
    /\ Reply(h)
    /\ Unposted

ResaleNext ==
    \E h \in Handler :
       \/ \E a \in Asset : ResaleCreate(h, a)
       \/ ResaleCreateTx(h)
       \/ \E l \in ListingId : ResaleUpdate(h, l)
       \/ ResaleUpdateTx(h)
       \/ ResaleUpdateCommit(h)
=============================================================================

--------------------------- MODULE WarehouseProofs ---------------------------
(***************************************************************************)
(* Proofs about Warehouse, for any sets of assets, handlers and ids and    *)
(* any bound on failures.  The invariant IInv is inductive; what the runs  *)
(* check on small instances follows from it.  Its half StatusInv is about  *)
(* the statuses and stands on its own; ChargesOK, about the charges,       *)
(* relies on what StatusInv says of the calls.                             *)
(*                                                                         *)
(* A step is the step of one handler.  It changes that handler's call, and *)
(* the table of its service, the status and history of its assets, or the  *)
(* ledger by one row; the lemmas below say what survives each.             *)
(***************************************************************************)
EXTENDS Warehouse, SequenceTheorems, FiniteSetTheorems, TLAPS

RepairOps == {"repair.create", "repair.approve", "repair.updateStatus"}

ResaleOps == {"resale.create", "resale.updateStatus"}

DisposalOps == {"disposal.create", "disposal.approve", "disposal.startProcessing",
                "disposal.complete"}

InspectionOps == {"inspections.create", "inspections.cancel", "inspections.complete"}

RetrievalOps == {"retrieval.create", "retrieval.updateStatus"}

DeploymentOps == {"deployment.create", "deployment.updateStatus"}

AssetOps == {"assets.create", "assets.updateStatus"}

\* Handler h takes a step of a service with methods ops; no other call changes.
StepOf(h, ops) == /\ call' \in [Handler -> CallRecord]
                  /\ \A g \in Handler \ {h} : call'[g] = call[g]
                  /\ call'[h].op \in ops \cup {"idle"}

\* The assets of S change their status to `to`, all others keep theirs.
Moved(S, to, by) ==
    /\ \A a \in S : status'[a] = to /\ (SetByHand(a)' <=> by = "assets")
    /\ \A a \in Asset \ S : status'[a] = status[a] /\ SetByHand(a)' = SetByHand(a)

-----------------------------------------------------------------------------
(***************************************************************************)
(* Types of the values calls are made of.                                  *)
(***************************************************************************)

LEMMA IdleType == Idle \in CallRecord
<1>1. Unread \in [Asset -> AssetStatus \cup {NoStatus}]
  BY DEF Unread
<1>2. <<>> \in Seq(Work) /\ <<>> \in Seq(Asset)
  OBVIOUS
<1>3. "idle" \in Operation /\ "idle" \in Await /\ "none" \in Target
  BY DEF Operation, Await, Target
<1>4. NoRef \in Ref \cup {NoRef}
  OBVIOUS
<1> QED BY <1>1, <1>2, <1>3, <1>4 DEF Idle, CallRecord

LEMMA RequestType ==
    ASSUME NEW op \in Operation, NEW id \in Ref \cup {NoRef}, NEW S \in SUBSET Asset,
           NEW to \in Target
    PROVE  /\ Request(op, id, S, to) \in CallRecord
           /\ Request(op, id, S, to).op = op
           /\ Request(op, id, S, to).at = "read"
           /\ Request(op, id, S, to).id = id
           /\ Request(op, id, S, to).on = S
           /\ Request(op, id, S, to).to = to
           /\ Request(op, id, S, to).src = NoRef
<1>1. "read" \in Await
  BY DEF Await
<1>2. Request(op, id, S, to) \in CallRecord
  BY <1>1, IdleType DEF Request, CallRecord
<1> QED BY <1>2 DEF Request, Idle

LEMMA SnapshotType ==
    ASSUME status \in [Asset -> AssetStatus \cup {NoStatus}], NEW S
    PROVE  Snapshot(S) \in [Asset -> AssetStatus \cup {NoStatus}]
BY DEF Snapshot

LEMMA ToSetType ==
    ASSUME NEW s \in Seq(Asset)
    PROVE  ToSet(s) \subseteq Asset
BY DEF ToSet

LEMMA WorkType ==
    ASSUME NEW do \in Event \cup {"suppress"}, NEW a \in Asset, NEW c \in BOOLEAN
    PROVE  /\ <<[do |-> do, asset |-> a]>> \in Seq(Work)
           /\ (IF c THEN <<[do |-> do, asset |-> a]>> ELSE <<>>) \in Seq(Work)
<1>1. [do |-> do, asset |-> a] \in Work
  BY DEF Work
<1>2. <<[do |-> do, asset |-> a]>> \in Seq(Work) /\ <<>> \in Seq(Work)
  BY <1>1
<1> QED BY <1>2

LEMMA PairType ==
    ASSUME NEW v \in Work, NEW w \in Work
    PROVE  <<v, w>> \in Seq(Work)
OBVIOUS

LEMMA AskedType ==
    ASSUME NEW ask, NEW charge \in Event, NEW a \in Asset
    PROVE  Asked(ask, charge, a) \in Seq(Work)
BY WorkType DEF Asked

LEMMA AssetWorkType ==
    ASSUME NEW ask, NEW bundle \in DOMAIN BundleRate, NEW a \in Asset
    PROVE  AssetWork(a, bundle, ask) \in Seq(Work)
<1>1. BundleRate[bundle] \in Event
  BY DEF BundleRate, Event
<1>2. <<[do |-> BundleRate[bundle], asset |-> a]>> \in Seq(Work)
  BY <1>1, WorkType
<1>3. (IF bundle = "full_prep" THEN <<[do |-> "suppress", asset |-> a]>> ELSE <<>>) \in Seq(Work)
  BY WorkType
<1>4. /\ Asked(ask, "LABELING", a) \in Seq(Work)
      /\ Asked(ask, "REPACKING", a) \in Seq(Work)
  BY AskedType DEF Event
<1> QED BY <1>2, <1>3, <1>4 DEF AssetWork

LEMMA MoveType ==
    ASSUME status \in [Asset -> AssetStatus \cup {NoStatus}],
           history \in [Asset -> Seq(HistoryRow)], unrecorded \in SUBSET Asset,
           HistoryMatchesStatus, NEW h \in Handler, NEW S \in SUBSET Asset,
           NEW from \in [Asset -> AssetStatus \cup {NoStatus}], NEW to \in AssetStatus,
           NEW by \in Source, Move(h, S, from, to, by)
    PROVE  /\ status' \in [Asset -> AssetStatus \cup {NoStatus}]
           /\ history' \in [Asset -> Seq(HistoryRow)]
           /\ unrecorded' \in SUBSET Asset
           /\ HistoryMatchesStatus'
           /\ Moved(S, to, by)
<1>1. \A a \in Asset : [from |-> from[a], to |-> to, by |-> by] \in HistoryRow
  BY DEF HistoryRow
<1>2. history' \in [Asset -> Seq(HistoryRow)]
  BY <1>1 DEF Move
<1>3. ASSUME NEW a \in S
      PROVE  LastStatus(a)' = to /\ (SetByHand(a)' <=> by = "assets")
  <2> DEFINE row == [from |-> from[a], to |-> to, by |-> by]
  <2>1. history[a] \in Seq(HistoryRow) /\ row \in HistoryRow
    BY <1>1
  <2>2. history'[a] = Append(history[a], row)
    BY DEF Move
  <2>3. row.to = to /\ row.by = by
    OBVIOUS
  <2> HIDE DEF row
  <2>4. history'[a] # <<>> /\ history'[a][Len(history'[a])] = row
    BY <2>1, <2>2, AppendProperties
  <2>5. a \notin unrecorded'
    BY DEF Move
  <2> QED BY <2>3, <2>4, <2>5 DEF LastStatus, SetByHand
<1>4. ASSUME NEW a \in Asset \ S
      PROVE  /\ a \notin unrecorded' => LastStatus(a)' = status'[a]
             /\ SetByHand(a)' = SetByHand(a)
  <2>1. /\ status'[a] = status[a] /\ history'[a] = history[a]
        /\ a \in unrecorded' <=> a \in unrecorded
    BY DEF Move
  <2> QED BY <2>1 DEF LastStatus, HistoryMatchesStatus, SetByHand
<1>5. Moved(S, to, by)
  BY <1>3, <1>4 DEF Move, Moved
<1> QED BY <1>2, <1>3, <1>4, <1>5 DEF Move, HistoryMatchesStatus

LEMMA StayType ==
    ASSUME HistoryMatchesStatus, Stay, NEW to, NEW by
    PROVE  HistoryMatchesStatus' /\ Moved({}, to, by)
BY DEF Stay, HistoryMatchesStatus, LastStatus, Moved, SetByHand

LEMMA CallStep ==
    ASSUME call \in [Handler -> CallRecord], NEW h \in Handler, NEW c \in CallRecord,
           NEW ops, c.op \in ops \cup {"idle"}, call' = [call EXCEPT ![h] = c]
    PROVE  StepOf(h, ops) /\ call'[h] = c
BY DEF StepOf

LEMMA ReplyStep ==
    ASSUME call \in [Handler -> CallRecord], NEW h \in Handler, NEW ops, Reply(h)
    PROVE  /\ StepOf(h, ops)
           /\ call'[h] = Idle /\ call'[h].op = "idle" /\ call'[h].at = "idle"
           /\ \A g \in Handler \ {h} : call'[g] = call[g]
<1>1. Idle.op = "idle" /\ Idle.at = "idle"
  BY DEF Idle
<1>2. StepOf(h, ops) /\ call'[h] = Idle
  BY <1>1, IdleType, CallStep DEF Reply
<1> QED BY <1>1, <1>2 DEF StepOf

-----------------------------------------------------------------------------
(***************************************************************************)
(* A step of one service keeps what the calls of the others rely on.       *)
(***************************************************************************)
LEMMA RepairKept ==
    ASSUME RepairCalls, NEW h \in Handler, NEW ops, StepOf(h, ops),
           ops \cap RepairOps = {}, UNCHANGED repair
    PROVE  RepairCalls'
BY DEF RepairCalls, StepOf, RepairOps

LEMMA ResaleKept ==
    ASSUME ResaleCalls, NEW h \in Handler, NEW ops, StepOf(h, ops),
           ops \cap ResaleOps = {}, UNCHANGED listing
    PROVE  ResaleCalls'
BY DEF ResaleCalls, StepOf, ResaleOps

LEMMA DisposalKept ==
    ASSUME DisposalCalls, NEW h \in Handler, NEW ops, StepOf(h, ops),
           ops \cap DisposalOps = {}, UNCHANGED disposal
    PROVE  DisposalCalls'
BY DEF DisposalCalls, StepOf, DisposalOps

LEMMA InspectionKept ==
    ASSUME InspectionCalls, NEW h \in Handler, NEW ops, StepOf(h, ops),
           ops \cap InspectionOps = {}, UNCHANGED inspection
    PROVE  InspectionCalls'
BY DEF InspectionCalls, StepOf, InspectionOps

LEMMA RetrievalKept ==
    ASSUME RetrievalCalls, NEW h \in Handler, NEW ops, StepOf(h, ops),
           ops \cap RetrievalOps = {}
    PROVE  RetrievalCalls'
BY DEF RetrievalCalls, StepOf, RetrievalOps

LEMMA DeploymentKept ==
    ASSUME DeploymentCalls, NEW h \in Handler, NEW ops, StepOf(h, ops),
           ops \cap DeploymentOps = {}, UNCHANGED order
    PROVE  DeploymentCalls'
BY DEF DeploymentCalls, StepOf, DeploymentOps, In

LEMMA AssetKept ==
    ASSUME AssetCalls, NEW h \in Handler, NEW ops, StepOf(h, ops),
           ops \cap AssetOps = {}
    PROVE  AssetCalls'
BY DEF AssetCalls, StepOf, AssetOps

-----------------------------------------------------------------------------
(***************************************************************************)
(* What accounts for the status of an asset survives the steps of others.  *)
(***************************************************************************)
LEMMA HeldKept ==
    ASSUME NEW h \in Handler, NEW ops, StepOf(h, ops), ops \cap RepairOps = {},
           UNCHANGED repair, NEW a \in Asset, Held(a)
    PROVE  Held(a)'
BY DEF Held, Unfinished, StepOf, RepairOps

LEMMA ReasonKept ==
    ASSUME NEW a \in Asset, status'[a] = status[a], Reason(a),
           Held(a) => Held(a)',
           UNCHANGED <<listing, disposal, inspection, order>>
    PROVE  Reason(a)'
BY DEF Reason, OnList, SignedAway, Inspecting, Shipped

LEMMA AccountedStep ==
    ASSUME Accounted, NEW S \in SUBSET Asset, NEW to, NEW by, Moved(S, to, by),
           by = "assets" \/ \A a \in S : Reason(a)',
           \A a \in Asset \ S : Reason(a) => Reason(a)'
    PROVE  Accounted'
BY DEF Accounted, Moved

\* A step that moves no asset and leaves what accounts for its status.
LEMMA QuietStep ==
    ASSUME StatusInv, Stay, \A a \in Asset : Reason(a) => Reason(a)'
    PROVE  /\ status' \in [Asset -> AssetStatus \cup {NoStatus}]
           /\ history' \in [Asset -> Seq(HistoryRow)]
           /\ unrecorded' \in SUBSET Asset
           /\ HistoryMatchesStatus' /\ Accounted'
<1>1. HistoryMatchesStatus' /\ Moved({}, "in_storage", "assets")
  BY StayType DEF StatusInv
<1> QED BY <1>1, AccountedStep DEF StatusInv, TypeOK, RegisterTypeOK, Stay

\* A step that moves the assets of S.
LEMMA MoveStep ==
    ASSUME StatusInv, NEW h \in Handler, NEW S \in SUBSET Asset,
           NEW from \in [Asset -> AssetStatus \cup {NoStatus}], NEW to \in AssetStatus,
           NEW by \in Source, Move(h, S, from, to, by),
           by = "assets" \/ \A a \in S : status'[a] = to => Reason(a)',
           \A a \in Asset \ S : status'[a] = status[a] /\ Reason(a) => Reason(a)'
    PROVE  /\ status' \in [Asset -> AssetStatus \cup {NoStatus}]
           /\ history' \in [Asset -> Seq(HistoryRow)]
           /\ unrecorded' \in SUBSET Asset
           /\ HistoryMatchesStatus' /\ Accounted'
<1>1. /\ status' \in [Asset -> AssetStatus \cup {NoStatus}]
      /\ history' \in [Asset -> Seq(HistoryRow)]
      /\ unrecorded' \in SUBSET Asset
      /\ HistoryMatchesStatus' /\ Moved(S, to, by)
  BY MoveType DEF StatusInv, TypeOK, RegisterTypeOK
<1>2. \A a \in S : status'[a] = to
  BY <1>1 DEF Moved
<1>3. \A a \in Asset \ S : status'[a] = status[a]
  BY <1>1 DEF Moved
<1> QED BY <1>1, <1>2, <1>3, AccountedStep DEF StatusInv

-----------------------------------------------------------------------------
(***************************************************************************)
(* RepairService                                                           *)
(***************************************************************************)
LEMMA RepairFrame ==
    ASSUME StatusInv, UNCHANGED <<listing, disposal, redeployVars, edits>>,
           NEW h \in Handler, StepOf(h, RepairOps), RepairCalls', RepairTypeOK', Unposted,
           status' \in [Asset -> AssetStatus \cup {NoStatus}],
           history' \in [Asset -> Seq(HistoryRow)],
           unrecorded' \in SUBSET Asset,
           HistoryMatchesStatus', Accounted'
    PROVE  StatusInv'
<1>1. CallsOK'
  BY ResaleKept, DisposalKept, InspectionKept, RetrievalKept, DeploymentKept, AssetKept
  DEF StatusInv, CallsOK, redeployVars, RepairOps, ResaleOps, DisposalOps, InspectionOps,
      RetrievalOps, DeploymentOps, AssetOps
<1>2. TypeOK'
  BY DEF StatusInv, TypeOK, RegisterTypeOK, StepOf, Unposted, ResaleTypeOK, DisposalTypeOK,
     InspectionsTypeOK, RetrievalTypeOK, DeploymentTypeOK, RedeployTypeOK, AssetsTypeOK,
     redeployVars
<1> QED BY <1>1, <1>2 DEF StatusInv

LEMMA RepairStep ==
    ASSUME StatusInv, RepairNext, UNCHANGED <<listing, disposal, redeployVars, edits>>
    PROVE  StatusInv'
<1> USE RegisterAssumption, RepairAssumption
<1>0. /\ call \in [Handler -> CallRecord]
      /\ repair \in [RepairId -> RepairRecord]
      /\ status \in [Asset -> AssetStatus \cup {NoStatus}]
      /\ RepairCalls
      /\ UNCHANGED <<listing, disposal, inspection, order>>
  BY DEF StatusInv, TypeOK, RegisterTypeOK, RepairTypeOK, CallsOK, redeployVars
<1>1. ASSUME NEW h \in Handler, NEW a \in Asset, RepairCreate(h, a)
      PROVE  StatusInv'
  <2> DEFINE c == Request("repair.create", NoRef, {a}, "pending")
  <2>1. c \in CallRecord /\ c.op = "repair.create"
    BY RequestType DEF Operation, Target
  <2>2. call' = [call EXCEPT ![h] = c]
    BY <1>1 DEF RepairCreate, Begin
  <2> HIDE DEF c
  <2>3. StepOf(h, RepairOps) /\ call'[h].op = "repair.create"
    BY <1>0, <2>1, <2>2, CallStep DEF RepairOps
  <2>4. RepairCalls'
    BY <1>0, <1>1, <2>3 DEF RepairCalls, RepairCreate, StepOf
  <2>5. \A b \in Asset : Held(b) => Held(b)'
    BY <1>1, <2>3 DEF Held, Unfinished, RepairCreate, StepOf
  <2> QED BY <1>0, <1>1, <2>3, <2>4, <2>5, ReasonKept, QuietStep, RepairFrame
          DEF RepairCreate, RepairTypeOK, Stay
<1>2. ASSUME NEW h \in Handler, RepairCreateTx(h)
      PROVE  StatusInv'
  <2>0. call[h].op = "repair.create"
    BY <1>2 DEF RepairCreateTx, In
  <2>1. PICK r \in RepairId :
          /\ repair[r].status = "absent"
          /\ repair' = [repair EXCEPT ![r] =
                          [NoRepair EXCEPT !.status = "pending", !.on = call[h].on]]
          /\ \E a \in call[h].on :
               call' = [call EXCEPT ![h] =
                          [@ EXCEPT !.at = "post", !.id = r,
                                    !.due = <<[do |-> "REPAIR", asset |-> a]>>]]
    BY <1>2 DEF RepairCreateTx
  <2>2. PICK a \in call[h].on :
          call' = [call EXCEPT ![h] =
                     [@ EXCEPT !.at = "post", !.id = r,
                               !.due = <<[do |-> "REPAIR", asset |-> a]>>]]
    BY <2>1
  <2>3. <<[do |-> "REPAIR", asset |-> a]>> \in Seq(Work)
    BY <1>0, WorkType DEF CallRecord, Event
  <2> DEFINE c == [call[h] EXCEPT !.at = "post", !.id = r,
                                  !.due = <<[do |-> "REPAIR", asset |-> a]>>]
  <2>31. c \in CallRecord /\ c.op = "repair.create"
    <3>1. call[h] \in CallRecord /\ "post" \in Await
      BY <1>0 DEF Await
    <3>2. c \in CallRecord
      BY <2>3, <3>1 DEF CallRecord
    <3> QED BY <2>0, <3>1, <3>2 DEF CallRecord
  <2>32. call' = [call EXCEPT ![h] = c]
    BY <2>2
  <2> HIDE DEF c
  <2>4. StepOf(h, RepairOps) /\ call'[h].op = "repair.create"
    BY <1>0, <2>31, <2>32, CallStep DEF RepairOps
  <2>5. /\ repair' \in [RepairId -> RepairRecord]
        /\ repair'[r].on = call[h].on /\ repair'[r].status = "pending"
        /\ \A q \in RepairId \ {r} : repair'[q] = repair[q]
    BY <1>0, <2>1 DEF RepairRecord, NoRepair, RepairStatus, RepairTransitions, CallRecord
  <2>6. RepairCalls'
    BY <1>0, <2>1, <2>4, <2>5 DEF RepairCalls, StepOf
  <2>7. \A b \in Asset : Held(b) => Held(b)'
    BY <2>1, <2>4, <2>5 DEF Held, Unfinished, StepOf, OpenRepair
  <2>8. \A b \in call[h].on : Held(b)'
    BY <1>0, <2>1, <2>4, <2>5 DEF Held, Unfinished, StepOf, OpenRepair, RepairCalls
  <2>9. \A b \in call[h].on : status'[b] = "in_repair" => Reason(b)'
    BY <2>8 DEF Reason
  <2>10. Move(h, call[h].on, Always("in_storage"), "in_repair", "repair")
    BY <1>2 DEF RepairCreateTx
  <2>11. /\ status' \in [Asset -> AssetStatus \cup {NoStatus}]
         /\ history' \in [Asset -> Seq(HistoryRow)]
         /\ unrecorded' \in SUBSET Asset
         /\ HistoryMatchesStatus' /\ Accounted'
    BY <1>0, <2>7, <2>9, <2>10, ReasonKept, MoveStep
    DEF Always, AssetStatus, Source, CallRecord
  <2> QED BY <1>0, <1>2, <2>4, <2>5, <2>6, <2>11, RepairFrame DEF RepairCreateTx, RepairTypeOK
<1>3. ASSUME NEW h \in Handler, NEW r \in RepairId, RepairApprove(h, r)
      PROVE  StatusInv'
  <2> DEFINE c == Request("repair.approve", r, {}, "approved")
  <2>1. c \in CallRecord /\ c.op = "repair.approve" /\ c.id = r
    BY RequestType DEF Operation, Target
  <2>2. call' = [call EXCEPT ![h] = c] /\ UNCHANGED repair /\ repair[r].status = "pending"
    BY <1>3 DEF RepairApprove, Begin
  <2> HIDE DEF c
  <2>3. StepOf(h, RepairOps) /\ call'[h] = c
    BY <1>0, <2>1, <2>2, CallStep DEF RepairOps
  <2>4. RepairCalls'
    BY <1>0, <2>1, <2>2, <2>3 DEF RepairCalls, StepOf
  <2>5. \A b \in Asset : Held(b) => Held(b)'
    BY <2>1, <2>2, <2>3 DEF Held, Unfinished, StepOf
  <2> QED BY <1>0, <1>3, <2>3, <2>4, <2>5, ReasonKept, QuietStep, RepairFrame
          DEF RepairApprove, RepairTypeOK, Stay
<1>4. ASSUME NEW h \in Handler, RepairApproveWrite(h)
      PROVE  StatusInv'
  <2>1. PICK r \in RepairId : r = call[h].id
    BY <1>0, <1>4 DEF RepairApproveWrite, In, RepairCalls
  <2>2. /\ StepOf(h, RepairOps) /\ call'[h].op = "idle"
        /\ \A g \in Handler \ {h} : call'[g] = call[g]
    BY <1>0, <1>4, ReplyStep DEF RepairApproveWrite
  <2>3. /\ repair' \in [RepairId -> RepairRecord]
        /\ repair'[r].status = "approved" /\ repair'[r].approved
        /\ repair'[r].on = repair[r].on /\ repair'[r].dc = repair[r].dc
        /\ \A q \in RepairId \ {r} : repair'[q] = repair[q]
    <3>1. repair' = [repair EXCEPT ![r] = [@ EXCEPT !.status = "approved", !.approved = TRUE]]
      BY <1>4, <2>1 DEF RepairApproveWrite
    <3>2. "approved" \in RepairStatus
      BY DEF RepairStatus, RepairTransitions
    <3> QED BY <1>0, <3>1, <3>2 DEF RepairRecord
  <2>4. repair[r].status # "absent"
    BY <1>0, <1>4, <2>1 DEF RepairApproveWrite, In, RepairCalls
  <2>5. RepairCalls'
    BY <1>0, <2>2, <2>3, <2>4 DEF RepairCalls
  <2>6. \A b \in Asset : Held(b) => Held(b)'
    BY <2>2, <2>3 DEF Held, Unfinished, OpenRepair
  <2> QED BY <1>0, <1>4, <2>2, <2>3, <2>5, <2>6, ReasonKept, QuietStep, RepairFrame
          DEF RepairApproveWrite, RepairTypeOK, Stay
<1>5. ASSUME NEW h \in Handler, NEW r \in RepairId, RepairUpdate(h, r)
      PROVE  StatusInv'
  <2>1. PICK to \in RepairTransitions[repair[r].status] :
          Begin(h, Request("repair.updateStatus", r, repair[r].on, to))
    BY <1>5 DEF RepairUpdate
  <2> DEFINE c == Request("repair.updateStatus", r, repair[r].on, to)
  <2>2. /\ to \in {"sent", "in_repair", "returned", "completed", "cancelled"}
        /\ to # "cancelled" => repair[r].approved
        /\ to = "completed" => repair[r].status = "returned"
        /\ repair[r].status # "absent"
    BY <1>0, <2>1 DEF RepairTransitions, RepairCalls, RepairRecord, RepairStatus
  <2>3. c \in CallRecord /\ c.op = "repair.updateStatus" /\ c.id = r /\ c.at = "read"
        /\ c.on = repair[r].on /\ c.to = to
    <3>1. "repair.updateStatus" \in Operation /\ to \in Target /\ r \in Ref \cup {NoRef}
      BY <1>0, <2>2 DEF Operation, Target, AssetStatus
    <3>2. repair[r].on \in SUBSET Asset
      BY <1>0 DEF RepairRecord
    <3> QED BY <3>1, <3>2, RequestType
  <2>4. call' = [call EXCEPT ![h] = c] /\ UNCHANGED repair
    BY <1>5, <2>1 DEF RepairUpdate, Begin
  <2> HIDE DEF c
  <2>5. StepOf(h, RepairOps) /\ call'[h] = c
    BY <1>0, <2>3, <2>4, CallStep DEF RepairOps
  <2>6. RepairCalls'
    BY <1>0, <2>2, <2>3, <2>4, <2>5 DEF RepairCalls, StepOf
  <2>7. \A b \in Asset : Held(b) => Held(b)'
    BY <2>2, <2>3, <2>4, <2>5 DEF Held, Unfinished, StepOf, OpenRepair
  <2> QED BY <1>0, <1>5, <2>5, <2>6, <2>7, ReasonKept, QuietStep, RepairFrame
          DEF RepairUpdate, RepairTypeOK, Stay
<1>6. ASSUME NEW h \in Handler, RepairCountDc(h)
      PROVE  StatusInv'
  <2> DEFINE c == [call[h] EXCEPT !.at = "counted"]
  <2>1. call' = [call EXCEPT ![h] = c] /\ UNCHANGED repair
    BY <1>6 DEF RepairCountDc
  <2>2. call[h].op = "repair.updateStatus" /\ repair[call[h].id].dc = "attached"
    BY <1>6 DEF RepairCountDc, In
  <2>3. /\ c \in CallRecord /\ c.op = "repair.updateStatus" /\ c.id = call[h].id
        /\ c.to = call[h].to /\ c.on = call[h].on
    <3>1. call[h] \in CallRecord /\ "counted" \in Await
      BY <1>0 DEF Await
    <3>2. c \in CallRecord
      BY <3>1 DEF CallRecord
    <3> QED BY <2>2, <3>1, <3>2 DEF CallRecord
  <2> HIDE DEF c
  <2>4. StepOf(h, RepairOps) /\ call'[h] = c /\ \A g \in Handler \ {h} : call'[g] = call[g]
    BY <1>0, <2>1, <2>3, CallStep DEF RepairOps, StepOf
  <2>5. RepairCalls'
    BY <1>0, <2>1, <2>2, <2>3, <2>4 DEF RepairCalls
  <2>6. \A b \in Asset : Held(b) => Held(b)'
    BY <2>1, <2>2, <2>3, <2>4 DEF Held, Unfinished
  <2> QED BY <1>0, <1>6, <2>4, <2>5, <2>6, ReasonKept, QuietStep, RepairFrame
          DEF RepairCountDc, RepairTypeOK, Stay
<1>7. ASSUME NEW h \in Handler, RepairUpdateTx(h)
      PROVE  StatusInv'
  <2>0. PICK r \in RepairId : r = call[h].id
    BY <1>0, <1>7 DEF RepairUpdateTx, RepairCalls
  <2> DEFINE S == call[h].on
  <2>1. /\ S = repair[r].on
        /\ call[h].to \in {"sent", "in_repair", "returned", "completed", "cancelled"}
        /\ call[h].to # "cancelled" => repair[r].approved
        /\ repair[r].status # "absent"
    BY <1>0, <1>7, <2>0 DEF RepairUpdateTx, RepairCalls
  <2>2. /\ StepOf(h, RepairOps) /\ call'[h].op = "idle"
        /\ \A g \in Handler \ {h} : call'[g] = call[g]
    BY <1>0, <1>7, ReplyStep DEF RepairUpdateTx
  <2>3. /\ repair' \in [RepairId -> RepairRecord]
        /\ repair'[r].status = call[h].to /\ repair'[r].approved = repair[r].approved
        /\ repair'[r].on = repair[r].on /\ repair'[r].dc = repair[r].dc
        /\ \A q \in RepairId \ {r} : repair'[q] = repair[q]
    BY <1>0, <1>7, <2>0, <2>1 DEF RepairUpdateTx, RepairRecord, RepairStatus, RepairTransitions
  <2>4. RepairCalls'
    BY <1>0, <2>1, <2>2, <2>3 DEF RepairCalls
  <2>5. call[h].to = "completed" => ~ Unfinished(r)
    BY <1>7, <2>0 DEF RepairUpdateTx, Unfinished
  <2>6. \A b \in Asset : Held(b) /\ (b \in S => call[h].to \notin {"returned", "cancelled"})
                           => Held(b)'
    <3>1. \A q \in RepairId : Unfinished(q) => Unfinished(q)'
      BY <2>2 DEF Unfinished
    <3> QED BY <2>1, <2>3, <2>5, <3>1 DEF Held, OpenRepair
  <2>7. CASE call[h].to \in {"returned", "cancelled"}
    <3>1. Move(h, S, Always("in_repair"), "in_storage", "repair")
      BY <1>7, <2>7 DEF RepairUpdateTx
    <3>2. \A b \in S : status'[b] = "in_storage" => Reason(b)'
      BY DEF Reason
    <3>3. /\ status' \in [Asset -> AssetStatus \cup {NoStatus}]
          /\ history' \in [Asset -> Seq(HistoryRow)]
          /\ unrecorded' \in SUBSET Asset
          /\ HistoryMatchesStatus' /\ Accounted'
      BY <1>0, <2>6, <3>1, <3>2, ReasonKept, MoveStep DEF Always, AssetStatus, Source, CallRecord
    <3> QED BY <1>0, <1>7, <2>2, <2>3, <2>4, <3>3, RepairFrame DEF RepairUpdateTx, RepairTypeOK
  <2>8. CASE call[h].to \notin {"returned", "cancelled"}
    BY <1>0, <1>7, <2>2, <2>3, <2>4, <2>6, <2>8, ReasonKept, QuietStep, RepairFrame
    DEF RepairUpdateTx, RepairTypeOK, Stay
  <2> QED BY <2>7, <2>8
<1>8. ASSUME NEW r \in RepairId, RepairAttachDc(r) \/ RepairDetachDc(r)
      PROVE  StatusInv'
  <2>1. UNCHANGED registerVars
    BY <1>8 DEF RepairAttachDc, RepairDetachDc
  <2>2. PICK s \in {"attached", "deleted"} : repair' = [repair EXCEPT ![r] = [@ EXCEPT !.dc = s]]
    BY <1>8 DEF RepairAttachDc, RepairDetachDc
  <2>3. /\ repair' \in [RepairId -> RepairRecord]
        /\ \A q \in RepairId :
             /\ repair'[q].status = repair[q].status /\ repair'[q].on = repair[q].on
             /\ repair'[q].approved = repair[q].approved
             /\ repair[q].dc # "none" => repair'[q].dc # "none"
    BY <1>0, <2>2 DEF RepairRecord
  <2>4. RepairCalls'
    BY <1>0, <2>1, <2>3 DEF RepairCalls, registerVars
  <2>5. \A b \in Asset : Held(b) => Held(b)'
    BY <2>1, <2>3 DEF Held, Unfinished, registerVars
  <2>6. HistoryMatchesStatus' /\ Accounted'
    BY <1>0, <2>1, <2>5, ReasonKept, QuietStep DEF registerVars, Stay
  <2>7. ResaleCalls' /\ DisposalCalls' /\ InspectionCalls'
    BY <1>0, <2>1 DEF registerVars, StatusInv, CallsOK, ResaleCalls, DisposalCalls, InspectionCalls
  <2>8. RetrievalCalls' /\ DeploymentCalls' /\ AssetCalls'
    BY <1>0, <2>1 DEF registerVars, StatusInv, CallsOK, RetrievalCalls, DeploymentCalls, In, AssetCalls
  <2>9. TypeOK'
    BY <1>0, <2>1, <2>3 DEF StatusInv, TypeOK, RegisterTypeOK, RepairTypeOK, ResaleTypeOK,
       DisposalTypeOK, InspectionsTypeOK, RetrievalTypeOK, DeploymentTypeOK, RedeployTypeOK,
       AssetsTypeOK, redeployVars, registerVars
  <2> QED BY <2>4, <2>6, <2>7, <2>8, <2>9 DEF StatusInv, CallsOK
<1> QED BY <1>1, <1>2, <1>3, <1>4, <1>5, <1>6, <1>7, <1>8 DEF RepairNext

-----------------------------------------------------------------------------
(***************************************************************************)
(* ResaleService                                                           *)
(***************************************************************************)
LEMMA ResaleFrame ==
    ASSUME StatusInv, UNCHANGED <<repair, disposal, redeployVars, edits>>,
           NEW h \in Handler, StepOf(h, ResaleOps), ResaleCalls', ResaleTypeOK', Unposted,
           status' \in [Asset -> AssetStatus \cup {NoStatus}],
           history' \in [Asset -> Seq(HistoryRow)],
           unrecorded' \in SUBSET Asset,
           HistoryMatchesStatus', Accounted'
    PROVE  StatusInv'
<1>1. CallsOK'
  BY RepairKept, DisposalKept, InspectionKept, RetrievalKept, DeploymentKept, AssetKept
  DEF StatusInv, CallsOK, redeployVars, RepairOps, ResaleOps, DisposalOps, InspectionOps,
      RetrievalOps, DeploymentOps, AssetOps
<1>2. TypeOK'
  BY DEF StatusInv, TypeOK, RegisterTypeOK, StepOf, Unposted, RepairTypeOK, DisposalTypeOK,
     InspectionsTypeOK, RetrievalTypeOK, DeploymentTypeOK, RedeployTypeOK, AssetsTypeOK,
     redeployVars
<1> QED BY <1>1, <1>2 DEF StatusInv

LEMMA ResaleStep ==
    ASSUME StatusInv, ResaleNext, UNCHANGED <<repair, disposal, redeployVars, edits>>
    PROVE  StatusInv'
<1> USE RegisterAssumption, ResaleAssumption
<1>0. /\ call \in [Handler -> CallRecord]
      /\ listing \in [ListingId -> ListingRecord]
      /\ status \in [Asset -> AssetStatus \cup {NoStatus}]
      /\ ResaleCalls
      /\ UNCHANGED <<repair, disposal, inspection, order>>
  BY DEF StatusInv, TypeOK, RegisterTypeOK, ResaleTypeOK, CallsOK, redeployVars
\* The steps that move nothing and change no listing.
<1>1. ASSUME NEW h \in Handler, StepOf(h, ResaleOps), ResaleCalls', Stay, Unposted,
             UNCHANGED listing
      PROVE  StatusInv'
  <2>1. \A b \in Asset : Reason(b) => Reason(b)'
    BY <1>0, <1>1, HeldKept, ReasonKept DEF Stay, ResaleOps, RepairOps
  <2> QED BY <1>0, <1>1, <2>1, QuietStep, ResaleFrame DEF ResaleTypeOK
<1>2. ASSUME NEW h \in Handler, NEW a \in Asset, ResaleCreate(h, a)
      PROVE  StatusInv'
  <2> DEFINE c == Request("resale.create", NoRef, {a}, "listed")
  <2>1. c \in CallRecord /\ c.op = "resale.create"
    BY RequestType DEF Operation, Target
  <2>2. call' = [call EXCEPT ![h] = c]
    BY <1>2 DEF ResaleCreate, Begin
  <2> HIDE DEF c
  <2>3. StepOf(h, ResaleOps) /\ call'[h].op = "resale.create"
    BY <1>0, <2>1, <2>2, CallStep DEF ResaleOps
  <2>4. ResaleCalls'
    BY <1>0, <1>2, <2>3 DEF ResaleCalls, ResaleCreate, StepOf
  <2> QED BY <1>1, <1>2, <2>3, <2>4 DEF ResaleCreate
<1>3. ASSUME NEW h \in Handler, ResaleCreateTx(h)
      PROVE  StatusInv'
  <2>1. PICK l \in ListingId :
          /\ listing[l].status = "absent"
          /\ listing' = [listing EXCEPT ![l] = [status |-> "listed", on |-> call[h].on]]
    BY <1>3 DEF ResaleCreateTx
  <2>2. /\ StepOf(h, ResaleOps) /\ call'[h].op = "idle"
        /\ \A g \in Handler \ {h} : call'[g] = call[g]
    BY <1>0, <1>3, ReplyStep DEF ResaleCreateTx
  <2>3. call[h].on \in SUBSET Asset /\ Unread \in [Asset -> AssetStatus \cup {NoStatus}]
    BY <1>0 DEF CallRecord, Unread
  <2>4. /\ listing' \in [ListingId -> ListingRecord]
        /\ listing'[l].status = "listed" /\ listing'[l].on = call[h].on
        /\ \A m \in ListingId \ {l} : listing'[m] = listing[m]
    BY <1>0, <2>1, <2>3 DEF ListingRecord, ResaleTransitions
  <2>5. ResaleCalls'
    BY <1>0, <2>1, <2>2, <2>4 DEF ResaleCalls
  <2>6. Move(h, call[h].on, Always("in_storage"), "for_resale", "resale")
    BY <1>3 DEF ResaleCreateTx
  <2>7. \A b \in call[h].on : status'[b] = "for_resale" => Reason(b)'
    BY <2>4 DEF Reason, OnList
  <2>8. \A b \in Asset : status'[b] = status[b] /\ Reason(b) => Reason(b)'
    BY <1>0, <2>1, <2>2, <2>4, HeldKept
    DEF Reason, OnList, SignedAway, Inspecting, Shipped, ResaleOps, RepairOps
  <2>9. /\ status' \in [Asset -> AssetStatus \cup {NoStatus}]
        /\ history' \in [Asset -> Seq(HistoryRow)]
        /\ unrecorded' \in SUBSET Asset
        /\ HistoryMatchesStatus' /\ Accounted'
    BY <2>3, <2>6, <2>7, <2>8, MoveStep DEF Always, AssetStatus, Source
  <2> QED BY <1>0, <1>3, <2>2, <2>4, <2>5, <2>9, ResaleFrame DEF ResaleCreateTx, ResaleTypeOK
<1>4. ASSUME NEW h \in Handler, NEW l \in ListingId, ResaleUpdate(h, l)
      PROVE  StatusInv'
  <2>1. PICK to \in ResaleTransitions[listing[l].status] :
          Begin(h, Request("resale.updateStatus", l, listing[l].on, to))
    BY <1>4 DEF ResaleUpdate
  <2> DEFINE c == Request("resale.updateStatus", l, listing[l].on, to)
  <2>2. to \in {"sold", "cancelled"} /\ listing[l].status # "absent"
    BY <1>0, <2>1 DEF ResaleTransitions, ListingRecord
  <2>3. /\ c \in CallRecord /\ c.op = "resale.updateStatus" /\ c.id = l
        /\ c.on = listing[l].on /\ c.to = to
    <3>1. "resale.updateStatus" \in Operation /\ to \in Target /\ l \in Ref \cup {NoRef}
      BY <1>0, <2>2 DEF Operation, Target, AssetStatus
    <3>2. listing[l].on \in SUBSET Asset
      BY <1>0 DEF ListingRecord
    <3> QED BY <3>1, <3>2, RequestType
  <2>4. call' = [call EXCEPT ![h] = c] /\ UNCHANGED listing
    BY <1>4, <2>1 DEF ResaleUpdate, Begin
  <2> HIDE DEF c
  <2>5. StepOf(h, ResaleOps) /\ call'[h] = c
    BY <1>0, <2>3, <2>4, CallStep DEF ResaleOps
  <2>6. ResaleCalls'
    BY <1>0, <2>2, <2>3, <2>4, <2>5 DEF ResaleCalls, StepOf
  <2> QED BY <1>1, <1>4, <2>5, <2>6 DEF ResaleUpdate
<1>5. ASSUME NEW h \in Handler, ResaleUpdateTx(h)
      PROVE  StatusInv'
  <2> DEFINE c == [call[h] EXCEPT !.at = "tx", !.seen = Snapshot(call[h].on)]
  <2>1. /\ call[h] \in CallRecord /\ "tx" \in Await
        /\ Snapshot(call[h].on) \in [Asset -> AssetStatus \cup {NoStatus}]
    BY <1>0, SnapshotType DEF Await
  <2>2. c \in CallRecord
    BY <2>1 DEF CallRecord
  <2>3. call[h].op = "resale.updateStatus" /\ call' = [call EXCEPT ![h] = c] /\ UNCHANGED listing
    BY <1>5 DEF ResaleUpdateTx, In
  <2>4. c.op = call[h].op /\ c.id = call[h].id /\ c.on = call[h].on /\ c.to = call[h].to
    BY <2>1 DEF CallRecord
  <2> HIDE DEF c
  <2>5. StepOf(h, ResaleOps) /\ call'[h] = c
    BY <1>0, <2>2, <2>3, <2>4, CallStep DEF ResaleOps
  <2>6. ResaleCalls'
    BY <1>0, <2>3, <2>4, <2>5 DEF ResaleCalls, StepOf
  <2> QED BY <1>1, <1>5, <2>5, <2>6 DEF ResaleUpdateTx
<1>6. ASSUME NEW h \in Handler, ResaleUpdateCommit(h)
      PROVE  StatusInv'
  <2>1. PICK l \in ListingId : l = call[h].id
    BY <1>0, <1>6 DEF ResaleUpdateCommit, In, ResaleCalls
  <2>2. /\ call[h].on = listing[l].on /\ call[h].to \in {"sold", "cancelled"}
        /\ listing[l].status # "absent"
    BY <1>0, <1>6, <2>1 DEF ResaleUpdateCommit, In, ResaleCalls
  <2>3. /\ StepOf(h, ResaleOps) /\ call'[h].op = "idle"
        /\ \A g \in Handler \ {h} : call'[g] = call[g]
    BY <1>0, <1>6, ReplyStep DEF ResaleUpdateCommit
  <2>4. /\ call[h].on \in SUBSET Asset
        /\ call[h].seen \in [Asset -> AssetStatus \cup {NoStatus}]
    BY <1>0 DEF CallRecord
  <2>5. /\ listing' \in [ListingId -> ListingRecord]
        /\ listing'[l].status = call[h].to /\ listing'[l].on = listing[l].on
        /\ \A m \in ListingId \ {l} : listing'[m] = listing[m]
    BY <1>0, <1>6, <2>1, <2>2 DEF ResaleUpdateCommit, ListingRecord, ResaleTransitions
  <2>6. ResaleCalls'
    BY <1>0, <2>2, <2>3, <2>5 DEF ResaleCalls
  <2> DEFINE to == IF call[h].to = "sold" THEN "sold" ELSE "in_storage"
  <2>7. Move(h, call[h].on, call[h].seen, to, "resale") /\ to \in AssetStatus
    BY <1>6 DEF ResaleUpdateCommit, AssetStatus
  <2>8. \A b \in call[h].on : status'[b] = to => Reason(b)'
    BY <2>2, <2>5 DEF Reason, OnList
  <2>9. \A b \in Asset \ call[h].on : status'[b] = status[b] /\ Reason(b) => Reason(b)'
    BY <1>0, <2>2, <2>3, <2>5, HeldKept
    DEF Reason, OnList, SignedAway, Inspecting, Shipped, ResaleOps, RepairOps
  <2> HIDE DEF to
  <2>10. /\ status' \in [Asset -> AssetStatus \cup {NoStatus}]
         /\ history' \in [Asset -> Seq(HistoryRow)]
         /\ unrecorded' \in SUBSET Asset
         /\ HistoryMatchesStatus' /\ Accounted'
    BY <2>4, <2>7, <2>8, <2>9, MoveStep DEF Source
  <2> QED BY <1>0, <1>6, <2>3, <2>5, <2>6, <2>10, ResaleFrame DEF ResaleUpdateCommit, ResaleTypeOK
<1> QED BY <1>2, <1>3, <1>4, <1>5, <1>6 DEF ResaleNext

-----------------------------------------------------------------------------
(***************************************************************************)
(* DisposalService                                                         *)
(***************************************************************************)
LEMMA DisposalFrame ==
    ASSUME StatusInv, UNCHANGED <<repair, listing, redeployVars, edits>>,
           NEW h \in Handler, StepOf(h, DisposalOps), DisposalCalls', DisposalTypeOK', Unposted,
           status' \in [Asset -> AssetStatus \cup {NoStatus}],
           history' \in [Asset -> Seq(HistoryRow)],
           unrecorded' \in SUBSET Asset,
           HistoryMatchesStatus', Accounted'
    PROVE  StatusInv'
<1>1. CallsOK'
  BY RepairKept, ResaleKept, InspectionKept, RetrievalKept, DeploymentKept, AssetKept
  DEF StatusInv, CallsOK, redeployVars, RepairOps, ResaleOps, DisposalOps, InspectionOps,
      RetrievalOps, DeploymentOps, AssetOps
<1>2. TypeOK'
  BY DEF StatusInv, TypeOK, RegisterTypeOK, StepOf, Unposted, RepairTypeOK, ResaleTypeOK,
     InspectionsTypeOK, RetrievalTypeOK, DeploymentTypeOK, RedeployTypeOK, AssetsTypeOK,
     redeployVars
<1> QED BY <1>1, <1>2 DEF StatusInv

LEMMA DisposalStep ==
    ASSUME StatusInv, DisposalNext, UNCHANGED <<repair, listing, redeployVars, edits>>
    PROVE  StatusInv'
<1> USE RegisterAssumption, DisposalAssumption
<1>0. /\ call \in [Handler -> CallRecord]
      /\ disposal \in [DisposalId -> DisposalRecord]
      /\ status \in [Asset -> AssetStatus \cup {NoStatus}]
      /\ DisposalCalls
      /\ UNCHANGED <<repair, listing, inspection, order>>
  BY DEF StatusInv, TypeOK, RegisterTypeOK, DisposalTypeOK, CallsOK, redeployVars
\* The steps that move nothing keep every request and every approval.
<1>1. ASSUME NEW h \in Handler, StepOf(h, DisposalOps), DisposalCalls', DisposalTypeOK', Stay,
             Unposted, \A a \in Asset : SignedAway(a) => SignedAway(a)'
      PROVE  StatusInv'
  <2>1. \A b \in Asset : Reason(b) => Reason(b)'
    BY <1>0, <1>1, HeldKept DEF Stay, DisposalOps, RepairOps, Reason, OnList, Inspecting, Shipped
  <2> QED BY <1>0, <1>1, <2>1, QuietStep, DisposalFrame
\* The calls that begin.
<1>2. ASSUME NEW h \in Handler, NEW c \in CallRecord, call' = [call EXCEPT ![h] = c],
             c.op \in DisposalOps, Unposted, Stay, UNCHANGED disposal,
             c.op # "disposal.create" =>
               c.id \in DisposalId /\ disposal[c.id].status # "absent",
             c.op \in {"disposal.startProcessing", "disposal.complete"} => disposal[c.id].approved,
             c.op = "disposal.complete" => c.on = disposal[c.id].on
      PROVE  StatusInv'
  <2>1. StepOf(h, DisposalOps) /\ call'[h] = c
    BY <1>0, <1>2, CallStep
  <2>2. DisposalCalls'
    BY <1>0, <1>2, <2>1 DEF DisposalCalls, StepOf, DisposalOps
  <2>3. DisposalTypeOK' /\ \A b \in Asset : SignedAway(b) => SignedAway(b)'
    BY <1>0, <1>2 DEF DisposalTypeOK, SignedAway
  <2>4. Stay /\ Unposted
    BY <1>2
  <2> QED BY <1>1, <2>1, <2>2, <2>3, <2>4
<1>3. ASSUME NEW h \in Handler, NEW a \in Asset, DisposalCreate(h, a)
      PROVE  StatusInv'
  <2> DEFINE c == Request("disposal.create", NoRef, {a}, "pending")
  <2>1. c \in CallRecord /\ c.op = "disposal.create"
    BY RequestType DEF Operation, Target
  <2>2. call' = [call EXCEPT ![h] = c] /\ Unposted /\ Stay /\ UNCHANGED disposal
    BY <1>3 DEF DisposalCreate, Begin
  <2> HIDE DEF c
  <2> QED BY <1>2, <2>1, <2>2 DEF DisposalOps
<1>4. ASSUME NEW h \in Handler, DisposalCreateWrite(h)
      PROVE  StatusInv'
  <2>1. PICK d \in DisposalId, cert \in BOOLEAN :
          /\ disposal[d].status = "absent"
          /\ disposal' = [disposal EXCEPT ![d] =
                            [NoDisposal EXCEPT !.status = "pending", !.on = call[h].on,
                                               !.cert = cert]]
    BY <1>4 DEF DisposalCreateWrite
  <2>2. /\ StepOf(h, DisposalOps) /\ call'[h].op = "idle"
        /\ \A g \in Handler \ {h} : call'[g] = call[g]
    BY <1>0, <1>4, ReplyStep DEF DisposalCreateWrite
  <2>3. call[h].on \in SUBSET Asset
    BY <1>0 DEF CallRecord
  <2>4. /\ disposal' \in [DisposalId -> DisposalRecord]
        /\ disposal'[d].status = "pending" /\ ~ disposal'[d].approved
        /\ \A e \in DisposalId \ {d} : disposal'[e] = disposal[e]
    BY <1>0, <2>1, <2>3 DEF DisposalRecord, DisposalStatus, NoDisposal
  <2>5. DisposalCalls'
    BY <1>0, <2>1, <2>2, <2>4 DEF DisposalCalls
  <2>6. \A b \in Asset : SignedAway(b) => SignedAway(b)'
    BY <1>0, <2>1, <2>4 DEF SignedAway, DisposalCalls
  <2> QED BY <1>1, <1>4, <2>2, <2>4, <2>5, <2>6 DEF DisposalCreateWrite, DisposalTypeOK
<1>5. ASSUME NEW h \in Handler, NEW d \in DisposalId, DisposalApprove(h, d)
      PROVE  StatusInv'
  <2> DEFINE c == Request("disposal.approve", d, disposal[d].on, "approved")
  <2>1. c \in CallRecord /\ c.op = "disposal.approve" /\ c.id = d
    BY <1>0, RequestType DEF Operation, Target, DisposalRecord
  <2>2. /\ call' = [call EXCEPT ![h] = c] /\ Unposted /\ Stay /\ UNCHANGED disposal
        /\ disposal[d].status = "pending"
    BY <1>5 DEF DisposalApprove, Begin
  <2> HIDE DEF c
  <2> QED BY <1>2, <2>1, <2>2 DEF DisposalOps
<1>6. ASSUME NEW h \in Handler, DisposalApproveWrite(h)
      PROVE  StatusInv'
  <2>1. PICK d \in DisposalId : d = call[h].id /\ disposal[d].status # "absent"
    BY <1>0, <1>6 DEF DisposalApproveWrite, In, DisposalCalls
  <2>2. PICK a \in call[h].on :
          \E w \in {<<[do |-> "DISPOSAL", asset |-> a],
                     [do |-> "DISPOSAL_CERT_ADDON", asset |-> a]>>,
                   <<[do |-> "DISPOSAL", asset |-> a]>>} :
            call' = [call EXCEPT ![h] = [@ EXCEPT !.at = "post", !.due = w]]
    BY <1>6 DEF DisposalApproveWrite
  <2>22. PICK w \in {<<[do |-> "DISPOSAL", asset |-> a],
                       [do |-> "DISPOSAL_CERT_ADDON", asset |-> a]>>,
                     <<[do |-> "DISPOSAL", asset |-> a]>>} :
           call' = [call EXCEPT ![h] = [@ EXCEPT !.at = "post", !.due = w]]
    BY <2>2
  <2>3. /\ disposal' = [disposal EXCEPT ![d] = [@ EXCEPT !.status = "approved", !.approved = TRUE]]
        /\ call[h].op = "disposal.approve"
    BY <1>6, <2>1 DEF DisposalApproveWrite, In
  <2> DEFINE c == [call[h] EXCEPT !.at = "post", !.due = w]
  <2>4. c \in CallRecord /\ c.op = "disposal.approve" /\ c.id = d
    <3>1. call[h] \in CallRecord /\ a \in Asset /\ "post" \in Await
      BY <1>0 DEF CallRecord, Await
    <3>2. /\ <<[do |-> "DISPOSAL", asset |-> a]>> \in Seq(Work)
          /\ [do |-> "DISPOSAL", asset |-> a] \in Work
          /\ [do |-> "DISPOSAL_CERT_ADDON", asset |-> a] \in Work
      BY <3>1, WorkType DEF Event, Work
    <3>3. w \in Seq(Work)
      BY <2>22, <3>2, PairType
    <3>4. c \in CallRecord
      BY <3>1, <3>3 DEF CallRecord
    <3> QED BY <2>1, <2>3, <3>1, <3>4 DEF CallRecord
  <2>5. call' = [call EXCEPT ![h] = c]
    BY <2>22
  <2> HIDE DEF c
  <2>6. StepOf(h, DisposalOps) /\ call'[h] = c /\ \A g \in Handler \ {h} : call'[g] = call[g]
    BY <1>0, <2>4, <2>5, CallStep DEF DisposalOps, StepOf
  <2>7. /\ disposal' \in [DisposalId -> DisposalRecord]
        /\ disposal'[d].status = "approved" /\ disposal'[d].approved
        /\ disposal'[d].on = disposal[d].on
        /\ \A e \in DisposalId \ {d} : disposal'[e] = disposal[e]
    BY <1>0, <2>3 DEF DisposalRecord, DisposalStatus
  <2>8. DisposalCalls'
    <3>1. \A e \in DisposalId :
            /\ disposal[e].approved => disposal'[e].approved
            /\ disposal'[e].on = disposal[e].on
            /\ disposal[e].status # "absent" => disposal'[e].status # "absent"
            /\ disposal'[e].approved => disposal'[e].status # "absent"
            /\ disposal'[e].status \in {"approved", "in_progress", "completed"} =>
                 disposal'[e].approved
      BY <1>0, <2>7 DEF DisposalCalls
    <3>2. call'[h].op = "disposal.approve" /\ call'[h].id = d /\ disposal'[d].status # "absent"
      BY <2>4, <2>6, <2>7
    <3>3. \A g \in Handler \ {h} : call'[g] = call[g]
      BY <2>6
    <3>4. \A g \in Handler \ {h} :
            /\ call'[g].op \in {"disposal.approve", "disposal.startProcessing", "disposal.complete"}
                 => call'[g].id \in DisposalId /\ disposal'[call'[g].id].status # "absent"
            /\ call'[g].op \in {"disposal.startProcessing", "disposal.complete"} =>
                 disposal'[call'[g].id].approved
            /\ call'[g].op = "disposal.complete" => call'[g].on = disposal'[call'[g].id].on
      BY <1>0, <3>1, <3>3 DEF DisposalCalls
    <3> QED BY <3>1, <3>2, <3>4 DEF DisposalCalls
  <2>9. \A b \in Asset : SignedAway(b) => SignedAway(b)'
    BY <2>7 DEF SignedAway
  <2> QED BY <1>1, <1>6, <2>6, <2>7, <2>8, <2>9 DEF DisposalApproveWrite, DisposalTypeOK
<1>7. ASSUME NEW h \in Handler, NEW d \in DisposalId, DisposalStart(h, d)
      PROVE  StatusInv'
  <2> DEFINE c == Request("disposal.startProcessing", d, {}, "in_progress")
  <2>1. c \in CallRecord /\ c.op = "disposal.startProcessing" /\ c.id = d
    BY RequestType DEF Operation, Target
  <2>2. /\ call' = [call EXCEPT ![h] = c] /\ Unposted /\ Stay /\ UNCHANGED disposal
        /\ disposal[d].status = "approved" /\ disposal[d].approved
    BY <1>0, <1>7 DEF DisposalStart, Begin, DisposalCalls
  <2> HIDE DEF c
  <2> QED BY <1>2, <2>1, <2>2 DEF DisposalOps
<1>8. ASSUME NEW h \in Handler, DisposalStartWrite(h)
      PROVE  StatusInv'
  <2>1. PICK d \in DisposalId : d = call[h].id /\ disposal[d].approved
    BY <1>0, <1>8 DEF DisposalStartWrite, In, DisposalCalls
  <2>2. /\ StepOf(h, DisposalOps) /\ call'[h].op = "idle"
        /\ \A g \in Handler \ {h} : call'[g] = call[g]
    BY <1>0, <1>8, ReplyStep DEF DisposalStartWrite
  <2>3. /\ disposal' \in [DisposalId -> DisposalRecord]
        /\ disposal'[d].status = "in_progress" /\ disposal'[d].approved
        /\ disposal'[d].on = disposal[d].on
        /\ \A e \in DisposalId \ {d} : disposal'[e] = disposal[e]
    <3> DEFINE new == [disposal[d] EXCEPT !.status = "in_progress"]
    <3>1. disposal[d] \in DisposalRecord
      BY <1>0
    <3>2. new \in DisposalRecord /\ new.status = "in_progress" /\ new.on = disposal[d].on /\ new.approved = disposal[d].approved
      BY <2>1, <3>1 DEF DisposalRecord, DisposalStatus
    <3>3. disposal' = [disposal EXCEPT ![d] = new]
      BY <1>8, <2>1 DEF DisposalStartWrite
    <3> HIDE DEF new
    <3> QED BY <1>0, <2>1, <3>2, <3>3
  <2>4. DisposalCalls'
    BY <1>0, <2>1, <2>2, <2>3 DEF DisposalCalls
  <2>5. \A b \in Asset : SignedAway(b) => SignedAway(b)'
    BY <2>3 DEF SignedAway
  <2> QED BY <1>1, <1>8, <2>2, <2>3, <2>4, <2>5 DEF DisposalStartWrite, DisposalTypeOK
<1>9. ASSUME NEW h \in Handler, NEW d \in DisposalId, DisposalComplete(h, d)
      PROVE  StatusInv'
  <2> DEFINE q == Request("disposal.complete", d, disposal[d].on, "completed")
             c == [q EXCEPT !.seen = Snapshot(disposal[d].on)]
  <2>1. q \in CallRecord /\ q.op = "disposal.complete" /\ q.id = d /\ q.on = disposal[d].on
    BY <1>0, RequestType DEF Operation, Target, DisposalRecord
  <2>2. Snapshot(disposal[d].on) \in [Asset -> AssetStatus \cup {NoStatus}]
    BY <1>0, SnapshotType
  <2>3. /\ call' = [call EXCEPT ![h] = c] /\ Unposted /\ Stay /\ UNCHANGED disposal
        /\ disposal[d].status = "in_progress" /\ disposal[d].approved
    BY <1>0, <1>9 DEF DisposalComplete, Begin, DisposalCalls
  <2> HIDE DEF q
  <2>4. c \in CallRecord
    BY <2>1, <2>2 DEF CallRecord
  <2>5. c.op = "disposal.complete" /\ c.id = d /\ c.on = disposal[d].on
    BY <2>1 DEF CallRecord
  <2> HIDE DEF c
  <2> QED BY <1>2, <2>3, <2>4, <2>5 DEF DisposalOps
<1>10. ASSUME NEW h \in Handler, DisposalCompleteTx(h)
       PROVE  StatusInv'
  <2>1. PICK d \in DisposalId : /\ d = call[h].id /\ disposal[d].approved
                                /\ call[h].on = disposal[d].on
    BY <1>0, <1>10 DEF DisposalCompleteTx, In, DisposalCalls
  <2>2. /\ StepOf(h, DisposalOps) /\ call'[h].op = "idle"
        /\ \A g \in Handler \ {h} : call'[g] = call[g]
    BY <1>0, <1>10, ReplyStep DEF DisposalCompleteTx
  <2>3. /\ disposal' \in [DisposalId -> DisposalRecord]
        /\ disposal'[d].status = "completed" /\ disposal'[d].approved
        /\ disposal'[d].on = disposal[d].on
        /\ \A e \in DisposalId \ {d} : disposal'[e] = disposal[e]
    BY <1>0, <1>10, <2>1 DEF DisposalCompleteTx, DisposalRecord, DisposalStatus
  <2>4. DisposalCalls'
    BY <1>0, <2>1, <2>2, <2>3 DEF DisposalCalls
  <2>5. /\ call[h].on \in SUBSET Asset
        /\ call[h].seen \in [Asset -> AssetStatus \cup {NoStatus}]
    BY <1>0 DEF CallRecord
  <2>6. Move(h, call[h].on, call[h].seen, "disposed", "disposal")
    BY <1>10 DEF DisposalCompleteTx
  <2>7. \A b \in call[h].on : status'[b] = "disposed" => Reason(b)'
    BY <2>1, <2>3 DEF Reason, SignedAway
  <2>8. \A b \in Asset : status'[b] = status[b] /\ Reason(b) => Reason(b)'
    BY <1>0, <2>2, <2>3, HeldKept
    DEF Reason, OnList, SignedAway, Inspecting, Shipped, DisposalOps, RepairOps
  <2>9. /\ status' \in [Asset -> AssetStatus \cup {NoStatus}]
        /\ history' \in [Asset -> Seq(HistoryRow)]
        /\ unrecorded' \in SUBSET Asset
        /\ HistoryMatchesStatus' /\ Accounted'
    BY <2>5, <2>6, <2>7, <2>8, MoveStep DEF AssetStatus, Source
  <2> QED BY <1>0, <1>10, <2>2, <2>3, <2>4, <2>9, DisposalFrame DEF DisposalCompleteTx, DisposalTypeOK
<1> QED BY <1>3, <1>4, <1>5, <1>6, <1>7, <1>8, <1>9, <1>10 DEF DisposalNext

-----------------------------------------------------------------------------
(***************************************************************************)
(* InspectionsService                                                      *)
(***************************************************************************)
LEMMA OpenInspectionKeeps ==
    ASSUME inspection \in [InspectionId -> InspectionRecord], NEW S \in SUBSET Asset,
           NEW t \in RetrievalId \cup {NoRef}, OpenInspection(S, t)
    PROVE  /\ inspection' \in [InspectionId -> InspectionRecord]
           /\ \A i \in InspectionId : inspection[i].status # "absent" =>
                                      inspection'[i] = inspection[i]
           /\ \A a \in S : Inspecting(a)'
           /\ \A a \in Asset : Inspecting(a) => Inspecting(a)'
<1>1. PICK i \in InspectionId :
        /\ inspection[i].status = "absent"
        /\ inspection' = [inspection EXCEPT ![i] =
                            [status |-> "in_progress", on |-> S, retrieval |-> t]]
  BY DEF OpenInspection
<1>2. /\ inspection' \in [InspectionId -> InspectionRecord]
      /\ inspection'[i].status = "in_progress" /\ inspection'[i].on = S
      /\ \A j \in InspectionId \ {i} : inspection'[j] = inspection[j]
  BY <1>1 DEF InspectionRecord
<1> QED BY <1>1, <1>2 DEF Inspecting

LEMMA InspectionFrame ==
    ASSUME StatusInv, UNCHANGED <<repair, listing, disposal, retrieval, order, damage, edits>>,
           NEW h \in Handler, StepOf(h, InspectionOps), InspectionCalls', InspectionsTypeOK',
           Unposted,
           status' \in [Asset -> AssetStatus \cup {NoStatus}],
           history' \in [Asset -> Seq(HistoryRow)],
           unrecorded' \in SUBSET Asset,
           HistoryMatchesStatus', Accounted'
    PROVE  StatusInv'
<1>1. CallsOK'
  BY RepairKept, ResaleKept, DisposalKept, RetrievalKept, DeploymentKept, AssetKept
  DEF StatusInv, CallsOK, RepairOps, ResaleOps, DisposalOps, InspectionOps,
      RetrievalOps, DeploymentOps, AssetOps
<1>2. TypeOK'
  BY DEF StatusInv, TypeOK, RegisterTypeOK, StepOf, Unposted, RepairTypeOK, ResaleTypeOK,
     DisposalTypeOK, RetrievalTypeOK, DeploymentTypeOK, RedeployTypeOK, AssetsTypeOK
<1> QED BY <1>1, <1>2 DEF StatusInv

LEMMA InspectionStep ==
    ASSUME StatusInv, InspectionsNext,
           UNCHANGED <<repair, listing, disposal, retrieval, order, damage, edits>>
    PROVE  StatusInv'
<1> USE RegisterAssumption, InspectionsAssumption
<1>0. /\ call \in [Handler -> CallRecord]
      /\ inspection \in [InspectionId -> InspectionRecord]
      /\ status \in [Asset -> AssetStatus \cup {NoStatus}]
      /\ InspectionCalls
      /\ UNCHANGED <<repair, listing, disposal, order>>
  BY DEF StatusInv, TypeOK, RegisterTypeOK, InspectionsTypeOK, CallsOK
\* The steps that move nothing lose no inspection.
<1>1. ASSUME NEW h \in Handler, StepOf(h, InspectionOps), InspectionCalls', InspectionsTypeOK',
             Stay, Unposted, \A a \in Asset : Inspecting(a) => Inspecting(a)'
      PROVE  StatusInv'
  <2>1. \A b \in Asset : Reason(b) => Reason(b)'
    BY <1>0, <1>1, HeldKept DEF Stay, InspectionOps, RepairOps, Reason, OnList, SignedAway, Shipped
  <2> QED BY <1>0, <1>1, <2>1, QuietStep, InspectionFrame
\* The steps that change only the handler's own call.
<1>2. ASSUME NEW h \in Handler, NEW c \in CallRecord, call' = [call EXCEPT ![h] = c],
             c.op \in InspectionOps, Unposted, Stay, UNCHANGED inspection,
             c.op # "inspections.create" =>
               /\ c.id \in InspectionId
               /\ c.on = inspection[c.id].on
               /\ inspection[c.id].status # "absent",
             c.op = "inspections.complete" =>
               /\ c.to \in {"clean", "damaged"}
               /\ c.src \in RetrievalId \cup {NoRef}
               /\ c.at # "outcome"
      PROVE  StatusInv'
  <2>1. StepOf(h, InspectionOps) /\ call'[h] = c
    BY <1>0, <1>2, CallStep
  <2>2. InspectionCalls'
    BY <1>0, <1>2, <2>1 DEF InspectionCalls, StepOf, InspectionOps
  <2>3. InspectionsTypeOK' /\ \A b \in Asset : Inspecting(b) => Inspecting(b)'
    BY <1>0, <1>2 DEF InspectionsTypeOK, Inspecting
  <2>4. Stay /\ Unposted
    BY <1>2
  <2> QED BY <1>1, <2>1, <2>2, <2>3, <2>4
<1>3. ASSUME NEW h \in Handler, NEW a \in Asset, InspectionsCreate(h, a)
      PROVE  StatusInv'
  <2> DEFINE c == Request("inspections.create", NoRef, {a}, "in_progress")
  <2>1. c \in CallRecord /\ c.op = "inspections.create"
    BY RequestType DEF Operation, Target
  <2>2. call' = [call EXCEPT ![h] = c] /\ Unposted /\ Stay /\ UNCHANGED inspection
    BY <1>3 DEF InspectionsCreate, Begin
  <2> HIDE DEF c
  <2> QED BY <1>2, <2>1, <2>2 DEF InspectionOps
<1>4. ASSUME NEW h \in Handler, InspectionsCreateWrite(h)
      PROVE  StatusInv'
  <2>1. /\ StepOf(h, InspectionOps) /\ call'[h].op = "idle"
        /\ \A g \in Handler \ {h} : call'[g] = call[g]
    BY <1>0, <1>4, ReplyStep DEF InspectionsCreateWrite
  <2>2. call[h].on \in SUBSET Asset /\ OpenInspection(call[h].on, NoRef)
    BY <1>0, <1>4 DEF CallRecord, InspectionsCreateWrite
  <2>3. /\ inspection' \in [InspectionId -> InspectionRecord]
        /\ \A i \in InspectionId : inspection[i].status # "absent" =>
                                   inspection'[i] = inspection[i]
        /\ \A a \in Asset : Inspecting(a) => Inspecting(a)'
    BY <1>0, <2>2, OpenInspectionKeeps
  <2>4. InspectionCalls'
    BY <1>0, <2>1, <2>3 DEF InspectionCalls
  <2> QED BY <1>1, <1>4, <2>1, <2>3, <2>4 DEF InspectionsCreateWrite, InspectionsTypeOK
<1>5. ASSUME NEW h \in Handler, NEW i \in InspectionId, InspectionsCancel(h, i)
      PROVE  StatusInv'
  <2> DEFINE q == Request("inspections.cancel", i, inspection[i].on, "cancelled")
             c == [q EXCEPT !.seen = Snapshot(inspection[i].on)]
  <2>1. q \in CallRecord /\ q.op = "inspections.cancel" /\ q.id = i /\ q.on = inspection[i].on
    BY <1>0, RequestType DEF Operation, Target, InspectionRecord
  <2>2. Snapshot(inspection[i].on) \in [Asset -> AssetStatus \cup {NoStatus}]
    BY <1>0, SnapshotType
  <2>3. /\ call' = [call EXCEPT ![h] = c] /\ Unposted /\ Stay /\ UNCHANGED inspection
        /\ inspection[i].status = "in_progress"
    BY <1>5 DEF InspectionsCancel, Begin
  <2> HIDE DEF q
  <2>4. c \in CallRecord
    BY <2>1, <2>2 DEF CallRecord
  <2>5. c.op = "inspections.cancel" /\ c.id = i /\ c.on = inspection[i].on
    BY <2>1 DEF CallRecord
  <2> HIDE DEF c
  <2> QED BY <1>2, <2>3, <2>4, <2>5 DEF InspectionOps
<1>6. ASSUME NEW h \in Handler, NEW i \in InspectionId, InspectionsComplete(h, i)
      PROVE  StatusInv'
  <2>1. PICK outcome \in {"clean", "damaged"} :
          Begin(h, [Request("inspections.complete", i, inspection[i].on, outcome)
                      EXCEPT !.seen = Snapshot(inspection[i].on),
                             !.src = inspection[i].retrieval])
    BY <1>6 DEF InspectionsComplete
  <2> DEFINE q == Request("inspections.complete", i, inspection[i].on, outcome)
             c == [q EXCEPT !.seen = Snapshot(inspection[i].on),
                            !.src = inspection[i].retrieval]
  <2>2. /\ q \in CallRecord /\ q.op = "inspections.complete" /\ q.id = i
        /\ q.on = inspection[i].on /\ q.to = outcome /\ q.at = "read"
    BY <1>0, RequestType DEF Operation, Target, InspectionRecord
  <2>3. /\ Snapshot(inspection[i].on) \in [Asset -> AssetStatus \cup {NoStatus}]
        /\ inspection[i].retrieval \in RetrievalId \cup {NoRef}
    BY <1>0, SnapshotType DEF InspectionRecord
  <2>4. /\ call' = [call EXCEPT ![h] = c] /\ Unposted /\ Stay /\ UNCHANGED inspection
        /\ inspection[i].status = "in_progress"
    BY <1>6, <2>1 DEF InspectionsComplete, Begin
  <2> HIDE DEF q
  <2>5. c \in CallRecord
    BY <2>2, <2>3 DEF CallRecord
  <2>6. /\ c.op = "inspections.complete" /\ c.id = i /\ c.on = inspection[i].on
        /\ c.to = outcome /\ c.at = "read" /\ c.src = inspection[i].retrieval
    BY <2>2 DEF CallRecord
  <2> HIDE DEF c
  <2> QED BY <1>2, <2>3, <2>4, <2>5, <2>6 DEF InspectionOps
<1>7. ASSUME NEW h \in Handler, InspectionsCompleteTx(h)
      PROVE  StatusInv'
  <2>1. PICK a \in call[h].on :
          call' = [call EXCEPT ![h] =
                     [@ EXCEPT !.at = "tx", !.held = call[h].on,
                               !.due = <<[do |-> "INSPECT", asset |-> a]>>]]
    BY <1>7 DEF InspectionsCompleteTx
  <2> DEFINE c == [call[h] EXCEPT !.at = "tx", !.held = call[h].on,
                                  !.due = <<[do |-> "INSPECT", asset |-> a]>>]
  <2>2. call[h] \in CallRecord /\ a \in Asset /\ "tx" \in Await
    BY <1>0 DEF CallRecord, Await
  <2>3. <<[do |-> "INSPECT", asset |-> a]>> \in Seq(Work)
    BY <2>2, WorkType DEF Event
  <2>4. c \in CallRecord
    BY <2>2, <2>3 DEF CallRecord
  <2>5. /\ c.op = call[h].op /\ c.id = call[h].id /\ c.on = call[h].on /\ c.to = call[h].to
        /\ c.src = call[h].src /\ c.at = "tx"
    BY <2>2 DEF CallRecord
  <2>6. /\ call' = [call EXCEPT ![h] = c] /\ Unposted /\ Stay /\ UNCHANGED inspection
        /\ call[h].op = "inspections.complete"
    BY <1>7, <2>1 DEF InspectionsCompleteTx, In
  <2> HIDE DEF c
  <2>7. /\ call[h].id \in InspectionId /\ call[h].on = inspection[call[h].id].on
        /\ inspection[call[h].id].status # "absent" /\ call[h].to \in {"clean", "damaged"}
        /\ call[h].src \in RetrievalId \cup {NoRef}
    BY <1>0, <2>6 DEF InspectionCalls
  <2> QED BY <1>2, <2>4, <2>5, <2>6, <2>7 DEF InspectionOps
\* The steps that put the assets of inspection i into storage.
<1>8. ASSUME NEW h \in Handler, StepOf(h, InspectionOps), InspectionCalls', Unposted,
             NEW i \in InspectionId, call[h].on = inspection[i].on,
             inspection' \in [InspectionId -> InspectionRecord],
             \A j \in InspectionId \ {i} : inspection'[j] = inspection[j],
             Move(h, call[h].on, call[h].seen, "in_storage", "inspections")
      PROVE  StatusInv'
  <2>1. /\ call[h].on \in SUBSET Asset
        /\ call[h].seen \in [Asset -> AssetStatus \cup {NoStatus}]
    BY <1>0 DEF CallRecord
  <2>2. \A b \in call[h].on : status'[b] = "in_storage" => Reason(b)'
    BY DEF Reason
  <2>3. \A b \in Asset \ call[h].on : Inspecting(b) => Inspecting(b)'
    BY <1>8 DEF Inspecting
  <2>4. \A b \in Asset \ call[h].on : status'[b] = status[b] /\ Reason(b) => Reason(b)'
    BY <1>0, <1>8, <2>3, HeldKept
    DEF Reason, OnList, SignedAway, Shipped, InspectionOps, RepairOps
  <2>5. /\ status' \in [Asset -> AssetStatus \cup {NoStatus}]
        /\ history' \in [Asset -> Seq(HistoryRow)]
        /\ unrecorded' \in SUBSET Asset
        /\ HistoryMatchesStatus' /\ Accounted'
    BY <1>8, <2>1, <2>2, <2>4, MoveStep DEF AssetStatus, Source
  <2> QED BY <1>8, <2>5, InspectionFrame DEF InspectionsTypeOK
<1>9. ASSUME NEW h \in Handler, InspectionsCancelTx(h)
      PROVE  StatusInv'
  <2>1. PICK i \in InspectionId : i = call[h].id /\ call[h].on = inspection[i].on
    BY <1>0, <1>9 DEF InspectionsCancelTx, In, InspectionCalls
  <2>2. /\ StepOf(h, InspectionOps) /\ call'[h].op = "idle"
        /\ \A g \in Handler \ {h} : call'[g] = call[g]
    BY <1>0, <1>9, ReplyStep DEF InspectionsCancelTx
  <2>3. /\ inspection' \in [InspectionId -> InspectionRecord]
        /\ inspection'[i].status = "cancelled" /\ inspection'[i].on = inspection[i].on
        /\ \A j \in InspectionId \ {i} : inspection'[j] = inspection[j]
    <3> DEFINE new == [inspection[i] EXCEPT !.status = "cancelled"]
    <3>1. inspection[i] \in InspectionRecord
      BY <1>0
    <3>2. new \in InspectionRecord /\ new.status = "cancelled" /\ new.on = inspection[i].on
      BY <2>1, <3>1 DEF InspectionRecord
    <3>3. inspection' = [inspection EXCEPT ![i] = new]
      BY <1>9, <2>1 DEF InspectionsCancelTx
    <3> HIDE DEF new
    <3> QED BY <1>0, <2>1, <3>2, <3>3
  <2>4. InspectionCalls'
    BY <1>0, <2>2, <2>3 DEF InspectionCalls
  <2> QED BY <1>8, <1>9, <2>1, <2>2, <2>3, <2>4 DEF InspectionsCancelTx
<1>10. ASSUME NEW h \in Handler, InspectionsCompleteCommit(h)
       PROVE  StatusInv'
  <2>1. PICK i \in InspectionId : i = call[h].id /\ call[h].on = inspection[i].on
    BY <1>0, <1>10 DEF InspectionsCompleteCommit, In, InspectionCalls
  <2>2. /\ call[h].op = "inspections.complete" /\ call[h].to \in {"clean", "damaged"}
        /\ call[h].src \in RetrievalId \cup {NoRef}
    BY <1>0, <1>10 DEF InspectionsCompleteCommit, In, InspectionCalls
  <2>3. /\ inspection' \in [InspectionId -> InspectionRecord]
        /\ inspection'[i].status = "completed" /\ inspection'[i].on = inspection[i].on
        /\ \A j \in InspectionId \ {i} : inspection'[j] = inspection[j]
    <3> DEFINE new == [inspection[i] EXCEPT !.status = "completed"]
    <3>1. inspection[i] \in InspectionRecord
      BY <1>0
    <3>2. new \in InspectionRecord /\ new.status = "completed" /\ new.on = inspection[i].on
      BY <2>1, <3>1 DEF InspectionRecord
    <3>3. inspection' = [inspection EXCEPT ![i] = new]
      BY <1>10, <2>1 DEF InspectionsCompleteCommit
    <3> HIDE DEF new
    <3> QED BY <1>0, <2>1, <3>2, <3>3
  <2>4. StepOf(h, InspectionOps) /\ InspectionCalls'
    <3>1. CASE call[h].src = NoRef
      <4>1. /\ StepOf(h, InspectionOps) /\ call'[h].op = "idle"
            /\ \A g \in Handler \ {h} : call'[g] = call[g]
        BY <1>0, <1>10, <3>1, ReplyStep DEF InspectionsCompleteCommit
      <4> QED BY <1>0, <2>3, <4>1 DEF InspectionCalls
    <3>2. CASE call[h].src # NoRef
      <4> DEFINE c == [call[h] EXCEPT !.at = "outcome", !.held = {}, !.seen = Unread]
      <4>1. /\ call[h] \in CallRecord /\ "outcome" \in Await
            /\ Unread \in [Asset -> AssetStatus \cup {NoStatus}]
        BY <1>0 DEF Await, Unread
      <4>2. c \in CallRecord
        BY <4>1 DEF CallRecord
      <4>3. /\ c.op = call[h].op /\ c.id = call[h].id /\ c.on = call[h].on
            /\ c.to = call[h].to /\ c.src = call[h].src
        BY <4>1 DEF CallRecord
      <4>4. call' = [call EXCEPT ![h] = c]
        BY <1>10, <3>2 DEF InspectionsCompleteCommit
      <4> HIDE DEF c
      <4>5. /\ StepOf(h, InspectionOps) /\ call'[h] = c
            /\ \A g \in Handler \ {h} : call'[g] = call[g]
        BY <1>0, <2>2, <4>2, <4>3, <4>4, CallStep DEF InspectionOps, StepOf
      <4>6. InspectionCalls'
        BY <1>0, <2>1, <2>2, <2>3, <3>2, <4>3, <4>5 DEF InspectionCalls
      <4> QED BY <4>5, <4>6
    <3> QED BY <3>1, <3>2
  <2> QED BY <1>8, <1>10, <2>1, <2>3, <2>4 DEF InspectionsCompleteCommit
<1> QED BY <1>3, <1>4, <1>5, <1>6, <1>7, <1>9, <1>10 DEF InspectionsNext

-----------------------------------------------------------------------------
(***************************************************************************)
(* RetrievalService                                                        *)
(***************************************************************************)
LEMMA RetrievalWorkType ==
    ASSUME NEW ask, NEW bundle \in DOMAIN RetrievalRate, NEW a \in Asset
    PROVE  RetrievalWork(a, bundle, ask) \in Seq(Work)
<1>1. RetrievalRate[bundle] \in Event
  BY DEF RetrievalRate, Event
<1>2. <<[do |-> RetrievalRate[bundle], asset |-> a]>> \in Seq(Work)
  BY <1>1, WorkType
<1>3. /\ Asked(ask, "TRANSPORT", a) \in Seq(Work)
      /\ Asked(ask, "RETRIEVAL_WIPE", a) \in Seq(Work)
  BY AskedType DEF Event
<1> QED BY <1>2, <1>3 DEF RetrievalWork

\* A retrieval only ever adds inspections.
LEMMA RetrievalFrame ==
    ASSUME StatusInv, UNCHANGED <<repair, listing, disposal, order, damage, edits>>,
           NEW h \in Handler, StepOf(h, RetrievalOps), RetrievalCalls', RetrievalTypeOK',
           inspection' \in [InspectionId -> InspectionRecord],
           \A i \in InspectionId : inspection[i].status # "absent" =>
                                   inspection'[i] = inspection[i],
           Unposted,
           status' \in [Asset -> AssetStatus \cup {NoStatus}],
           history' \in [Asset -> Seq(HistoryRow)],
           unrecorded' \in SUBSET Asset,
           HistoryMatchesStatus', Accounted'
    PROVE  StatusInv'
<1>1. InspectionCalls'
  BY DEF StatusInv, CallsOK, InspectionCalls, StepOf, RetrievalOps
<1>2. CallsOK'
  BY <1>1, RepairKept, ResaleKept, DisposalKept, DeploymentKept, AssetKept
  DEF StatusInv, CallsOK, RepairOps, ResaleOps, DisposalOps,
      RetrievalOps, DeploymentOps, AssetOps
<1>3. TypeOK'
  BY DEF StatusInv, TypeOK, RegisterTypeOK, StepOf, Unposted, RepairTypeOK, ResaleTypeOK,
     DisposalTypeOK, InspectionsTypeOK, DeploymentTypeOK, RedeployTypeOK, AssetsTypeOK
<1> QED BY <1>2, <1>3 DEF StatusInv

LEMMA RetrievalStep ==
    ASSUME StatusInv, RetrievalNext, UNCHANGED <<repair, listing, disposal, order, damage, edits>>
    PROVE  StatusInv'
<1> USE RegisterAssumption, InspectionsAssumption
<1>0. /\ call \in [Handler -> CallRecord]
      /\ retrieval \in [RetrievalId -> RetrievalRecord]
      /\ inspection \in [InspectionId -> InspectionRecord]
      /\ status \in [Asset -> AssetStatus \cup {NoStatus}]
      /\ RetrievalCalls
      /\ UNCHANGED <<repair, listing, disposal, order>>
  BY DEF StatusInv, TypeOK, RegisterTypeOK, RetrievalTypeOK, InspectionsTypeOK, CallsOK
\* The steps that change only the handler's own call.
<1>1. ASSUME NEW h \in Handler, NEW c \in CallRecord, call' = [call EXCEPT ![h] = c],
             c.op \in RetrievalOps, Unposted, Stay, UNCHANGED <<retrieval, inspection>>,
             c.op = "retrieval.create" =>
               /\ c.to \in DOMAIN RetrievalRate
               /\ c.at = "tx" => c.id \in RetrievalId,
             c.op = "retrieval.updateStatus" =>
               /\ c.id \in RetrievalId
               /\ c.to \in {"initiated", "in_transit", "received", "cancelled"}
      PROVE  StatusInv'
  <2>1. StepOf(h, RetrievalOps) /\ call'[h] = c
    BY <1>0, <1>1, CallStep
  <2>2. RetrievalCalls'
    BY <1>0, <1>1, <2>1 DEF RetrievalCalls, StepOf, RetrievalOps
  <2>3. \A b \in Asset : Reason(b) => Reason(b)'
    BY <1>0, <1>1, <2>1, HeldKept, ReasonKept DEF Stay, RetrievalOps, RepairOps
  <2>4. Stay /\ Unposted /\ UNCHANGED <<retrieval, inspection>>
    BY <1>1
  <2> QED BY <1>0, <2>1, <2>2, <2>3, <2>4, QuietStep, RetrievalFrame DEF RetrievalTypeOK
<1>2. ASSUME NEW h \in Handler, NEW a \in Asset, RetrievalCreate(h, a)
      PROVE  StatusInv'
  <2>1. PICK bundle \in DOMAIN RetrievalRate, ask \in SUBSET Optional :
          Begin(h, [Request("retrieval.create", NoRef, {a}, bundle)
                      EXCEPT !.due = RetrievalWork(a, bundle, ask)])
    BY <1>2 DEF RetrievalCreate
  <2> DEFINE q == Request("retrieval.create", NoRef, {a}, bundle)
             c == [q EXCEPT !.due = RetrievalWork(a, bundle, ask)]
  <2>2. /\ q \in CallRecord /\ q.op = "retrieval.create" /\ q.to = bundle /\ q.at = "read"
    BY RequestType DEF Operation, Target, RetrievalRate
  <2>3. RetrievalWork(a, bundle, ask) \in Seq(Work)
    BY RetrievalWorkType
  <2>4. /\ call' = [call EXCEPT ![h] = c] /\ Unposted /\ Stay
        /\ UNCHANGED <<retrieval, inspection>>
    BY <1>2, <2>1 DEF RetrievalCreate, Begin
  <2> HIDE DEF q
  <2>5. c \in CallRecord
    BY <2>2, <2>3 DEF CallRecord
  <2>6. c.op = "retrieval.create" /\ c.to = bundle /\ c.at = "read"
    BY <2>2 DEF CallRecord
  <2> HIDE DEF c
  <2> QED BY <1>1, <2>4, <2>5, <2>6 DEF RetrievalOps
<1>3. ASSUME NEW h \in Handler, RetrievalTx(h)
      PROVE  StatusInv'
  <2>1. PICK t \in RetrievalId :
          call' = [call EXCEPT ![h] = [@ EXCEPT !.at = "tx", !.id = t,
                                                !.seen = Snapshot(call[h].on)]]
    BY <1>3 DEF RetrievalTx
  <2> DEFINE c == [call[h] EXCEPT !.at = "tx", !.id = t, !.seen = Snapshot(call[h].on)]
  <2>2. /\ call[h] \in CallRecord /\ "tx" \in Await /\ t \in Ref
        /\ Snapshot(call[h].on) \in [Asset -> AssetStatus \cup {NoStatus}]
    BY <1>0, SnapshotType DEF Await
  <2>3. c \in CallRecord
    BY <2>2 DEF CallRecord
  <2>4. c.op = call[h].op /\ c.to = call[h].to /\ c.id = t
    BY <2>2 DEF CallRecord
  <2>5. /\ call' = [call EXCEPT ![h] = c] /\ Unposted /\ Stay
        /\ UNCHANGED <<retrieval, inspection>>
        /\ call[h].op = "retrieval.create"
    BY <1>3, <2>1 DEF RetrievalTx, In
  <2>6. call[h].to \in DOMAIN RetrievalRate
    BY <1>0, <2>5 DEF RetrievalCalls
  <2> HIDE DEF c
  <2> QED BY <1>1, <2>3, <2>4, <2>5, <2>6 DEF RetrievalOps
<1>4. ASSUME NEW h \in Handler, RetrievalCommit(h)
      PROVE  StatusInv'
  <2>1. PICK t \in RetrievalId : t = call[h].id
    BY <1>0, <1>4 DEF RetrievalCommit, In, RetrievalCalls
  <2>2. StepOf(h, RetrievalOps) /\ call'[h].op = "idle"
        /\ \A g \in Handler \ {h} : call'[g] = call[g]
    BY <1>0, <1>4, ReplyStep DEF RetrievalCommit
  <2>3. /\ call[h].on \in SUBSET Asset
        /\ call[h].seen \in [Asset -> AssetStatus \cup {NoStatus}]
        /\ call[h].to \in DOMAIN RetrievalRate
    BY <1>0, <1>4 DEF CallRecord, RetrievalCommit, In, RetrievalCalls
  <2>4. retrieval' \in [RetrievalId -> RetrievalRecord] /\ UNCHANGED inspection
    <3>1. PICK destination \in BOOLEAN :
            retrieval' = [retrieval EXCEPT ![call[h].id] =
              [status |-> "pending", on |-> call[h].on, bundle |-> call[h].to,
               destination |-> destination]]
      BY <1>4 DEF RetrievalCommit, FullCycle
    <3>2. [status |-> "pending", on |-> call[h].on, bundle |-> call[h].to,
           destination |-> destination] \in RetrievalRecord
      BY <2>3 DEF RetrievalRecord, RetrievalTransitions, RetrievalRate
    <3> QED BY <1>0, <1>4, <3>1, <3>2 DEF RetrievalCommit
  <2>5. RetrievalCalls'
    BY <1>0, <2>2 DEF RetrievalCalls
  <2>6. Move(h, call[h].on, call[h].seen, "returning", "retrieval")
    BY <1>4 DEF RetrievalCommit
  <2>7. \A b \in call[h].on : status'[b] = "returning" => Reason(b)'
    BY DEF Reason
  <2>8. \A b \in Asset : status'[b] = status[b] /\ Reason(b) => Reason(b)'
    BY <1>0, <2>2, <2>4, HeldKept, ReasonKept DEF RetrievalOps, RepairOps
  <2>9. /\ status' \in [Asset -> AssetStatus \cup {NoStatus}]
        /\ history' \in [Asset -> Seq(HistoryRow)]
        /\ unrecorded' \in SUBSET Asset
        /\ HistoryMatchesStatus' /\ Accounted'
    BY <2>3, <2>6, <2>7, <2>8, MoveStep DEF AssetStatus, Source
  <2> QED BY <1>0, <1>4, <2>2, <2>4, <2>5, <2>9, RetrievalFrame DEF RetrievalCommit, RetrievalTypeOK
<1>5. ASSUME NEW h \in Handler, NEW t \in RetrievalId, RetrievalUpdate(h, t)
      PROVE  StatusInv'
  <2>1. PICK to \in RetrievalTransitions[retrieval[t].status] :
          Begin(h, [Request("retrieval.updateStatus", t, retrieval[t].on, to)
                      EXCEPT !.seen = Snapshot(retrieval[t].on)])
    BY <1>5 DEF RetrievalUpdate
  <2> DEFINE q == Request("retrieval.updateStatus", t, retrieval[t].on, to)
             c == [q EXCEPT !.seen = Snapshot(retrieval[t].on)]
  <2>2. to \in {"initiated", "in_transit", "received", "cancelled"}
    BY <1>0, <2>1 DEF RetrievalTransitions, RetrievalRecord
  <2>3. /\ q \in CallRecord /\ q.op = "retrieval.updateStatus" /\ q.id = t /\ q.to = to
    BY <1>0, <2>2, RequestType DEF Operation, Target, RetrievalRecord
  <2>4. Snapshot(retrieval[t].on) \in [Asset -> AssetStatus \cup {NoStatus}]
    BY <1>0, SnapshotType
  <2>5. /\ call' = [call EXCEPT ![h] = c] /\ Unposted /\ Stay
        /\ UNCHANGED <<retrieval, inspection>>
    BY <1>5, <2>1 DEF RetrievalUpdate, Begin
  <2> HIDE DEF q
  <2>6. c \in CallRecord
    BY <2>3, <2>4 DEF CallRecord
  <2>7. c.op = "retrieval.updateStatus" /\ c.id = t /\ c.to = to
    BY <2>3 DEF CallRecord
  <2> HIDE DEF c
  <2> QED BY <1>1, <2>2, <2>5, <2>6, <2>7 DEF RetrievalOps
<1>6. ASSUME NEW h \in Handler, RetrievalUpdateTx(h)
      PROVE  StatusInv'
  <2>1. PICK t \in RetrievalId :
          t = call[h].id /\ call[h].to \in {"initiated", "in_transit", "received", "cancelled"}
    BY <1>0, <1>6 DEF RetrievalUpdateTx, In, RetrievalCalls
  <2>2. StepOf(h, RetrievalOps) /\ call'[h].op = "idle"
        /\ \A g \in Handler \ {h} : call'[g] = call[g]
    BY <1>0, <1>6, ReplyStep DEF RetrievalUpdateTx
  <2>3. /\ call[h].on \in SUBSET Asset
        /\ call[h].seen \in [Asset -> AssetStatus \cup {NoStatus}]
    BY <1>0 DEF CallRecord
  <2>4. retrieval' \in [RetrievalId -> RetrievalRecord]
    BY <1>0, <1>6, <2>1 DEF RetrievalUpdateTx, RetrievalRecord, RetrievalTransitions
  <2>5. RetrievalCalls'
    BY <1>0, <2>2 DEF RetrievalCalls
  <2>6. CASE call[h].to = "received"
    <3>1. /\ Move(h, call[h].on, call[h].seen, "in_inspection", "retrieval")
          /\ OpenInspection(call[h].on, t)
      BY <1>6, <2>1, <2>6 DEF RetrievalUpdateTx
    <3>2. /\ inspection' \in [InspectionId -> InspectionRecord]
          /\ \A i \in InspectionId : inspection[i].status # "absent" =>
                                     inspection'[i] = inspection[i]
          /\ \A a \in call[h].on : Inspecting(a)'
          /\ \A a \in Asset : Inspecting(a) => Inspecting(a)'
      BY <1>0, <2>3, <3>1, OpenInspectionKeeps
    <3>3. \A b \in call[h].on : status'[b] = "in_inspection" => Reason(b)'
      BY <3>2 DEF Reason
    <3>4. \A b \in Asset : status'[b] = status[b] /\ Reason(b) => Reason(b)'
      BY <1>0, <2>2, <3>2, HeldKept
      DEF RetrievalOps, RepairOps, Reason, OnList, SignedAway, Shipped
    <3>5. /\ status' \in [Asset -> AssetStatus \cup {NoStatus}]
          /\ history' \in [Asset -> Seq(HistoryRow)]
          /\ unrecorded' \in SUBSET Asset
          /\ HistoryMatchesStatus' /\ Accounted'
      BY <2>3, <3>1, <3>3, <3>4, MoveStep DEF AssetStatus, Source
    <3> QED BY <1>0, <1>6, <2>2, <2>4, <2>5, <3>2, <3>5, RetrievalFrame
            DEF RetrievalUpdateTx, RetrievalTypeOK
  <2>7. CASE call[h].to # "received"
    <3>1. Stay /\ UNCHANGED inspection
      BY <1>6, <2>7 DEF RetrievalUpdateTx
    <3>2. \A b \in Asset : Reason(b) => Reason(b)'
      BY <1>0, <2>2, <3>1, HeldKept, ReasonKept DEF Stay, RetrievalOps, RepairOps
    <3> QED BY <1>0, <1>6, <2>2, <2>4, <2>5, <3>1, <3>2, QuietStep, RetrievalFrame
            DEF RetrievalUpdateTx, RetrievalTypeOK
  <2> QED BY <2>6, <2>7
<1> QED BY <1>2, <1>3, <1>4, <1>5, <1>6 DEF RetrievalNext

-----------------------------------------------------------------------------
(***************************************************************************)
(* DeploymentService                                                       *)
(***************************************************************************)
LEMMA OrderRequestType ==
    ASSUME status \in [Asset -> AssetStatus \cup {NoStatus}],
           NEW s \in Seq(Asset) \ {<<>>}, NEW bundle \in DOMAIN BundleRate,
           NEW ask \in SUBSET Optional, NEW src \in RetrievalId \cup {NoRef}
    PROVE  /\ OrderRequest(s, bundle, ask, src) \in CallRecord
           /\ OrderRequest(s, bundle, ask, src).op = "deployment.create"
           /\ OrderRequest(s, bundle, ask, src).at = "read"
           /\ OrderRequest(s, bundle, ask, src).to = bundle
           /\ OrderRequest(s, bundle, ask, src).src = src
<1> DEFINE q == Request("deployment.create", NoRef, ToSet(s), bundle)
<1>1. q \in CallRecord /\ q.op = "deployment.create" /\ q.at = "read" /\ q.to = bundle
  BY RequestType, ToSetType DEF Operation, Target, BundleRate
<1>2. Snapshot(ToSet(s)) \in [Asset -> AssetStatus \cup {NoStatus}]
  BY SnapshotType
<1>3. Asked(ask, "TRANSPORT", Head(s)) \in Seq(Work)
  BY HeadTailProperties, AskedType DEF Event
<1>4. src \in Ref \cup {NoRef}
  BY InspectionsAssumption
<1>5. OrderRequest(s, bundle, ask, src) =
        [q EXCEPT !.seen = Snapshot(ToSet(s)), !.ask = ask,
                  !.due = Asked(ask, "TRANSPORT", Head(s)), !.rest = s, !.src = src]
  BY DEF OrderRequest
<1> HIDE DEF q
<1>6. OrderRequest(s, bundle, ask, src) \in CallRecord
  BY <1>1, <1>2, <1>3, <1>4, <1>5 DEF CallRecord
<1> QED BY <1>1, <1>5, <1>6 DEF CallRecord

LEMMA DeploymentFrame ==
    ASSUME StatusInv, UNCHANGED <<repair, listing, disposal, inspection, retrieval, damage, edits>>,
           NEW h \in Handler, StepOf(h, DeploymentOps), DeploymentCalls', DeploymentTypeOK',
           UNCHANGED <<ledger, failures>>, suppressed' \subseteq Nat \ {0},
           status' \in [Asset -> AssetStatus \cup {NoStatus}],
           history' \in [Asset -> Seq(HistoryRow)],
           unrecorded' \in SUBSET Asset,
           HistoryMatchesStatus', Accounted'
    PROVE  StatusInv'
<1>1. CallsOK'
  BY RepairKept, ResaleKept, DisposalKept, InspectionKept, RetrievalKept, AssetKept
  DEF StatusInv, CallsOK, RepairOps, ResaleOps, DisposalOps, InspectionOps,
      RetrievalOps, DeploymentOps, AssetOps
<1>2. TypeOK'
  BY DEF StatusInv, TypeOK, RegisterTypeOK, StepOf, RepairTypeOK, ResaleTypeOK,
     DisposalTypeOK, InspectionsTypeOK, RetrievalTypeOK, RedeployTypeOK, AssetsTypeOK
<1> QED BY <1>1, <1>2 DEF StatusInv

LEMMA DeploymentStep ==
    ASSUME StatusInv, DeploymentNext,
           UNCHANGED <<repair, listing, disposal, inspection, retrieval, damage, edits>>
    PROVE  StatusInv'
<1> USE RegisterAssumption, DeploymentAssumption
<1>0. /\ call \in [Handler -> CallRecord]
      /\ order \in [OrderId -> OrderRecord]
      /\ ledger \in Seq(LedgerRow)
      /\ suppressed \subseteq Nat \ {0}
      /\ status \in [Asset -> AssetStatus \cup {NoStatus}]
      /\ DeploymentCalls
      /\ UNCHANGED <<repair, listing, disposal, inspection>>
  BY DEF StatusInv, TypeOK, RegisterTypeOK, DeploymentTypeOK, CallsOK
\* The steps that change only the handler's own call.
<1>1. ASSUME NEW h \in Handler, StepOf(h, DeploymentOps), DeploymentCalls',
             Unposted, Stay, UNCHANGED order
      PROVE  StatusInv'
  <2>1. \A b \in Asset : Reason(b) => Reason(b)'
    BY <1>0, <1>1, HeldKept, ReasonKept DEF Stay, DeploymentOps, RepairOps
  <2>2. Stay /\ Unposted /\ DeploymentTypeOK'
    BY <1>0, <1>1 DEF DeploymentTypeOK
  <2> QED BY <1>0, <1>1, <2>1, <2>2, QuietStep, DeploymentFrame DEF Unposted
\* An open transaction goes on with the same order.
<1>2. ASSUME NEW h \in Handler, In(h, "deployment.create", "tx"),
             NEW c \in CallRecord, call' = [call EXCEPT ![h] = c],
             c.op = call[h].op, c.to = call[h].to, c.src = call[h].src, c.id = call[h].id,
             c.at \in {"tx", "aborted"}, Unposted, Stay, UNCHANGED order
      PROVE  StatusInv'
  <2>1. /\ StepOf(h, DeploymentOps) /\ call'[h] = c
        /\ \A g \in Handler \ {h} : call'[g] = call[g]
    BY <1>0, <1>2, CallStep DEF DeploymentOps, In, StepOf
  <2>2. DeploymentCalls'
    BY <1>0, <1>2, <2>1 DEF DeploymentCalls, In
  <2>3. Stay /\ Unposted /\ UNCHANGED order
    BY <1>2
  <2> QED BY <1>1, <2>1, <2>2, <2>3
<1>3. ASSUME NEW h \in Handler, DeploymentCreate(h)
      PROVE  StatusInv'
  <2>1. PICK s \in Shipment, bundle \in DOMAIN BundleRate, ask \in SUBSET Optional :
          Begin(h, OrderRequest(s, bundle, ask, NoRef))
    BY <1>3 DEF DeploymentCreate
  <2> DEFINE c == OrderRequest(s, bundle, ask, NoRef)
  <2>2. /\ c \in CallRecord /\ c.op = "deployment.create" /\ c.at = "read" /\ c.to = bundle
        /\ c.src = NoRef
    BY <1>0, OrderRequestType
  <2>3. call' = [call EXCEPT ![h] = c] /\ Unposted /\ Stay /\ UNCHANGED order
    BY <1>3, <2>1 DEF DeploymentCreate, Begin
  <2> HIDE DEF c
  <2>4. /\ StepOf(h, DeploymentOps) /\ call'[h] = c
        /\ \A g \in Handler \ {h} : call'[g] = call[g]
    BY <1>0, <2>2, <2>3, CallStep DEF DeploymentOps, StepOf
  <2>5. DeploymentCalls'
    BY <1>0, <2>2, <2>3, <2>4 DEF DeploymentCalls, In
  <2> QED BY <1>1, <2>3, <2>4, <2>5
<1>4. ASSUME NEW h \in Handler, DeploymentTx(h)
      PROVE  StatusInv'
  <2>1. PICK d \in OrderId :
          /\ order[d].status = "absent"
          /\ Fresh(d)
          /\ call' = [call EXCEPT ![h] = [@ EXCEPT !.at = "tx", !.id = d]]
    BY <1>4 DEF DeploymentTx
  <2> DEFINE c == [call[h] EXCEPT !.at = "tx", !.id = d]
  <2>2. call[h] \in CallRecord /\ "tx" \in Await /\ d \in Ref
    BY <1>0 DEF Await
  <2>3. c \in CallRecord
    BY <2>2 DEF CallRecord
  <2>4. c.op = call[h].op /\ c.to = call[h].to /\ c.src = call[h].src /\ c.id = d
    BY <2>2 DEF CallRecord
  <2>5. /\ call' = [call EXCEPT ![h] = c] /\ Unposted /\ Stay /\ UNCHANGED order
        /\ call[h].op = "deployment.create"
    BY <1>4, <2>1 DEF DeploymentTx, In
  <2> HIDE DEF c
  <2>6. /\ StepOf(h, DeploymentOps) /\ call'[h] = c
        /\ \A g \in Handler \ {h} : call'[g] = call[g] /\ call'[g].id # d
    BY <1>0, <2>1, <2>3, <2>4, <2>5, CallStep DEF DeploymentOps, StepOf, Fresh
  <2>7. DeploymentCalls'
    BY <1>0, <2>1, <2>4, <2>5, <2>6 DEF DeploymentCalls, In
  <2> QED BY <1>1, <2>5, <2>6, <2>7
<1>5. ASSUME NEW h \in Handler, DeploymentUpdateAsset(h)
      PROVE  StatusInv'
  <2>1. In(h, "deployment.create", "tx") /\ call[h].to \in DOMAIN BundleRate
    BY <1>0, <1>5 DEF DeploymentUpdateAsset, In, DeploymentCalls
  <2> DEFINE a == Head(call[h].rest)
             w == AssetWork(a, call[h].to, call[h].ask)
             c == [call[h] EXCEPT !.held = call[h].held \cup {a}, !.due = w,
                                  !.rest = Tail(call[h].rest)]
  <2>2. call[h].rest # <<>> /\ Unposted /\ Stay /\ UNCHANGED order
    BY <1>5 DEF DeploymentUpdateAsset
  <2>20. call' = [call EXCEPT ![h] = c]
    BY <1>5, Zenon DEF DeploymentUpdateAsset
  <2>3. call[h] \in CallRecord /\ call[h].rest \in Seq(Asset) /\ call[h].held \subseteq Asset
    BY <1>0 DEF CallRecord
  <2>4. a \in Asset /\ Tail(call[h].rest) \in Seq(Asset)
    BY <2>2, <2>3, HeadTailProperties
  <2>5. w \in Seq(Work)
    BY <2>1, <2>4, AssetWorkType
  <2>6. call[h].held \cup {a} \in SUBSET Asset
    BY <2>3, <2>4
  <2> HIDE DEF a, w
  <2>7. c \in CallRecord
    BY <2>3, <2>4, <2>5, <2>6 DEF CallRecord
  <2>8. /\ c.op = call[h].op /\ c.to = call[h].to /\ c.src = call[h].src /\ c.id = call[h].id
        /\ c.at = "tx"
    BY <2>1, <2>3 DEF CallRecord, In
  <2> HIDE DEF c
  <2> QED BY <1>2, <2>1, <2>2, <2>20, <2>7, <2>8
<1>6. ASSUME NEW h \in Handler, DeploymentSuppress(h)
      PROVE  StatusInv'
  <2>1. In(h, "deployment.create", "tx") /\ call[h].due # <<>>
    BY <1>6 DEF DeploymentSuppress
  <2> DEFINE rows == Components(Head(call[h].due).asset)
             c1 == [call[h] EXCEPT !.due = Tail(call[h].due), !.sup = call[h].sup \cup rows]
             c2 == [call[h] EXCEPT !.due = Tail(call[h].due), !.at = "aborted", !.held = {}]
  <2>2. Unposted /\ Stay /\ UNCHANGED order
    BY <1>6 DEF DeploymentSuppress
  <2>20. call' = [call EXCEPT ![h] = c1] \/ call' = [call EXCEPT ![h] = c2]
    BY <1>6, Zenon DEF DeploymentSuppress
  <2>3. /\ call[h] \in CallRecord /\ call[h].due \in Seq(Work) /\ call[h].sup \subseteq Nat \ {0}
        /\ "aborted" \in Await
    BY <1>0 DEF CallRecord, Await
  <2>4. Tail(call[h].due) \in Seq(Work)
    BY <2>1, <2>3, HeadTailProperties
  <2>5. call[h].sup \cup rows \in SUBSET (Nat \ {0})
    BY <1>0, <2>3, LenProperties DEF Components
  <2> HIDE DEF rows
  <2>6. c1 \in CallRecord /\ c2 \in CallRecord
    BY <2>3, <2>4, <2>5 DEF CallRecord
  <2>7. /\ c1.op = call[h].op /\ c1.to = call[h].to /\ c1.src = call[h].src /\ c1.id = call[h].id
        /\ c1.at = "tx"
    BY <2>1, <2>3 DEF CallRecord, In
  <2>8. /\ c2.op = call[h].op /\ c2.to = call[h].to /\ c2.src = call[h].src /\ c2.id = call[h].id
        /\ c2.at = "aborted"
    BY <2>1, <2>3 DEF CallRecord, In
  <2> HIDE DEF c1, c2
  <2> QED BY <1>2, <2>1, <2>2, <2>20, <2>6, <2>7, <2>8
<1>7. ASSUME NEW h \in Handler, DeploymentCommit(h)
      PROVE  StatusInv'
  <2>1. PICK d \in OrderId : d = call[h].id /\ order[d].status = "absent"
    BY <1>0, <1>7 DEF DeploymentCommit, In, DeploymentCalls
  <2>2. /\ \A g \in Handler \ {h} : In(g, "deployment.create", "tx") => call[g].id # d
        /\ call[h].to \in DOMAIN BundleRate /\ call[h].src \in RetrievalId \cup {NoRef}
        /\ call[h].op = "deployment.create"
    BY <1>0, <1>7, <2>1 DEF DeploymentCommit, In, DeploymentCalls
  <2> DEFINE c == [call[h] EXCEPT !.at = "answered", !.held = {}, !.sup = {}]
  <2>3. /\ call[h] \in CallRecord /\ "answered" \in Await
        /\ call[h].on \in SUBSET Asset /\ call[h].sup \subseteq Nat \ {0}
        /\ call[h].seen \in [Asset -> AssetStatus \cup {NoStatus}]
    BY <1>0 DEF CallRecord, Await
  <2>4. c \in CallRecord
    BY <2>3 DEF CallRecord
  <2>5. /\ c.op = call[h].op /\ c.to = call[h].to /\ c.src = call[h].src /\ c.id = call[h].id
        /\ c.at = "answered"
    BY <2>3 DEF CallRecord
  <2>6. call' = [call EXCEPT ![h] = c]
    BY <1>7 DEF DeploymentCommit
  <2> HIDE DEF c
  <2>7. /\ StepOf(h, DeploymentOps) /\ call'[h] = c
        /\ \A g \in Handler \ {h} : call'[g] = call[g]
    BY <1>0, <2>2, <2>4, <2>5, <2>6, CallStep DEF DeploymentOps, StepOf
  <2>8. /\ order' \in [OrderId -> OrderRecord]
        /\ order'[d].status = "pending" /\ order'[d].on = call[h].on
        /\ \A e \in OrderId \ {d} : order'[e] = order[e]
    BY <1>0, <1>7, <2>1, <2>3 DEF DeploymentCommit, OrderRecord, DeploymentTransitions
  <2>9. DeploymentCalls'
    <3>1. \A e \in OrderId : order[e].status # "absent" => order'[e].status # "absent"
      BY <2>8
    <3>2. \A g \in Handler \ {h} : In(g, "deployment.create", "tx")' =>
             order'[call'[g].id].status = "absent"
      BY <1>0, <2>2, <2>7, <2>8 DEF DeploymentCalls, In
    <3>3. ~ In(h, "deployment.create", "tx")' /\ call'[h].op = "deployment.create"
      BY <2>2, <2>5, <2>7 DEF In
    <3>4. call'[h].to = call[h].to /\ call'[h].src = call[h].src /\ call'[h].id = d
      BY <2>1, <2>5, <2>7
    <3> QED BY <1>0, <2>2, <2>7, <3>1, <3>2, <3>3, <3>4 DEF DeploymentCalls, In
  <2>10. Move(h, call[h].on, call[h].seen, "deployed", "deployment")
    BY <1>7 DEF DeploymentCommit
  <2>11. \A b \in call[h].on : status'[b] = "deployed" => Reason(b)'
    BY <2>8 DEF Reason, Shipped
  <2>12. \A b \in Asset : status'[b] = status[b] /\ Reason(b) => Reason(b)'
    <3>1. \A b \in Asset : Held(b) => Held(b)'
      BY <1>0, <2>7, HeldKept DEF DeploymentOps, RepairOps
    <3>2. \A b \in Asset : Shipped(b) => Shipped(b)'
      BY <2>1, <2>8 DEF Shipped
    <3> QED BY <1>0, <3>1, <3>2 DEF Reason, OnList, SignedAway, Inspecting
  <2>13. /\ status' \in [Asset -> AssetStatus \cup {NoStatus}]
         /\ history' \in [Asset -> Seq(HistoryRow)]
         /\ unrecorded' \in SUBSET Asset
         /\ HistoryMatchesStatus' /\ Accounted'
    BY <2>3, <2>10, <2>11, <2>12, MoveStep DEF AssetStatus, Source
  <2>14. suppressed' \subseteq Nat \ {0} /\ UNCHANGED <<ledger, failures>>
    BY <1>0, <1>7, <2>3 DEF DeploymentCommit
  <2> QED BY <1>0, <2>7, <2>8, <2>9, <2>13, <2>14, DeploymentFrame DEF DeploymentTypeOK
\* The answer of a call, or its end.
<1>8. ASSUME NEW h \in Handler, Reply(h), Unposted, Stay, UNCHANGED order
      PROVE  StatusInv'
  <2>1. /\ StepOf(h, DeploymentOps) /\ call'[h].op = "idle" /\ call'[h].at = "idle"
        /\ \A g \in Handler \ {h} : call'[g] = call[g]
    BY <1>0, <1>8, ReplyStep
  <2>2. DeploymentCalls'
    BY <1>0, <1>8, <2>1 DEF DeploymentCalls, In
  <2>3. Stay /\ Unposted /\ UNCHANGED order
    BY <1>8
  <2> QED BY <1>1, <2>1, <2>2, <2>3
<1>9. ASSUME NEW h \in Handler, DeploymentAborted(h)
      PROVE  StatusInv'
  <2>1. CASE call[h].rest # <<>>
    BY <1>8, <1>9, <2>1 DEF DeploymentAborted
  <2>2. CASE call[h].rest = <<>>
    <3> DEFINE c == [call[h] EXCEPT !.at = "answered", !.sup = {}]
    <3>1. /\ call[h] \in CallRecord /\ "answered" \in Await
      BY <1>0 DEF Await
    <3>2. c \in CallRecord
      BY <3>1 DEF CallRecord
    <3>3. /\ c.op = call[h].op /\ c.to = call[h].to /\ c.src = call[h].src /\ c.id = call[h].id
          /\ c.at = "answered"
      BY <3>1 DEF CallRecord
    <3>4. /\ call' = [call EXCEPT ![h] = c] /\ Unposted /\ Stay /\ UNCHANGED order
          /\ call[h].op = "deployment.create" /\ call[h].at = "aborted"
      BY <1>9, <2>2 DEF DeploymentAborted, In
    <3> HIDE DEF c
    <3>5. /\ StepOf(h, DeploymentOps) /\ call'[h] = c
          /\ \A g \in Handler \ {h} : call'[g] = call[g]
      BY <1>0, <3>2, <3>3, <3>4, CallStep DEF DeploymentOps, StepOf
    <3>6. DeploymentCalls'
      BY <1>0, <3>3, <3>4, <3>5 DEF DeploymentCalls, In
    <3> QED BY <1>1, <3>4, <3>5, <3>6
  <2> QED BY <2>1, <2>2
<1>10. ASSUME NEW h \in Handler, DeploymentAnswer(h)
       PROVE  StatusInv'
  BY <1>8, <1>10 DEF DeploymentAnswer
<1>11. ASSUME NEW h \in Handler, NEW d \in OrderId, DeploymentUpdate(h, d)
       PROVE  StatusInv'
  <2>1. PICK to \in DeploymentTransitions[order[d].status] :
          Begin(h, Request("deployment.updateStatus", d, {}, to))
    BY <1>11 DEF DeploymentUpdate
  <2> DEFINE c == Request("deployment.updateStatus", d, {}, to)
  <2>2. to \in {"in_transit", "delivered", "cancelled"} /\ order[d].status # "absent"
    BY <1>0, <2>1 DEF DeploymentTransitions, OrderRecord
  <2>3. c \in CallRecord /\ c.op = "deployment.updateStatus" /\ c.id = d /\ c.to = to
    BY <2>2, RequestType DEF Operation, Target
  <2>4. call' = [call EXCEPT ![h] = c] /\ Unposted /\ Stay /\ UNCHANGED order
    BY <1>11, <2>1 DEF DeploymentUpdate, Begin
  <2> HIDE DEF c
  <2>5. /\ StepOf(h, DeploymentOps) /\ call'[h] = c
        /\ \A g \in Handler \ {h} : call'[g] = call[g]
    BY <1>0, <2>3, <2>4, CallStep DEF DeploymentOps, StepOf
  <2>6. DeploymentCalls'
    BY <1>0, <2>2, <2>3, <2>4, <2>5 DEF DeploymentCalls, In
  <2> QED BY <1>1, <2>4, <2>5, <2>6
<1>12. ASSUME NEW h \in Handler, DeploymentUpdateWrite(h)
       PROVE  StatusInv'
  <2>1. PICK d \in OrderId : /\ d = call[h].id /\ order[d].status # "absent"
                             /\ call[h].to \in {"in_transit", "delivered", "cancelled"}
    BY <1>0, <1>12 DEF DeploymentUpdateWrite, In, DeploymentCalls
  <2>2. /\ StepOf(h, DeploymentOps) /\ call'[h].op = "idle" /\ call'[h].at = "idle"
        /\ \A g \in Handler \ {h} : call'[g] = call[g]
    BY <1>0, <1>12, ReplyStep DEF DeploymentUpdateWrite
  <2>3. /\ order' \in [OrderId -> OrderRecord]
        /\ order'[d].status = call[h].to /\ order'[d].on = order[d].on
        /\ \A e \in OrderId \ {d} : order'[e] = order[e]
    <3> DEFINE new == [order[d] EXCEPT !.status = call[h].to]
    <3>1. order[d] \in OrderRecord
      BY <1>0
    <3>2. new \in OrderRecord /\ new.status = call[h].to /\ new.on = order[d].on
      BY <2>1, <3>1 DEF OrderRecord, DeploymentTransitions
    <3>3. order' = [order EXCEPT ![d] = new]
      BY <1>12, <2>1 DEF DeploymentUpdateWrite
    <3> HIDE DEF new
    <3> QED BY <1>0, <2>1, <3>2, <3>3
  <2>4. DeploymentCalls'
    <3>1. \A e \in OrderId : order[e].status # "absent" => order'[e].status # "absent"
      BY <2>1, <2>3
    <3>2. \A e \in OrderId : order[e].status = "absent" => order'[e].status = "absent"
      BY <2>1, <2>3
    <3> QED BY <1>0, <2>2, <3>1, <3>2 DEF DeploymentCalls, In
  <2>5. \A b \in Asset : Shipped(b) => Shipped(b)'
    BY <2>1, <2>3 DEF Shipped
  <2>6. Stay /\ Unposted
    BY <1>12 DEF DeploymentUpdateWrite
  <2>7. \A b \in Asset : Reason(b) => Reason(b)'
    BY <1>0, <2>2, <2>5, <2>6, HeldKept
    DEF Stay, DeploymentOps, RepairOps, Reason, OnList, SignedAway, Inspecting
  <2> QED BY <1>0, <2>2, <2>3, <2>4, <2>6, <2>7, QuietStep, DeploymentFrame
          DEF DeploymentTypeOK, Unposted
<1> QED BY <1>3, <1>4, <1>5, <1>6, <1>7, <1>9, <1>10, <1>11, <1>12 DEF DeploymentNext

-----------------------------------------------------------------------------
(***************************************************************************)
(* The automatic redeployment, asset registration, and the code every call *)
(* shares.                                                                 *)
(***************************************************************************)
LEMMA RedeployStep ==
    ASSUME StatusInv, RedeployNext, UNCHANGED <<repair, listing, disposal, edits>>
    PROVE  StatusInv'
<1> USE RegisterAssumption, InspectionsAssumption, DeploymentAssumption
<1>0. /\ call \in [Handler -> CallRecord]
      /\ retrieval \in [RetrievalId -> RetrievalRecord]
      /\ damage \in [RetrievalId -> {"unknown", "clean", "damaged"}]
      /\ status \in [Asset -> AssetStatus \cup {NoStatus}]
      /\ CallsOK
  BY DEF StatusInv, TypeOK, RegisterTypeOK, RetrievalTypeOK, RedeployTypeOK
<1>1. PICK h \in Handler : RedeployOutcome(h) \/ RedeployComplete(h)
  BY DEF RedeployNext
<1>2. Stay /\ Unposted /\ UNCHANGED <<repair, listing, disposal, inspection, order, edits>>
  BY <1>1 DEF RedeployOutcome, RedeployComplete
\* Both end in a call that is idle or creates an order.
<1>3. ASSUME StepOf(h, DeploymentOps), DeploymentCalls',
             retrieval' \in [RetrievalId -> RetrievalRecord],
             damage' \in [RetrievalId -> {"unknown", "clean", "damaged"}]
      PROVE  StatusInv'
  <2>1. \A b \in Asset : Reason(b) => Reason(b)'
    BY <1>2, <1>3, HeldKept, ReasonKept DEF Stay, DeploymentOps, RepairOps
  <2>2. CallsOK'
    BY <1>0, <1>2, <1>3, RepairKept, ResaleKept, DisposalKept, InspectionKept, RetrievalKept,
       AssetKept
    DEF CallsOK, RepairOps, ResaleOps, DisposalOps, InspectionOps, RetrievalOps,
        DeploymentOps, AssetOps
  <2>3. /\ status' \in [Asset -> AssetStatus \cup {NoStatus}]
        /\ history' \in [Asset -> Seq(HistoryRow)]
        /\ unrecorded' \in SUBSET Asset
        /\ HistoryMatchesStatus' /\ Accounted'
    BY <1>2, <2>1, QuietStep
  <2>4. TypeOK'
    BY <1>2, <1>3, <2>3 DEF StatusInv, TypeOK, RegisterTypeOK, StepOf, Unposted, RepairTypeOK,
       ResaleTypeOK, DisposalTypeOK, InspectionsTypeOK, RetrievalTypeOK, DeploymentTypeOK,
       RedeployTypeOK, AssetsTypeOK
  <2> QED BY <2>2, <2>3, <2>4 DEF StatusInv
<1>4. ASSUME Reply(h)
      PROVE  StepOf(h, DeploymentOps) /\ DeploymentCalls'
  <2>1. /\ StepOf(h, DeploymentOps) /\ call'[h].op = "idle" /\ call'[h].at = "idle"
        /\ \A g \in Handler \ {h} : call'[g] = call[g]
    BY <1>0, <1>4, ReplyStep
  <2>2. DeploymentCalls
    BY <1>0 DEF CallsOK
  <2>3. UNCHANGED order
    BY <1>2
  <2> QED BY <2>1, <2>2, <2>3 DEF DeploymentCalls, In
<1>5. CASE RedeployOutcome(h)
  <2>1. PICK t \in RetrievalId : t = call[h].src /\ call[h].to \in {"clean", "damaged"}
    BY <1>0, <1>5 DEF RedeployOutcome, In, CallsOK, InspectionCalls
  <2>2. /\ retrieval' \in [RetrievalId -> RetrievalRecord]
        /\ damage' \in [RetrievalId -> {"unknown", "clean", "damaged"}]
    BY <1>0, <1>5, <2>1 DEF RedeployOutcome
  <2>3. CASE Reply(h)
    BY <1>3, <1>4, <2>2, <2>3
  <2>4. CASE \E a \in retrieval[t].on, bundle \in DOMAIN BundleRate,
                ask \in SUBSET (Optional \cap {"TRANSPORT"}) :
               call' = [call EXCEPT ![h] = OrderRequest(<<a>>, bundle, ask, t)]
    <3>1. PICK a \in retrieval[t].on, bundle \in DOMAIN BundleRate,
               ask \in SUBSET (Optional \cap {"TRANSPORT"}) :
                 call' = [call EXCEPT ![h] = OrderRequest(<<a>>, bundle, ask, t)]
      BY <2>4
    <3> DEFINE s == <<a>>
               c == OrderRequest(s, bundle, ask, t)
    <3>2. a \in Asset
      BY <1>0 DEF RetrievalRecord
    <3>3. s \in Seq(Asset) \ {<<>>} /\ ask \in SUBSET Optional
      BY <3>2
    <3>31. call' = [call EXCEPT ![h] = c]
      BY <3>1
    <3> HIDE DEF s
    <3>4. /\ c \in CallRecord /\ c.op = "deployment.create" /\ c.at = "read" /\ c.to = bundle
          /\ c.src = t
      <4>1. t \in RetrievalId \cup {NoRef} /\ bundle \in DOMAIN BundleRate
        BY <2>1, <3>1
      <4> QED BY <1>0, <3>3, <4>1, OrderRequestType
    <3> HIDE DEF c
    <3>5. /\ StepOf(h, DeploymentOps) /\ call'[h] = c
          /\ \A g \in Handler \ {h} : call'[g] = call[g]
      BY <1>0, <3>31, <3>4, CallStep DEF DeploymentOps, StepOf
    <3>6. DeploymentCalls'
      BY <1>0, <1>2, <3>4, <3>5 DEF CallsOK, DeploymentCalls, In
    <3> QED BY <1>3, <2>2, <3>5, <3>6
  <2> QED BY <1>5, <2>1, <2>3, <2>4 DEF RedeployOutcome
<1>6. CASE RedeployComplete(h)
  <2>1. PICK t \in RetrievalId : t = call[h].src
    BY <1>0, <1>6 DEF RedeployComplete, In, CallsOK, DeploymentCalls
  <2>2. /\ retrieval' \in [RetrievalId -> RetrievalRecord]
        /\ damage' \in [RetrievalId -> {"unknown", "clean", "damaged"}]
    <3> DEFINE new == [retrieval[t] EXCEPT !.status = "completed"]
    <3>1. retrieval[t] \in RetrievalRecord
      BY <1>0
    <3>2. new \in RetrievalRecord
      BY <3>1 DEF RetrievalRecord, RetrievalTransitions
    <3>3. retrieval' = [retrieval EXCEPT ![t] = new] /\ UNCHANGED damage
      BY <1>6, <2>1 DEF RedeployComplete
    <3> HIDE DEF new
    <3> QED BY <1>0, <3>2, <3>3
  <2> QED BY <1>3, <1>4, <1>6, <2>2 DEF RedeployComplete
<1> QED BY <1>1, <1>5, <1>6

LEMMA AssetsStep ==
    ASSUME StatusInv, AssetsNext, UNCHANGED <<repair, listing, disposal, redeployVars>>
    PROVE  StatusInv'
<1> USE RegisterAssumption, AssetsAssumption
<1>0. /\ call \in [Handler -> CallRecord]
      /\ status \in [Asset -> AssetStatus \cup {NoStatus}]
      /\ CallsOK
      /\ UNCHANGED <<repair, listing, disposal, inspection, retrieval, order, damage>>
  BY DEF StatusInv, TypeOK, RegisterTypeOK, redeployVars
<1>1. ASSUME NEW h \in Handler, StepOf(h, AssetOps), AssetCalls', Unposted, edits' \in 0..MaxEdits,
             status' \in [Asset -> AssetStatus \cup {NoStatus}],
             history' \in [Asset -> Seq(HistoryRow)],
             unrecorded' \in SUBSET Asset,
             HistoryMatchesStatus', Accounted'
      PROVE  StatusInv'
  <2>1. CallsOK'
    BY <1>0, <1>1, RepairKept, ResaleKept, DisposalKept, InspectionKept, RetrievalKept,
       DeploymentKept
    DEF CallsOK, RepairOps, ResaleOps, DisposalOps, InspectionOps, RetrievalOps,
        DeploymentOps, AssetOps
  <2>2. TypeOK'
    BY <1>0, <1>1 DEF StatusInv, TypeOK, RegisterTypeOK, StepOf, Unposted, RepairTypeOK,
       ResaleTypeOK, DisposalTypeOK, InspectionsTypeOK, RetrievalTypeOK, DeploymentTypeOK,
       RedeployTypeOK, AssetsTypeOK
  <2> QED BY <1>1, <2>1, <2>2 DEF StatusInv
<1>2. ASSUME NEW h \in Handler, StepOf(h, AssetOps), Stay
      PROVE  /\ status' \in [Asset -> AssetStatus \cup {NoStatus}]
             /\ history' \in [Asset -> Seq(HistoryRow)]
             /\ unrecorded' \in SUBSET Asset
             /\ HistoryMatchesStatus' /\ Accounted'
  <2>1. \A b \in Asset : Reason(b) => Reason(b)'
    BY <1>0, <1>2, HeldKept, ReasonKept DEF Stay, AssetOps, RepairOps
  <2> QED BY <1>2, <2>1, QuietStep
<1>3. ASSUME NEW h \in Handler, NEW a \in Asset, AssetsCreate(h, a)
      PROVE  StatusInv'
  <2>1. PICK s \in FormStatus : Begin(h, Request("assets.create", NoRef, {a}, s))
    BY <1>3 DEF AssetsCreate
  <2> DEFINE c == Request("assets.create", NoRef, {a}, s)
  <2>2. c \in CallRecord /\ c.op = "assets.create" /\ c.to = s
    BY RequestType DEF Operation, Target
  <2>3. call' = [call EXCEPT ![h] = c] /\ Stay /\ Unposted /\ edits' \in 0..MaxEdits
    BY <1>3, <2>1 DEF AssetsCreate, Begin, StatusInv, TypeOK, AssetsTypeOK
  <2> HIDE DEF c
  <2>4. /\ StepOf(h, AssetOps) /\ call'[h] = c
        /\ \A g \in Handler \ {h} : call'[g] = call[g]
    BY <1>0, <2>2, <2>3, CallStep DEF AssetOps, StepOf
  <2>5. AssetCalls'
    BY <1>0, <2>2, <2>4 DEF CallsOK, AssetCalls
  <2> QED BY <1>1, <1>2, <2>3, <2>4, <2>5
<1>4. ASSUME NEW h \in Handler, AssetsCreateTx(h)
      PROVE  StatusInv'
  <2>1. /\ StepOf(h, AssetOps) /\ call'[h].op = "idle"
        /\ \A g \in Handler \ {h} : call'[g] = call[g]
    BY <1>0, <1>4, ReplyStep DEF AssetsCreateTx
  <2>2. AssetCalls' /\ Unposted /\ edits' \in 0..MaxEdits
    BY <1>0, <1>4, <2>1 DEF CallsOK, AssetCalls, AssetsCreateTx, StatusInv, TypeOK, AssetsTypeOK
  <2>3. /\ call[h].on \in SUBSET Asset /\ call[h].to \in AssetStatus
        /\ Unread \in [Asset -> AssetStatus \cup {NoStatus}]
    BY <1>0, <1>4 DEF CallRecord, CallsOK, AssetCalls, AssetsCreateTx, In, Unread
  <2>4. CASE Move(h, call[h].on, Unread, call[h].to, "assets")
    <3>1. \A b \in Asset : status'[b] = status[b] /\ Reason(b) => Reason(b)'
      BY <1>0, <2>1, HeldKept, ReasonKept DEF AssetOps, RepairOps
    <3>2. /\ status' \in [Asset -> AssetStatus \cup {NoStatus}]
          /\ history' \in [Asset -> Seq(HistoryRow)]
          /\ unrecorded' \in SUBSET Asset
          /\ HistoryMatchesStatus' /\ Accounted'
      BY <2>3, <2>4, <3>1, MoveStep DEF Source
    <3> QED BY <1>1, <2>1, <2>2, <3>2
  <2>5. CASE Stay
    BY <1>1, <1>2, <2>1, <2>2, <2>5
  <2> QED BY <1>4, <2>4, <2>5 DEF AssetsCreateTx
<1>5. ASSUME NEW h \in Handler, NEW a \in Asset, AssetsUpdate(h, a)
      PROVE  StatusInv'
  <2> DEFINE c(s) == [Request("assets.updateStatus", NoRef, {a}, s) EXCEPT !.seen = Snapshot({a})]
  <2>1. PICK s \in FormStatus : Begin(h, c(s))
    BY <1>5 DEF AssetsUpdate
  <2>2. c(s) \in CallRecord /\ c(s).op = "assets.updateStatus" /\ c(s).to = s
    <3>1. Request("assets.updateStatus", NoRef, {a}, s) \in CallRecord
      BY RequestType DEF Operation, Target
    <3>2. Snapshot({a}) \in [Asset -> AssetStatus \cup {NoStatus}]
      BY <1>0, SnapshotType
    <3> QED BY <3>1, <3>2 DEF CallRecord, Request, Idle
  <2> HIDE DEF c
  <2>3. /\ call' = [call EXCEPT ![h] = c(s)] /\ Stay /\ Unposted
        /\ edits' \in 0..MaxEdits
    <3>1. edits \in 0..MaxEdits /\ MaxEdits \in Nat
      BY DEF StatusInv, TypeOK, AssetsTypeOK
    <3>2. edits < MaxEdits /\ edits' = edits + 1 /\ Stay /\ Unposted
      BY <1>5 DEF AssetsUpdate
    <3> QED BY <2>1, <3>1, <3>2 DEF Begin
  <2>4. /\ StepOf(h, AssetOps) /\ call'[h] = c(s)
        /\ \A g \in Handler \ {h} : call'[g] = call[g]
    BY <1>0, <2>2, <2>3, CallStep DEF AssetOps, StepOf
  <2>5. AssetCalls'
    BY <1>0, <2>2, <2>4 DEF CallsOK, AssetCalls
  <2> QED BY <1>1, <1>2, <2>3, <2>4, <2>5
<1>6. ASSUME NEW h \in Handler, AssetsUpdateTx(h)
      PROVE  StatusInv'
  <2> DEFINE S == call[h].on
  <2>1. /\ StepOf(h, AssetOps) /\ call'[h].op = "idle"
        /\ \A g \in Handler \ {h} : call'[g] = call[g]
    BY <1>0, <1>6, ReplyStep DEF AssetsUpdateTx
  <2>2. AssetCalls' /\ Unposted /\ edits' \in 0..MaxEdits
    BY <1>0, <1>6, <2>1 DEF CallsOK, AssetCalls, AssetsUpdateTx, StatusInv, TypeOK, AssetsTypeOK
  <2>3. /\ S \in SUBSET Asset /\ call[h].to \in AssetStatus
        /\ call[h].seen \in [Asset -> AssetStatus \cup {NoStatus}]
    BY <1>0, <1>6 DEF CallRecord, CallsOK, AssetCalls, AssetsUpdateTx, In
  <2>4. \A b \in Asset : status'[b] = status[b] /\ Reason(b) => Reason(b)'
    BY <1>0, <2>1, HeldKept, ReasonKept DEF AssetOps, RepairOps
  <2>5. CASE Move(h, S, call[h].seen, call[h].to, "assets")
    <3>1. /\ status' \in [Asset -> AssetStatus \cup {NoStatus}]
          /\ history' \in [Asset -> Seq(HistoryRow)]
          /\ unrecorded' \in SUBSET Asset
          /\ HistoryMatchesStatus' /\ Accounted'
      BY <2>3, <2>4, <2>5, MoveStep DEF Source
    <3> QED BY <1>1, <2>1, <2>2, <3>1
  \* Without a row: whose status changes is on the list of those.
  <2>6. CASE /\ status' = [a \in Asset |-> IF a \in S THEN call[h].to ELSE status[a]]
             /\ unrecorded' = unrecorded \cup {a \in S : status[a] # call[h].to}
             /\ UNCHANGED history
    <3>1. \A a \in Asset \ unrecorded' : a \notin unrecorded /\ status'[a] = status[a]
      BY <1>0, <2>6
    <3>2. HistoryMatchesStatus'
      BY <2>6, <3>1 DEF StatusInv, HistoryMatchesStatus, LastStatus
    <3>3. Accounted'
      <4> SUFFICES ASSUME NEW a \in Asset, ~ SetByHand(a)' PROVE Reason(a)'
        BY DEF Accounted
      <4>1. status'[a] = status[a] /\ ~ SetByHand(a)
        BY <2>6, <3>1 DEF SetByHand
      <4> QED BY <2>4, <4>1 DEF StatusInv, Accounted
    <3>4. /\ status' \in [Asset -> AssetStatus \cup {NoStatus}]
          /\ history' \in [Asset -> Seq(HistoryRow)]
          /\ unrecorded' \in SUBSET Asset
      BY <1>0, <2>3, <2>6 DEF StatusInv, TypeOK, RegisterTypeOK
    <3> QED BY <1>1, <2>1, <2>2, <3>2, <3>3, <3>4
  <2> QED BY <1>6, <2>5, <2>6 DEF AssetsUpdateTx
<1> QED BY <1>3, <1>4, <1>5, <1>6 DEF AssetsNext

LEMMA CallStepKeeps ==
    ASSUME StatusInv, CallNext
    PROVE  StatusInv'
<1> USE RegisterAssumption
<1>0. /\ call \in [Handler -> CallRecord]
      /\ ledger \in Seq(LedgerRow)
      /\ failures \in 0 .. MaxFailures
      /\ CallsOK
      /\ UNCHANGED <<repair, listing, disposal, inspection, retrieval, order, damage, edits>>
  BY DEF StatusInv, TypeOK, RegisterTypeOK, CallNext, requestVars, redeployVars
<1>1. PICK h \in Handler : PostRow(h) \/ Fail(h)
  BY DEF CallNext
<1>2. Stay /\ UNCHANGED suppressed
  BY <1>1 DEF PostRow, Fail, Stay
\* Either way the call ends, or is the same in everything CallsOK is about.
<1>3. ASSUME call' \in [Handler -> CallRecord],
             \A g \in Handler \ {h} : call'[g] = call[g],
             \/ call'[h].op = "idle" /\ call'[h].at = "idle"
             \/ /\ call'[h].op = call[h].op /\ call'[h].at = call[h].at
                /\ call'[h].id = call[h].id /\ call'[h].on = call[h].on
                /\ call'[h].to = call[h].to /\ call'[h].src = call[h].src,
             ledger' \in Seq(LedgerRow), failures' \in 0 .. MaxFailures
      PROVE  StatusInv'
  <2>0. \A g \in Handler :
          \/ call'[g].op = "idle" /\ call'[g].at = "idle"
          \/ /\ call'[g].op = call[g].op /\ call'[g].at = call[g].at
             /\ call'[g].id = call[g].id /\ call'[g].on = call[g].on
             /\ call'[g].to = call[g].to /\ call'[g].src = call[g].src
    BY <1>3
  <2>00. /\ repair' = repair /\ listing' = listing
         /\ disposal' = disposal /\ inspection' = inspection
    BY <1>0
  <2>1. RepairCalls' /\ ResaleCalls'
    <3>1. RepairCalls /\ ResaleCalls
      BY <1>0 DEF CallsOK
    <3>2. RepairCalls'
      BY <2>0, <2>00, <3>1 DEF RepairCalls
    <3>3. ResaleCalls'
      BY <2>0, <2>00, <3>1 DEF ResaleCalls
    <3> QED BY <3>2, <3>3
  <2>2. DisposalCalls'
    <3>1. DisposalCalls
      BY <1>0 DEF CallsOK
    <3> QED BY <2>0, <2>00, <3>1 DEF DisposalCalls
  <2>21. InspectionCalls'
    <3>1. InspectionCalls
      BY <1>0 DEF CallsOK
    <3> QED BY <2>0, <2>00, <3>1 DEF InspectionCalls
  <2>3. RetrievalCalls' /\ AssetCalls'
    <3>1. RetrievalCalls /\ AssetCalls
      BY <1>0 DEF CallsOK
    <3>2. RetrievalCalls'
      BY <2>0, <3>1 DEF RetrievalCalls
    <3>3. AssetCalls'
      BY <2>0, <3>1 DEF AssetCalls
    <3> QED BY <3>2, <3>3
  <2>4. DeploymentCalls'
    BY <1>0, <1>3 DEF CallsOK, DeploymentCalls, In
  <2>5. \A b \in Asset : Held(b) => Held(b)'
    BY <1>0, <1>3 DEF Held, Unfinished
  <2>6. \A b \in Asset : Reason(b) => Reason(b)'
    BY <1>0, <1>2, <2>5, ReasonKept DEF Stay
  <2>7. /\ status' \in [Asset -> AssetStatus \cup {NoStatus}]
        /\ history' \in [Asset -> Seq(HistoryRow)]
        /\ unrecorded' \in SUBSET Asset
        /\ HistoryMatchesStatus' /\ Accounted'
    BY <1>2, <2>6, QuietStep
  <2>8. TypeOK'
    BY <1>0, <1>2, <1>3, <2>7 DEF StatusInv, TypeOK, RegisterTypeOK, RepairTypeOK, ResaleTypeOK,
       DisposalTypeOK, InspectionsTypeOK, RetrievalTypeOK, DeploymentTypeOK, RedeployTypeOK,
       AssetsTypeOK
  <2> QED BY <2>1, <2>2, <2>21, <2>3, <2>4, <2>7, <2>8 DEF StatusInv, CallsOK
<1>4. CASE Reply(h) /\ ledger' \in Seq(LedgerRow) /\ failures' \in 0 .. MaxFailures
  <2>1. /\ StepOf(h, {}) /\ call'[h].op = "idle" /\ call'[h].at = "idle"
        /\ \A g \in Handler \ {h} : call'[g] = call[g]
    BY <1>0, <1>4, ReplyStep
  <2> QED BY <1>3, <1>4, <2>1 DEF StepOf
<1>5. CASE Fail(h)
  <2>1. Reply(h) /\ failures' \in 0 .. MaxFailures /\ ledger' \in Seq(LedgerRow)
    BY <1>0, <1>5 DEF Fail
  <2> QED BY <1>4, <2>1
<1>6. CASE PostRow(h)
  <2> DEFINE w == Head(call[h].due)
             row == [event |-> w.do, asset |-> w.asset, ref |-> call[h].id]
             c == [call[h] EXCEPT !.due = Tail(call[h].due)]
  <2>1. /\ call[h] \in CallRecord /\ call[h].due \in Seq(Work)
        /\ call[h].id \in Ref \cup {NoRef}
    BY <1>0 DEF CallRecord
  <2>2. /\ call[h].due # <<>> /\ w.do \in Event /\ ledger' = Append(ledger, row)
        /\ UNCHANGED failures
    BY <1>6 DEF PostRow
  <2>3. w \in Work /\ Tail(call[h].due) \in Seq(Work)
    BY <2>1, <2>2, HeadTailProperties
  <2>4. row \in LedgerRow
    BY <2>1, <2>2, <2>3 DEF LedgerRow, Work
  <2> HIDE DEF row
  <2>5. ledger' \in Seq(LedgerRow) /\ failures' \in 0 .. MaxFailures
    BY <1>0, <2>2, <2>4
  <2>6. Reply(h) \/ call' = [call EXCEPT ![h] = c]
    BY <1>6 DEF PostRow
  <2>7. c \in CallRecord
    BY <2>1, <2>3 DEF CallRecord
  <2>8. /\ c.op = call[h].op /\ c.at = call[h].at /\ c.id = call[h].id /\ c.on = call[h].on
        /\ c.to = call[h].to /\ c.src = call[h].src
    BY <2>1 DEF CallRecord
  <2> HIDE DEF c
  <2>9. CASE call' = [call EXCEPT ![h] = c]
    <3>1. /\ call' \in [Handler -> CallRecord] /\ call'[h] = c
          /\ \A g \in Handler \ {h} : call'[g] = call[g]
      BY <1>0, <2>7, <2>9
    <3> QED BY <1>3, <2>5, <2>8, <3>1
  <2> QED BY <1>4, <2>5, <2>6, <2>9
<1> QED BY <1>1, <1>5, <1>6

-----------------------------------------------------------------------------
(***************************************************************************)
(* StatusInv holds initially and every step keeps it.                      *)
(***************************************************************************)
LEMMA InitStatus == Init => StatusInv
<1> SUFFICES ASSUME Init PROVE StatusInv
  OBVIOUS
<1> USE RegisterAssumption DEF Init, RegisterInit
<1>1. /\ \A h \in Handler : call[h] = Idle /\ call[h].op = "idle" /\ call[h].at = "idle"
      /\ call \in [Handler -> CallRecord]
  BY IdleType DEF Idle
<1>2. RegisterTypeOK
  <2>1. history \in [Asset -> Seq(HistoryRow)]
    <3>1. [from |-> NoStatus, to |-> "in_storage", by |-> "inbound"] \in HistoryRow
      BY DEF HistoryRow, AssetStatus, Source
    <3>2. /\ <<[from |-> NoStatus, to |-> "in_storage", by |-> "inbound"]>> \in Seq(HistoryRow)
          /\ <<>> \in Seq(HistoryRow)
      BY <3>1
    <3> QED BY <3>2
  <2>2. status \in [Asset -> AssetStatus \cup {NoStatus}]
    BY DEF AssetStatus
  <2> QED BY <1>1, <2>1, <2>2 DEF RegisterTypeOK
<1>3. RepairTypeOK /\ ResaleTypeOK /\ DisposalTypeOK
  BY DEF RepairTypeOK, RepairInit, RepairRecord, NoRepair, RepairStatus, RepairTransitions,
         ResaleTypeOK, ResaleInit, ListingRecord, NoListing, ResaleTransitions,
         DisposalTypeOK, DisposalInit, DisposalRecord, NoDisposal, DisposalStatus
<1>4. InspectionsTypeOK /\ RetrievalTypeOK /\ DeploymentTypeOK
  BY DEF InspectionsTypeOK, InspectionsInit, InspectionRecord, NoInspection,
         RetrievalTypeOK, RetrievalInit, RetrievalRecord, NoRetrieval, RetrievalTransitions,
         DeploymentTypeOK, DeploymentInit, OrderRecord, NoOrder, DeploymentTransitions
<1>5. RedeployTypeOK /\ AssetsTypeOK
  BY AssetsAssumption DEF RedeployTypeOK, RedeployInit, AssetsTypeOK, AssetsInit
<1>6. RepairCalls /\ ResaleCalls /\ DisposalCalls
  BY <1>1 DEF RepairCalls, ResaleCalls, DisposalCalls, RepairInit, NoRepair, DisposalInit,
              NoDisposal
<1>7. InspectionCalls /\ RetrievalCalls /\ DeploymentCalls /\ AssetCalls
  BY <1>1 DEF InspectionCalls, RetrievalCalls, DeploymentCalls, AssetCalls, In
<1>8. \A a \in Asset : LastStatus(a) = status[a]
  BY DEF LastStatus, NoStatus
<1>9. \A a \in Asset : Reason(a)
  BY DEF Reason, NoStatus
<1> QED BY <1>2, <1>3, <1>4, <1>5, <1>6, <1>7, <1>8, <1>9
        DEF StatusInv, TypeOK, CallsOK, HistoryMatchesStatus, Accounted

LEMMA StepStatus == StatusInv /\ [ServiceNext]_vars => StatusInv'
<1> SUFFICES ASSUME StatusInv, [ServiceNext]_vars PROVE StatusInv'
  OBVIOUS
<1>1. CASE ServiceNext
  BY <1>1, CallStepKeeps, RepairStep, ResaleStep, DisposalStep, InspectionStep, RetrievalStep,
     DeploymentStep, RedeployStep, AssetsStep
  DEF ServiceNext
<1>2. CASE UNCHANGED vars
  <2> USE <1>2 DEF vars, registerVars, requestVars, redeployVars
  <2>1. TypeOK'
    BY DEF StatusInv, TypeOK, RegisterTypeOK, RepairTypeOK, ResaleTypeOK, DisposalTypeOK,
       InspectionsTypeOK, RetrievalTypeOK, DeploymentTypeOK, RedeployTypeOK, AssetsTypeOK
  <2>2. CallsOK'
    BY DEF StatusInv, CallsOK, RepairCalls, ResaleCalls, DisposalCalls, InspectionCalls,
       RetrievalCalls, DeploymentCalls, AssetCalls, In
  <2>3. HistoryMatchesStatus' /\ Accounted'
    BY DEF StatusInv, HistoryMatchesStatus, LastStatus, Accounted, SetByHand, Reason, Held,
       Unfinished, OnList, SignedAway, Inspecting, Shipped
  <2> QED BY <2>1, <2>2, <2>3 DEF StatusInv
<1> QED BY <1>1, <1>2

-----------------------------------------------------------------------------
(***************************************************************************)
(* The charges: the rows a call posts, and what a step leaves of its work. *)
(***************************************************************************)
\* What the charges are about: the events whose rows ChargesOK counts.
Counted == {"REPAIR", "INSPECT"} \cup Fee \cup Pickup \cup BundleEvent

\* Handler h takes a step, whatever its service; no other call changes.
OneCall(h) == /\ call' \in [Handler -> CallRecord]
              /\ \A g \in Handler \ {h} : call'[g] = call[g]

\* The call of h as this step leaves it has no charge that counts to post.
Plain(h) == /\ DueOf(h) \cap Counted = {}
            /\ call[h].op \notin {"retrieval.create", "deployment.create"}
            /\ ~ In(h, "repair.create", "post")
            /\ ~ In(h, "disposal.approve", "post")
            /\ ~ In(h, "inspections.complete", "tx")

\* Its retrieval, if it has one, exists.
Sourced(h) == \A t \in RetrievalId :
    \/ call[h].op \in {"inspections.complete", "deployment.create"} /\ call[h].src = t
    \/ call[h].op = "retrieval.updateStatus" /\ call[h].id = t
    => retrieval[t].status # "absent"

-----------------------------------------------------------------------------
(***************************************************************************)
(* The rows of the ledger, when nothing is posted and when a row is.       *)
(***************************************************************************)
LEMMA RowsKept ==
    ASSUME ledger' = ledger
    PROVE  /\ \A E, id : Rows(E, id)' = Rows(E, id)
           /\ \A d, a : BundleRows(d, a)' = BundleRows(d, a)
           /\ \A i : Component(i)' <=> Component(i)
           /\ \A d, a : Prepped(d, a)' <=> Prepped(d, a)
BY DEF Rows, BundleRows, Component, Prepped

LEMMA RowsPosted ==
    ASSUME ledger \in Seq(LedgerRow), NEW row \in LedgerRow, ledger' = Append(ledger, row)
    PROVE  /\ \A E, id : Rows(E, id)' = IF row.event \in E /\ row.ref = id
                                        THEN Rows(E, id) \cup {Len(ledger) + 1}
                                        ELSE Rows(E, id)
           /\ \A i \in 1..Len(ledger) : ledger'[i] = ledger[i]
           /\ ledger'[Len(ledger) + 1] = row
           /\ Len(ledger) \in Nat /\ Len(ledger') = Len(ledger) + 1
           /\ \A i : Component(i) => Component(i)'
           /\ \A d, a : Prepped(d, a) => Prepped(d, a)'
<1>1. /\ \A i \in 1..Len(ledger) : ledger'[i] = ledger[i]
      /\ ledger'[Len(ledger) + 1] = row
      /\ Len(ledger) \in Nat /\ Len(ledger') = Len(ledger) + 1
  BY AppendProperties
<1>2. 1..Len(ledger') = (1..Len(ledger)) \cup {Len(ledger) + 1}
  BY <1>1
<1>3. ASSUME NEW E, NEW id
      PROVE  Rows(E, id)' = IF row.event \in E /\ row.ref = id
                            THEN Rows(E, id) \cup {Len(ledger) + 1}
                            ELSE Rows(E, id)
  BY <1>1, <1>2 DEF Rows
<1>4. \A i : Component(i) => Component(i)'
  BY <1>1, <1>2 DEF Component
<1>5. \A d, a : Prepped(d, a) => Prepped(d, a)'
  BY <1>1, <1>3 DEF Prepped, Rows
<1> QED BY <1>1, <1>3, <1>4, <1>5

LEMMA BundlePosted ==
    ASSUME ledger \in Seq(LedgerRow), NEW row \in LedgerRow, ledger' = Append(ledger, row),
           NEW d, NEW a
    PROVE  BundleRows(d, a)' = IF row.event \in BundleEvent /\ row.ref = d /\ row.asset = a
                               THEN BundleRows(d, a) \cup {Len(ledger) + 1}
                               ELSE BundleRows(d, a)
<1>1. /\ Rows(BundleEvent, d)' = IF row.event \in BundleEvent /\ row.ref = d
                            THEN Rows(BundleEvent, d) \cup {Len(ledger) + 1}
                            ELSE Rows(BundleEvent, d)
      /\ \A i \in 1..Len(ledger) : ledger'[i] = ledger[i]
      /\ ledger'[Len(ledger) + 1] = row
  BY RowsPosted
<1>2. Rows(BundleEvent, d) \subseteq 1..Len(ledger)
  BY DEF Rows
<1>3. BundleRows(d, a)' = {i \in Rows(BundleEvent, d)' : ledger'[i].asset = a}
  BY DEF BundleRows
<1> QED BY <1>1, <1>2, <1>3 DEF BundleRows

-----------------------------------------------------------------------------
(***************************************************************************)
(* What a step that posts nothing keeps, part by part.                     *)
(***************************************************************************)
LEMMA DueWhereKept ==
    ASSUME DueWhere, NEW h \in Handler, OneCall(h),
           /\ "REPAIR" \in DueOf(h)' => In(h, "repair.create", "post")'
           /\ DueOf(h)' \cap Fee # {} => In(h, "disposal.approve", "post")'
           /\ "INSPECT" \in DueOf(h)' => In(h, "inspections.complete", "tx")'
           /\ DueOf(h)' \cap Pickup # {} => call'[h].op = "retrieval.create"
           /\ DueOf(h)' \cap BundleEvent # {} => call'[h].op = "deployment.create"
           /\ call'[h].op \in {"retrieval.create", "deployment.create"} => call'[h].at # "post"
    PROVE  DueWhere'
<1> SUFFICES ASSUME NEW g \in Handler \ {h}
             PROVE  /\ "REPAIR" \in DueOf(g)' => In(g, "repair.create", "post")'
                    /\ DueOf(g)' \cap Fee # {} => In(g, "disposal.approve", "post")'
                    /\ "INSPECT" \in DueOf(g)' => In(g, "inspections.complete", "tx")'
                    /\ DueOf(g)' \cap Pickup # {} => call'[g].op = "retrieval.create"
                    /\ DueOf(g)' \cap BundleEvent # {} => call'[g].op = "deployment.create"
                    /\ call'[g].op \in {"retrieval.create", "deployment.create"} =>
                         call'[g].at # "post"
  BY DEF DueWhere
<1>1. call'[g] = call[g]
  BY DEF OneCall
<1>2. DueOf(g)' = DueOf(g)
  BY <1>1 DEF DueOf
<1> QED BY <1>1, <1>2 DEF DueWhere, In

LEMMA RepairChargedKept ==
    ASSUME RepairCharged, NEW h \in Handler, OneCall(h), UNCHANGED ledger,
           ~ In(h, "repair.create", "post")',
           \A r \in RepairId : repair[r].status # "absent" => repair'[r].status # "absent"
    PROVE  RepairCharged'
<1>1. \A r : Rows({"REPAIR"}, r)' = Rows({"REPAIR"}, r)
  BY RowsKept
<1>2. \A r \in RepairId : \/ Rows({"REPAIR"}, r)' = {}
                          \/ Once(Rows({"REPAIR"}, r)') /\ repair'[r].status # "absent"
  BY <1>1 DEF RepairCharged
<1>3. \A g \in Handler, r \in RepairId :
        In(g, "repair.create", "post")' /\ call'[g].id = r =>
          /\ repair'[r].status # "absent" /\ Len(call'[g].due) = 1 /\ Rows({"REPAIR"}, r)' = {}
          /\ \A f \in Handler \ {g} : In(f, "repair.create", "post")' => call'[f].id # r
  BY <1>1 DEF RepairCharged, OneCall, In
<1> QED BY <1>2, <1>3 DEF RepairCharged, Once

LEMMA DisposalChargedKept ==
    ASSUME DisposalCharged, DisposalCalls, NEW h \in Handler, OneCall(h), UNCHANGED ledger,
           ~ In(h, "disposal.approve", "post")',
           \A d \in DisposalId : disposal[d].approved => disposal'[d].approved
    PROVE  DisposalCharged'
<1>1. \A d : Rows(Fee, d)' = Rows(Fee, d)
  BY RowsKept
<1>2. \A g \in Handler : In(g, "disposal.approve", "post") => call[g].id \in DisposalId
  BY DEF DisposalCalls, In
<1>3. \A g \in Handler : In(g, "disposal.approve", "post")' =>
         In(g, "disposal.approve", "post") /\ call'[g].id = call[g].id
  BY DEF OneCall, In
<1> QED BY <1>1, <1>2, <1>3 DEF DisposalCharged

LEMMA InspectionChargedKept ==
    ASSUME InspectionCharged, NEW h \in Handler, OneCall(h), UNCHANGED ledger,
           ~ In(h, "inspections.complete", "tx")',
           \A i \in InspectionId : inspection'[i].status = "completed" =>
             inspection[i].status = "completed" \/ Rows({"INSPECT"}, i) # {}
    PROVE  InspectionCharged'
<1>1. \A i : Rows({"INSPECT"}, i)' = Rows({"INSPECT"}, i)
  BY RowsKept
<1>2. \A g \in Handler : In(g, "inspections.complete", "tx")' =>
         /\ In(g, "inspections.complete", "tx") /\ call'[g].id = call[g].id
         /\ DueFirst(g, {"INSPECT"})' = DueFirst(g, {"INSPECT"})
  BY DEF OneCall, In, DueFirst
<1> QED BY <1>1, <1>2 DEF InspectionCharged

LEMMA SourceKept ==
    ASSUME SourceExists, NEW h \in Handler, OneCall(h), Sourced(h)',
           \A t \in RetrievalId :
             retrieval[t].status # "absent" => retrieval'[t].status # "absent",
           \A i \in InspectionId, t \in RetrievalId : inspection'[i].retrieval = t =>
             inspection[i].retrieval = t \/ retrieval'[t].status # "absent"
    PROVE  SourceExists'
BY DEF SourceExists, OneCall, Sourced

LEMMA RetrievalChargedKept ==
    ASSUME RetrievalCharged, NEW h \in Handler, OneCall(h), UNCHANGED ledger,
           call'[h].op # "retrieval.create",
           \A t \in RetrievalId :
             retrieval[t].status = "absent" <=> retrieval'[t].status = "absent"
    PROVE  RetrievalCharged'
<1>1. \A t : Rows(Pickup, t)' = Rows(Pickup, t)
  BY RowsKept
<1>2. \A g \in Handler : call'[g].op = "retrieval.create" =>
         call'[g] = call[g] /\ DueFirst(g, Pickup)' = DueFirst(g, Pickup)
  BY DEF OneCall, DueFirst
<1>3. \A t \in RetrievalId : retrieval'[t].status # "absent" => Once(Rows(Pickup, t)')
  BY <1>1 DEF RetrievalCharged
<1>4. \A g \in Handler, t \in RetrievalId :
        In(g, "retrieval.create", "tx")' /\ call'[g].id = t =>
          /\ retrieval'[t].status = "absent"
          /\ \A f \in Handler \ {g} : In(f, "retrieval.create", "tx")' => call'[f].id # t
          /\ IF DueFirst(g, Pickup)' THEN Rows(Pickup, t)' = {} ELSE Once(Rows(Pickup, t)')
  BY <1>1, <1>2 DEF RetrievalCharged, In
<1>5. \A g \in Handler :
        call'[g].op = "retrieval.create" =>
          /\ \A k \in 2..Len(call'[g].due) : call'[g].due[k].do \notin Pickup
          /\ call'[g].at = "read" => DueFirst(g, Pickup)'
  BY <1>2 DEF RetrievalCharged
<1> QED BY <1>3, <1>4, <1>5 DEF RetrievalCharged, Once

LEMMA OrderChargedStep ==
    ASSUME OrderCharged, NEW h \in Handler, OneCall(h), UNCHANGED ledger, OrderInProgress(h)',
           \A d \in OrderId : order'[d].status # "absent" =>
             \/ order[d].status # "absent" /\ order'[d].on = order[d].on
             \/ \A a \in order'[d].on : Once(BundleRows(d, a))
    PROVE  OrderCharged'
<1>1. \A d, a : BundleRows(d, a)' = BundleRows(d, a)
  BY RowsKept
<1>2. \A d \in OrderId : order'[d].status # "absent" =>
         \A a \in order'[d].on : Once(BundleRows(d, a)')
  BY <1>1 DEF OrderCharged
<1>3. ASSUME NEW g \in Handler \ {h}
      PROVE  OrderInProgress(g)'
  <2>1. call'[g] = call[g] /\ OrderInProgress(g)
    BY DEF OneCall, OrderCharged
  <2>2. DueFirst(g, BundleEvent)' = DueFirst(g, BundleEvent) /\ DueOf(g)' = DueOf(g)
    BY <2>1 DEF DueFirst, DueOf
  <2>3. ASSUME NEW d \in OrderId, In(g, "deployment.create", "tx")', call'[g].id = d
        PROVE  /\ \A a \in call'[g].on :
                    IF \/ a \in ToSet(call'[g].rest)
                       \/ DueFirst(g, BundleEvent)' /\ call'[g].due[1].asset = a
                    THEN BundleRows(d, a)' = {}
                    ELSE Once(BundleRows(d, a)')
               /\ DueFirst(g, BundleEvent)' => call'[g].due[1].asset \notin ToSet(call'[g].rest)
    <3>1. /\ \A a \in call[g].on :
               IF \/ a \in ToSet(call[g].rest)
                  \/ DueFirst(g, BundleEvent) /\ call[g].due[1].asset = a
               THEN BundleRows(d, a) = {}
               ELSE Once(BundleRows(d, a))
          /\ DueFirst(g, BundleEvent) => call[g].due[1].asset \notin ToSet(call[g].rest)
      BY <2>1, <2>3 DEF OrderInProgress, In
    <3> QED BY <1>1, <2>1, <2>2, <3>1
  <2>4. call'[g].op = "deployment.create" =>
          /\ IsInjective(call'[g].rest)
          /\ \A k \in 2..Len(call'[g].due) : call'[g].due[k].do \notin BundleEvent
          /\ call'[g].at = "read" => /\ ToSet(call'[g].rest) = call'[g].on
                                     /\ DueOf(g)' \cap (BundleEvent \cup {"suppress"}) = {}
                                     /\ call'[g].sup = {}
    BY <2>1, <2>2 DEF OrderInProgress
  <2> QED BY <2>3, <2>4 DEF OrderInProgress, Once
<1> QED BY <1>2, <1>3 DEF OrderCharged, Once

LEMMA OrderChargedKept ==
    ASSUME OrderCharged, NEW h \in Handler, OneCall(h), UNCHANGED ledger,
           call'[h].op # "deployment.create",
           \A d \in OrderId : order'[d].status # "absent" =>
             order[d].status # "absent" /\ order'[d].on = order[d].on
    PROVE  OrderCharged'
<1>1. OrderInProgress(h)'
  BY DEF OrderInProgress, In
<1> QED BY <1>1, OrderChargedStep

LEMMA WaiverStep ==
    ASSUME WaiverOK, NEW h \in Handler, OneCall(h), UNCHANGED ledger, WaiverInProgress(h)',
           \A d \in OrderId : order[d].status # "absent" => order'[d].status # "absent",
           \A i \in suppressed' :
             \/ i \in suppressed
             \/ /\ Component(i)
                /\ \E d \in OrderId : order'[d].status # "absent" /\ Prepped(d, ledger[i].asset)
    PROVE  WaiverOK'
<1>1. ASSUME NEW i \in suppressed'
      PROVE  /\ Component(i)'
             /\ \E d \in OrderId : order'[d].status # "absent" /\ Prepped(d, ledger[i].asset)'
  <2>1. PICK d \in OrderId : /\ Component(i) /\ order'[d].status # "absent"
                             /\ Prepped(d, ledger[i].asset)
    BY <1>1 DEF WaiverOK
  <2>2. Component(i)' /\ Prepped(d, ledger[i].asset)'
    BY <2>1 DEF Component, Prepped, Rows
  <2> QED BY <2>1, <2>2
<1>2. ASSUME NEW g \in Handler \ {h}
      PROVE  WaiverInProgress(g)'
  <2>1. call'[g] = call[g] /\ WaiverInProgress(g)
    BY DEF OneCall, WaiverOK
  <2> QED BY <2>1 DEF WaiverInProgress, In, Component, Prepped, Rows
<1>3. (\A i \in suppressed :
         /\ Component(i)
         /\ \E d \in OrderId : order[d].status # "absent" /\ Prepped(d, ledger[i].asset))'
  BY <1>1
<1> QED BY <1>2, <1>3 DEF WaiverOK

LEMMA WaiverKept ==
    ASSUME WaiverOK, NEW h \in Handler, OneCall(h), UNCHANGED ledger, UNCHANGED suppressed,
           ~ In(h, "deployment.create", "tx")',
           \A d \in OrderId : order[d].status # "absent" => order'[d].status # "absent"
    PROVE  WaiverOK'
<1>1. WaiverInProgress(h)'
  BY DEF WaiverInProgress
<1> QED BY <1>1, WaiverStep

\* No row becomes absent again, and none gains a state that has to be paid for.
TablesGrow ==
    /\ \A r \in RepairId : repair[r].status # "absent" => repair'[r].status # "absent"
    /\ \A d \in DisposalId : disposal[d].approved => disposal'[d].approved
    /\ \A i \in InspectionId : inspection'[i].status = "completed" =>
         inspection[i].status = "completed" \/ Rows({"INSPECT"}, i) # {}
    /\ \A i \in InspectionId, t \in RetrievalId : inspection'[i].retrieval = t =>
         inspection[i].retrieval = t \/ retrieval'[t].status # "absent"
    /\ \A t \in RetrievalId : retrieval[t].status = "absent" <=> retrieval'[t].status = "absent"
    /\ \A d \in OrderId : order'[d].status # "absent" =>
         order[d].status # "absent" /\ order'[d].on = order[d].on
    /\ \A d \in OrderId : order[d].status # "absent" => order'[d].status # "absent"

LEMMA PlainDue ==
    ASSUME DueWhere, NEW h \in Handler, OneCall(h), Plain(h)'
    PROVE  DueWhere'
<1>1. DueOf(h)' \cap Counted = {}
  BY DEF Plain
<1>2. call'[h].op \notin {"retrieval.create", "deployment.create"}
  BY DEF Plain
<1>3. /\ "REPAIR" \notin DueOf(h)' /\ DueOf(h)' \cap Fee = {} /\ "INSPECT" \notin DueOf(h)'
      /\ DueOf(h)' \cap Pickup = {} /\ DueOf(h)' \cap BundleEvent = {}
  BY <1>1 DEF Counted
<1> QED BY <1>2, <1>3, DueWhereKept

LEMMA PlainStep ==
    ASSUME ChargesOK, DisposalCalls, NEW h \in Handler, OneCall(h), Plain(h)', Sourced(h)',
           UNCHANGED ledger, UNCHANGED suppressed, TablesGrow
    PROVE  ChargesOK'
<1>1. DueWhere'
  BY PlainDue DEF ChargesOK
<1>2. /\ ~ In(h, "repair.create", "post")'
      /\ ~ In(h, "disposal.approve", "post")'
      /\ ~ In(h, "inspections.complete", "tx")'
      /\ call'[h].op # "retrieval.create" /\ call'[h].op # "deployment.create"
      /\ ~ In(h, "deployment.create", "tx")'
  BY DEF Plain, In
<1>3. RepairCharged' /\ DisposalCharged' /\ InspectionCharged'
  BY <1>2, RepairChargedKept, DisposalChargedKept, InspectionChargedKept
  DEF ChargesOK, TablesGrow
<1>4. SourceExists'
  BY SourceKept DEF ChargesOK, TablesGrow
<1>5. RetrievalCharged' /\ OrderCharged' /\ WaiverOK'
  BY <1>2, RetrievalChargedKept, OrderChargedKept, WaiverKept DEF ChargesOK, TablesGrow
<1> QED BY <1>1, <1>3, <1>4, <1>5 DEF ChargesOK

LEMMA SetCall ==
    ASSUME call \in [Handler -> CallRecord], call' \in [Handler -> CallRecord],
           NEW h \in Handler, NEW c, call' = [call EXCEPT ![h] = c]
    PROVE  OneCall(h) /\ call'[h] = c
BY DEF OneCall

\* A call that has just begun, or has just ended, is plain.
LEMMA BarePlain ==
    ASSUME NEW h \in Handler, call'[h].due = <<>>, call'[h].at \in {"idle", "read", "outcome"},
           call'[h].op \notin {"retrieval.create", "deployment.create"}
    PROVE  Plain(h)'
<1>1. DueOf(h)' = {}
  BY DEF DueOf
<1> QED BY <1>1 DEF Plain, In

LEMMA BeginPlain ==
    ASSUME call \in [Handler -> CallRecord], call' \in [Handler -> CallRecord],
           NEW h \in Handler, NEW op, NEW id, NEW S, NEW to,
           op \notin {"retrieval.create", "deployment.create"},
           op = "retrieval.updateStatus" /\ id \in RetrievalId => retrieval'[id].status # "absent",
           Begin(h, Request(op, id, S, to))
    PROVE  OneCall(h) /\ Plain(h)' /\ Sourced(h)'
<1>1. OneCall(h) /\ call'[h] = Request(op, id, S, to)
  BY SetCall DEF Begin
<1>2. /\ call'[h].op = op /\ call'[h].at = "read" /\ call'[h].due = <<>> /\ call'[h].id = id
      /\ call'[h].src = NoRef
  BY <1>1 DEF Request, Idle
<1>3. Plain(h)'
  BY <1>2, BarePlain
<1>4. Sourced(h)'
  BY <1>2, RegisterAssumption, InspectionsAssumption DEF Sourced
<1> QED BY <1>1, <1>3, <1>4

LEMMA ReplyPlain ==
    ASSUME call \in [Handler -> CallRecord], call' \in [Handler -> CallRecord],
           NEW h \in Handler, Reply(h)
    PROVE  OneCall(h) /\ Plain(h)' /\ Sourced(h)'
<1>1. OneCall(h) /\ call'[h] = Idle
  BY SetCall DEF Reply
<1>2. call'[h].op = "idle" /\ call'[h].at = "idle" /\ call'[h].due = <<>>
  BY <1>1 DEF Idle
<1> QED BY <1>1, <1>2, BarePlain DEF Sourced

\* A call that only moves to another await, with no charge to post, stays plain.
LEMMA SameDue ==
    ASSUME NEW h \in Handler, call'[h].due = call[h].due
    PROVE  DueOf(h)' = DueOf(h)
BY DEF DueOf

LEMMA NothingDue ==
    ASSUME DueWhere, NEW h \in Handler,
           call[h].op \notin {"repair.create", "disposal.approve", "inspections.complete",
                              "retrieval.create", "deployment.create"}
    PROVE  DueOf(h) \cap Counted = {}
<1>1. /\ "REPAIR" \notin DueOf(h) /\ DueOf(h) \cap Fee = {} /\ "INSPECT" \notin DueOf(h)
      /\ DueOf(h) \cap Pickup = {} /\ DueOf(h) \cap BundleEvent = {}
  BY DEF DueWhere, In
<1> QED BY <1>1 DEF Counted

-----------------------------------------------------------------------------
(***************************************************************************)
(* ChargesOK, service by service.                                          *)
(***************************************************************************)
LEMMA RepairCharges ==
    ASSUME StatusInv, StatusInv', ChargesOK, RepairNext,
           UNCHANGED <<listing, disposal, redeployVars, edits>>
    PROVE  ChargesOK'
<1>0. /\ call \in [Handler -> CallRecord] /\ call' \in [Handler -> CallRecord]
      /\ repair \in [RepairId -> RepairRecord]
      /\ RepairCalls /\ DisposalCalls
      /\ UNCHANGED <<disposal, inspection, retrieval, order>>
  BY DEF StatusInv, TypeOK, RegisterTypeOK, RepairTypeOK, CallsOK, redeployVars
<1>1. ASSUME NEW h \in Handler, OneCall(h), Plain(h)', Sourced(h)', Unposted,
             \A r \in RepairId : repair[r].status # "absent" => repair'[r].status # "absent"
      PROVE  ChargesOK'
  BY <1>0, <1>1, PlainStep DEF TablesGrow, Unposted
<1>2. ASSUME NEW h \in Handler, NEW a \in Asset, RepairCreate(h, a)
      PROVE  ChargesOK'
  <2>1. OneCall(h) /\ Plain(h)' /\ Sourced(h)'
    BY <1>0, <1>2, BeginPlain DEF RepairCreate
  <2> QED BY <1>1, <1>2, <2>1 DEF RepairCreate
<1>3. ASSUME NEW h \in Handler, NEW r \in RepairId, RepairApprove(h, r)
      PROVE  ChargesOK'
  <2>1. OneCall(h) /\ Plain(h)' /\ Sourced(h)'
    BY <1>0, <1>3, BeginPlain DEF RepairApprove
  <2> QED BY <1>1, <1>3, <2>1 DEF RepairApprove
<1>4. ASSUME NEW h \in Handler, NEW r \in RepairId, RepairUpdate(h, r)
      PROVE  ChargesOK'
  <2>1. OneCall(h) /\ Plain(h)' /\ Sourced(h)'
    BY <1>0, <1>4, BeginPlain DEF RepairUpdate
  <2> QED BY <1>1, <1>4, <2>1 DEF RepairUpdate
<1>5. ASSUME NEW h \in Handler, RepairApproveWrite(h)
      PROVE  ChargesOK'
  <2>1. OneCall(h) /\ Plain(h)' /\ Sourced(h)'
    BY <1>0, <1>5, ReplyPlain DEF RepairApproveWrite
  <2>2. \A r \in RepairId : repair[r].status # "absent" => repair'[r].status # "absent"
    BY <1>0, <1>5 DEF RepairApproveWrite, RepairRecord
  <2> QED BY <1>1, <1>5, <2>1, <2>2 DEF RepairApproveWrite
<1>6. ASSUME NEW h \in Handler, RepairCountDc(h)
      PROVE  ChargesOK'
  <2>1. /\ call[h].op = "repair.updateStatus" /\ UNCHANGED repair /\ Unposted
        /\ call' = [call EXCEPT ![h] = [call[h] EXCEPT !.at = "counted"]]
    BY <1>6 DEF RepairCountDc, In
  <2>2. OneCall(h) /\ call'[h] = [call[h] EXCEPT !.at = "counted"]
    BY <1>0, <2>1, SetCall
  <2>3. call'[h].op = "repair.updateStatus" /\ call'[h].due = call[h].due
    BY <1>0, <2>1, <2>2 DEF CallRecord
  <2>4. Plain(h)'
    BY <2>1, <2>3, SameDue, NothingDue DEF ChargesOK, Plain, In
  <2> QED BY <1>1, <2>1, <2>2, <2>3, <2>4 DEF Sourced
<1>7. ASSUME NEW h \in Handler, RepairUpdateTx(h)
      PROVE  ChargesOK'
  <2>1. OneCall(h) /\ Plain(h)' /\ Sourced(h)'
    BY <1>0, <1>7, ReplyPlain DEF RepairUpdateTx
  <2>2. /\ repair' = [repair EXCEPT ![call[h].id] = [@ EXCEPT !.status = call[h].to]]
        /\ call[h].to # "absent"
    BY <1>0, <1>7 DEF RepairUpdateTx, RepairCalls
  <2>3. \A r \in RepairId : repair[r].status # "absent" => repair'[r].status # "absent"
    BY <1>0, <2>2 DEF RepairRecord
  <2> QED BY <1>1, <1>7, <2>1, <2>3 DEF RepairUpdateTx
<1>8. ASSUME NEW r \in RepairId, RepairAttachDc(r) \/ RepairDetachDc(r)
      PROVE  ChargesOK'
  <2>1. UNCHANGED registerVars
    BY <1>8 DEF RepairAttachDc, RepairDetachDc
  <2>2. \A q \in RepairId : repair'[q].status = repair[q].status
    BY <1>0, <1>8 DEF RepairAttachDc, RepairDetachDc, RepairRecord
  <2>3. RepairCharged'
    BY <2>1, <2>2 DEF registerVars, ChargesOK, RepairCharged, Rows, Once, In
  <2> QED BY <1>0, <2>1, <2>3 DEF registerVars, ChargesOK, DueWhere, DueOf, DisposalCharged,
         InspectionCharged, SourceExists, RetrievalCharged, OrderCharged, OrderInProgress,
         WaiverOK, WaiverInProgress, In, Rows, Once, DueFirst, BundleRows, Component, Prepped
<1>9. ASSUME NEW h \in Handler, RepairCreateTx(h)
      PROVE  ChargesOK'
  <2>1. PICK r \in RepairId, a \in call[h].on :
          /\ repair[r].status = "absent"
          /\ repair' = [repair EXCEPT ![r] =
                          [NoRepair EXCEPT !.status = "pending", !.on = call[h].on]]
          /\ call' = [call EXCEPT ![h] =
                        [call[h] EXCEPT !.at = "post", !.id = r,
                                        !.due = <<[do |-> "REPAIR", asset |-> a]>>]]
    BY <1>9 DEF RepairCreateTx
  <2>2. UNCHANGED ledger /\ UNCHANGED suppressed /\ call[h].op = "repair.create"
    BY <1>9 DEF RepairCreateTx, Unposted, In
  <2>3. /\ OneCall(h)
        /\ call'[h] = [call[h] EXCEPT !.at = "post", !.id = r,
                                      !.due = <<[do |-> "REPAIR", asset |-> a]>>]
    BY <1>0, <2>1, SetCall
  <2>4. /\ call'[h].op = "repair.create" /\ call'[h].at = "post" /\ call'[h].id = r
        /\ call'[h].due = <<[do |-> "REPAIR", asset |-> a]>>
    BY <1>0, <2>2, <2>3 DEF CallRecord
  <2>5. /\ repair'[r].status = "pending"
        /\ \A q \in RepairId \ {r} : repair'[q] = repair[q]
    BY <1>0, <2>1 DEF NoRepair
  <2>6. DueOf(h)' = {"REPAIR"}
    BY <2>4 DEF DueOf
  <2>7. DueWhere'
    BY <2>3, <2>4, <2>6, DueWhereKept DEF ChargesOK, In, Fee, Pickup, BundleEvent
  <2>8. RepairCharged'
    <3>1. \A q : Rows({"REPAIR"}, q)' = Rows({"REPAIR"}, q)
      BY <2>2, RowsKept
    <3>2. Rows({"REPAIR"}, r) = {}
      BY <2>1 DEF ChargesOK, RepairCharged
    <3>3. \A g \in Handler \ {h} : In(g, "repair.create", "post") => call[g].id # r
      BY <2>1 DEF ChargesOK, RepairCharged
    <3>4. \A q \in RepairId : \/ Rows({"REPAIR"}, q)' = {}
                              \/ Once(Rows({"REPAIR"}, q)') /\ repair'[q].status # "absent"
      BY <2>5, <3>1 DEF ChargesOK, RepairCharged
    <3>5. ASSUME NEW g \in Handler, NEW q \in RepairId,
                 In(g, "repair.create", "post")', call'[g].id = q
          PROVE  /\ repair'[q].status # "absent"
                 /\ Len(call'[g].due) = 1
                 /\ Rows({"REPAIR"}, q)' = {}
                 /\ \A f \in Handler \ {g} : In(f, "repair.create", "post")' => call'[f].id # q
      <4>1. CASE g = h
        <5>1. q = r /\ Len(call'[g].due) = 1
          BY <2>4, <3>5, <4>1
        <5>2. \A f \in Handler \ {h} : In(f, "repair.create", "post")' => call'[f].id # r
          BY <2>3, <3>3 DEF OneCall, In
        <5>3. Rows({"REPAIR"}, q)' = {}
          BY <3>1, <3>2, <5>1
        <5>4. \A f \in Handler \ {g} : In(f, "repair.create", "post")' => call'[f].id # q
          BY <4>1, <5>1, <5>2 DEF In
        <5>5. repair'[q].status # "absent"
          BY <2>5, <5>1
        <5> QED BY <5>1, <5>3, <5>4, <5>5 DEF In
      <4>2. CASE g # h
        <5>1. call'[g] = call[g] /\ In(g, "repair.create", "post") /\ q # r
          BY <2>3, <3>3, <3>5, <4>2 DEF OneCall, In
        <5>2. /\ repair[q].status # "absent" /\ Len(call[g].due) = 1 /\ Rows({"REPAIR"}, q) = {}
              /\ \A f \in Handler \ {g} : In(f, "repair.create", "post") => call[f].id # q
          BY <3>5, <5>1 DEF ChargesOK, RepairCharged
        <5>3. Rows({"REPAIR"}, q)' = {} /\ repair'[q].status # "absent" /\ Len(call'[g].due) = 1
          BY <2>5, <3>1, <5>1, <5>2
        <5>4. ASSUME NEW f \in Handler \ {g}, In(f, "repair.create", "post")'
              PROVE  call'[f].id # q
          <6>1. CASE f = h
            BY <2>4, <5>1, <6>1
          <6>2. CASE f # h
            BY <2>3, <5>2, <5>4, <6>2 DEF OneCall, In
          <6> QED BY <6>1, <6>2
        <5> QED BY <5>3, <5>4
      <4> QED BY <4>1, <4>2
    <3> QED BY <3>4, <3>5 DEF RepairCharged, Once
  <2>9. DisposalCharged' /\ InspectionCharged' /\ SourceExists'
    <3>1. Sourced(h)' /\ ~ In(h, "disposal.approve", "post")'
          /\ ~ In(h, "inspections.complete", "tx")'
      BY <2>4 DEF Sourced, In
    <3> QED BY <1>0, <2>2, <2>3, <3>1, DisposalChargedKept, InspectionChargedKept, SourceKept
            DEF ChargesOK
  <2>10. RetrievalCharged' /\ OrderCharged' /\ WaiverOK'
    BY <1>0, <2>2, <2>3, <2>4, RetrievalChargedKept, OrderChargedKept, WaiverKept
    DEF ChargesOK, In
  <2> QED BY <2>7, <2>8, <2>9, <2>10 DEF ChargesOK
<1> QED BY <1>2, <1>3, <1>4, <1>5, <1>6, <1>7, <1>8, <1>9 DEF RepairNext

LEMMA ResaleCharges ==
    ASSUME StatusInv, StatusInv', ChargesOK, ResaleNext,
           UNCHANGED <<repair, disposal, redeployVars, edits>>
    PROVE  ChargesOK'
<1>0. /\ call \in [Handler -> CallRecord] /\ call' \in [Handler -> CallRecord]
      /\ DisposalCalls
      /\ UNCHANGED <<repair, disposal, inspection, retrieval, order>>
  BY DEF StatusInv, TypeOK, RegisterTypeOK, CallsOK, redeployVars
<1>1. ASSUME NEW h \in Handler, OneCall(h), Plain(h)', Sourced(h)', Unposted
      PROVE  ChargesOK'
  BY <1>0, <1>1, PlainStep DEF TablesGrow, Unposted
<1>2. ASSUME NEW h \in Handler, NEW a \in Asset, ResaleCreate(h, a)
      PROVE  ChargesOK'
  <2>1. OneCall(h) /\ Plain(h)' /\ Sourced(h)'
    BY <1>0, <1>2, BeginPlain DEF ResaleCreate
  <2> QED BY <1>1, <1>2, <2>1 DEF ResaleCreate
<1>3. ASSUME NEW h \in Handler, NEW l \in ListingId, ResaleUpdate(h, l)
      PROVE  ChargesOK'
  <2>1. OneCall(h) /\ Plain(h)' /\ Sourced(h)'
    BY <1>0, <1>3, BeginPlain DEF ResaleUpdate
  <2> QED BY <1>1, <1>3, <2>1 DEF ResaleUpdate
<1>4. ASSUME NEW h \in Handler, ResaleCreateTx(h) \/ ResaleUpdateCommit(h)
      PROVE  ChargesOK'
  <2>1. OneCall(h) /\ Plain(h)' /\ Sourced(h)'
    BY <1>0, <1>4, ReplyPlain DEF ResaleCreateTx, ResaleUpdateCommit
  <2> QED BY <1>1, <1>4, <2>1 DEF ResaleCreateTx, ResaleUpdateCommit
<1>5. ASSUME NEW h \in Handler, ResaleUpdateTx(h)
      PROVE  ChargesOK'
  <2> DEFINE seen == Snapshot(call[h].on)
  <2>1. /\ call[h].op = "resale.updateStatus" /\ Unposted
        /\ call' = [call EXCEPT ![h] = [call[h] EXCEPT !.at = "tx", !.seen = seen]]
    BY <1>5 DEF ResaleUpdateTx, In
  <2> HIDE DEF seen
  <2>2. OneCall(h) /\ call'[h] = [call[h] EXCEPT !.at = "tx", !.seen = seen]
    BY <1>0, <2>1, SetCall
  <2>3. call'[h].op = "resale.updateStatus" /\ call'[h].due = call[h].due
    BY <1>0, <2>1, <2>2 DEF CallRecord
  <2>4. Plain(h)'
    BY <2>1, <2>3, SameDue, NothingDue DEF ChargesOK, Plain, In
  <2> QED BY <1>1, <2>1, <2>2, <2>3, <2>4 DEF Sourced
<1> QED BY <1>2, <1>3, <1>4, <1>5 DEF ResaleNext

LEMMA AssetsCharges ==
    ASSUME StatusInv, StatusInv', ChargesOK, AssetsNext,
           UNCHANGED <<repair, listing, disposal, redeployVars>>
    PROVE  ChargesOK'
<1>0. /\ call \in [Handler -> CallRecord] /\ call' \in [Handler -> CallRecord]
      /\ DisposalCalls
      /\ UNCHANGED <<repair, disposal, inspection, retrieval, order>>
  BY DEF StatusInv, TypeOK, RegisterTypeOK, CallsOK, redeployVars
<1>1. ASSUME NEW h \in Handler, OneCall(h), Plain(h)', Sourced(h)', Unposted
      PROVE  ChargesOK'
  BY <1>0, <1>1, PlainStep DEF TablesGrow, Unposted
<1>2. ASSUME NEW h \in Handler, NEW a \in Asset, AssetsCreate(h, a)
      PROVE  ChargesOK'
  <2>1. OneCall(h) /\ Plain(h)' /\ Sourced(h)'
    BY <1>0, <1>2, BeginPlain DEF AssetsCreate
  <2> QED BY <1>1, <1>2, <2>1 DEF AssetsCreate
<1>3. ASSUME NEW h \in Handler, AssetsCreateTx(h)
      PROVE  ChargesOK'
  <2>1. OneCall(h) /\ Plain(h)' /\ Sourced(h)'
    BY <1>0, <1>3, ReplyPlain DEF AssetsCreateTx
  <2> QED BY <1>1, <1>3, <2>1 DEF AssetsCreateTx
<1>4. ASSUME NEW h \in Handler, NEW a \in Asset, AssetsUpdate(h, a)
      PROVE  ChargesOK'
  <2>1. PICK s \in FormStatus :
          Begin(h, [Request("assets.updateStatus", NoRef, {a}, s) EXCEPT !.seen = Snapshot({a})])
    BY <1>4 DEF AssetsUpdate
  <2>2. OneCall(h)
    BY <1>0, <2>1, SetCall DEF Begin
  <2>3. /\ call'[h].op = "assets.updateStatus" /\ call'[h].at = "read"
        /\ call'[h].due = <<>> /\ call'[h].src = NoRef
    BY <1>0, <2>1 DEF Begin, Request, Idle
  <2>4. Plain(h)' /\ Sourced(h)'
    BY <2>3, BarePlain, RegisterAssumption DEF Sourced
  <2> QED BY <1>1, <1>4, <2>2, <2>4 DEF AssetsUpdate
<1>5. ASSUME NEW h \in Handler, AssetsUpdateTx(h)
      PROVE  ChargesOK'
  <2>1. OneCall(h) /\ Plain(h)' /\ Sourced(h)'
    BY <1>0, <1>5, ReplyPlain DEF AssetsUpdateTx
  <2> QED BY <1>1, <1>5, <2>1 DEF AssetsUpdateTx
<1> QED BY <1>2, <1>3, <1>4, <1>5 DEF AssetsNext

LEMMA DisposalCharges ==
    ASSUME StatusInv, StatusInv', ChargesOK, DisposalNext,
           UNCHANGED <<repair, listing, redeployVars, edits>>
    PROVE  ChargesOK'
<1>0. /\ call \in [Handler -> CallRecord] /\ call' \in [Handler -> CallRecord]
      /\ disposal \in [DisposalId -> DisposalRecord]
      /\ DisposalCalls
      /\ UNCHANGED <<repair, inspection, retrieval, order>>
  BY DEF StatusInv, TypeOK, RegisterTypeOK, DisposalTypeOK, CallsOK, redeployVars
<1>1. ASSUME NEW h \in Handler, OneCall(h), Plain(h)', Sourced(h)', Unposted,
             \A d \in DisposalId : disposal[d].approved => disposal'[d].approved
      PROVE  ChargesOK'
  BY <1>0, <1>1, PlainStep DEF TablesGrow, Unposted
<1>2. ASSUME NEW h \in Handler, NEW a \in Asset, DisposalCreate(h, a)
      PROVE  ChargesOK'
  <2>1. OneCall(h) /\ Plain(h)' /\ Sourced(h)'
    BY <1>0, <1>2, BeginPlain DEF DisposalCreate
  <2> QED BY <1>1, <1>2, <2>1 DEF DisposalCreate
<1>3. ASSUME NEW h \in Handler, NEW d \in DisposalId, DisposalApprove(h, d) \/ DisposalStart(h, d)
      PROVE  ChargesOK'
  <2>1. OneCall(h) /\ Plain(h)' /\ Sourced(h)'
    BY <1>0, <1>3, BeginPlain DEF DisposalApprove, DisposalStart
  <2> QED BY <1>1, <1>3, <2>1 DEF DisposalApprove, DisposalStart
<1>4. ASSUME NEW h \in Handler, NEW d \in DisposalId, DisposalComplete(h, d)
      PROVE  ChargesOK'
  <2> DEFINE c == [Request("disposal.complete", d, disposal[d].on, "completed")
                     EXCEPT !.seen = Snapshot(disposal[d].on)]
  <2>1. call' = [call EXCEPT ![h] = c] /\ Unposted /\ UNCHANGED disposal
    BY <1>4 DEF DisposalComplete, Begin
  <2>2. c.op = "disposal.complete" /\ c.at = "read" /\ c.due = <<>>
    BY DEF Request, Idle
  <2> HIDE DEF c
  <2>3. OneCall(h) /\ call'[h] = c
    BY <1>0, <2>1, SetCall
  <2> QED BY <1>1, <2>1, <2>2, <2>3, BarePlain DEF Sourced
<1>5. ASSUME NEW h \in Handler,
             DisposalCreateWrite(h) \/ DisposalStartWrite(h) \/ DisposalCompleteTx(h)
      PROVE  ChargesOK'
  <2>1. OneCall(h) /\ Plain(h)' /\ Sourced(h)'
    BY <1>0, <1>5, ReplyPlain DEF DisposalCreateWrite, DisposalStartWrite, DisposalCompleteTx
  <2>2. \A d \in DisposalId : disposal[d].approved => disposal[d].status # "absent"
    BY <1>0 DEF DisposalCalls
  <2>3. \A d \in DisposalId : disposal[d].approved => disposal'[d].approved
    <3>1. CASE DisposalCreateWrite(h)
      BY <1>0, <2>2, <3>1 DEF DisposalCreateWrite
    <3>2. CASE DisposalStartWrite(h)
      BY <1>0, <3>2 DEF DisposalStartWrite, DisposalRecord
    <3>3. CASE DisposalCompleteTx(h)
      BY <1>0, <3>3 DEF DisposalCompleteTx, DisposalRecord
    <3> QED BY <1>5, <3>1, <3>2, <3>3
  <2> QED BY <1>1, <1>5, <2>1, <2>3 DEF DisposalCreateWrite, DisposalStartWrite, DisposalCompleteTx
<1>6. ASSUME NEW h \in Handler, DisposalApproveWrite(h)
      PROVE  ChargesOK'
  <2>1. PICK d \in DisposalId : d = call[h].id
    BY <1>0, <1>6 DEF DisposalApproveWrite, In, DisposalCalls
  <2>2. /\ disposal' = [disposal EXCEPT ![d] = [@ EXCEPT !.status = "approved", !.approved = TRUE]]
        /\ UNCHANGED ledger /\ UNCHANGED suppressed /\ call[h].op = "disposal.approve"
    BY <1>6, <2>1 DEF DisposalApproveWrite, Unposted, In
  <2>3. PICK a \in call[h].on :
          \E due \in {<<[do |-> "DISPOSAL", asset |-> a]>>,
                      <<[do |-> "DISPOSAL", asset |-> a],
                        [do |-> "DISPOSAL_CERT_ADDON", asset |-> a]>>} :
             call' = [call EXCEPT ![h] = [call[h] EXCEPT !.at = "post", !.due = due]]
    BY <1>6 DEF DisposalApproveWrite
  <2>4. PICK due \in {<<[do |-> "DISPOSAL", asset |-> a]>>,
                      <<[do |-> "DISPOSAL", asset |-> a],
                        [do |-> "DISPOSAL_CERT_ADDON", asset |-> a]>>} :
             call' = [call EXCEPT ![h] = [call[h] EXCEPT !.at = "post", !.due = due]]
    BY <2>3
  <2>5. OneCall(h) /\ call'[h] = [call[h] EXCEPT !.at = "post", !.due = due]
    BY <1>0, <2>4, SetCall
  <2>6. /\ call'[h].op = "disposal.approve" /\ call'[h].at = "post" /\ call'[h].id = d
        /\ call'[h].due = due
    BY <1>0, <2>1, <2>2, <2>5 DEF CallRecord
  <2>7. DueOf(h)' \subseteq Fee
    BY <2>6 DEF DueOf, Fee
  <2>8. DueWhere'
    BY <2>5, <2>6, <2>7, DueWhereKept DEF ChargesOK, In, Fee, Pickup, BundleEvent
  <2>9. disposal'[d].approved /\ \A e \in DisposalId \ {d} : disposal'[e] = disposal[e]
    BY <1>0, <2>2 DEF DisposalRecord
  <2>10. DisposalCharged'
    <3>1. \A e : Rows(Fee, e)' = Rows(Fee, e)
      BY <2>2, RowsKept
    <3>2. \A e \in DisposalId : Rows(Fee, e)' # {} => disposal'[e].approved
      BY <2>9, <3>1 DEF ChargesOK, DisposalCharged
    <3>3. ASSUME NEW g \in Handler, In(g, "disposal.approve", "post")'
          PROVE  disposal'[call'[g].id].approved
      <4>1. CASE g = h
        BY <2>6, <2>9, <4>1
      <4>2. CASE g # h
        BY <1>0, <2>5, <2>9, <3>3, <4>2 DEF OneCall, ChargesOK, DisposalCharged, DisposalCalls, In
      <4> QED BY <4>1, <4>2
    <3> QED BY <3>2, <3>3 DEF DisposalCharged
  <2>11. RepairCharged' /\ InspectionCharged' /\ SourceExists'
    <3>1. Sourced(h)' /\ ~ In(h, "repair.create", "post")'
          /\ ~ In(h, "inspections.complete", "tx")'
      BY <2>6 DEF Sourced, In
    <3> QED BY <1>0, <2>2, <2>5, <3>1, RepairChargedKept, InspectionChargedKept, SourceKept
            DEF ChargesOK
  <2>12. RetrievalCharged' /\ OrderCharged' /\ WaiverOK'
    BY <1>0, <2>2, <2>5, <2>6, RetrievalChargedKept, OrderChargedKept, WaiverKept
    DEF ChargesOK, In
  <2> QED BY <2>8, <2>10, <2>11, <2>12 DEF ChargesOK
<1> QED BY <1>2, <1>3, <1>4, <1>5, <1>6 DEF DisposalNext

LEMMA InspectionCharges ==
    ASSUME StatusInv, StatusInv', ChargesOK, InspectionsNext,
           UNCHANGED <<repair, listing, disposal, retrieval, order, damage, edits>>
    PROVE  ChargesOK'
<1>0. /\ call \in [Handler -> CallRecord] /\ call' \in [Handler -> CallRecord]
      /\ inspection \in [InspectionId -> InspectionRecord]
      /\ InspectionCalls /\ DisposalCalls
      /\ UNCHANGED <<repair, disposal, retrieval, order>>
      /\ NoRef \notin RetrievalId
  BY RegisterAssumption, InspectionsAssumption
  DEF StatusInv, TypeOK, RegisterTypeOK, InspectionsTypeOK, CallsOK
<1>1. ASSUME NEW h \in Handler, OneCall(h), Plain(h)', Sourced(h)', Unposted,
             \A i \in InspectionId : /\ inspection'[i].status = "completed" =>
                                         \/ inspection[i].status = "completed"
                                         \/ Rows({"INSPECT"}, i) # {}
                                     /\ inspection'[i].retrieval \in
                                         {inspection[i].retrieval, NoRef}
      PROVE  ChargesOK'
  <2>1. TablesGrow
    BY <1>0, <1>1 DEF TablesGrow
  <2> QED BY <1>0, <1>1, <2>1, PlainStep DEF Unposted
<1>2. ASSUME NEW h \in Handler, NEW a \in Asset, InspectionsCreate(h, a)
      PROVE  ChargesOK'
  <2>1. OneCall(h) /\ Plain(h)' /\ Sourced(h)'
    BY <1>0, <1>2, BeginPlain DEF InspectionsCreate
  <2> QED BY <1>1, <1>2, <2>1 DEF InspectionsCreate
<1>3. ASSUME NEW h \in Handler, InspectionsCreateWrite(h)
      PROVE  ChargesOK'
  <2>1. OneCall(h) /\ Plain(h)' /\ Sourced(h)'
    BY <1>0, <1>3, ReplyPlain DEF InspectionsCreateWrite
  <2>2. PICK i \in InspectionId :
          inspection' = [inspection EXCEPT ![i] =
            [status |-> "in_progress", on |-> call[h].on, retrieval |-> NoRef]]
    BY <1>3 DEF InspectionsCreateWrite, OpenInspection
  <2> QED BY <1>0, <1>1, <1>3, <2>1, <2>2 DEF InspectionsCreateWrite
<1>4. ASSUME NEW h \in Handler, NEW i \in InspectionId, InspectionsCancel(h, i)
      PROVE  ChargesOK'
  <2> DEFINE c == [Request("inspections.cancel", i, inspection[i].on, "cancelled")
                     EXCEPT !.seen = Snapshot(inspection[i].on)]
  <2>1. call' = [call EXCEPT ![h] = c] /\ Unposted /\ UNCHANGED inspection
    BY <1>4 DEF InspectionsCancel, Begin
  <2>2. c.op = "inspections.cancel" /\ c.at = "read" /\ c.due = <<>>
    BY DEF Request, Idle
  <2> HIDE DEF c
  <2>3. OneCall(h) /\ call'[h] = c
    BY <1>0, <2>1, SetCall
  <2> QED BY <1>1, <2>1, <2>2, <2>3, BarePlain DEF Sourced
<1>5. ASSUME NEW h \in Handler, InspectionsCancelTx(h)
      PROVE  ChargesOK'
  <2>1. OneCall(h) /\ Plain(h)' /\ Sourced(h)'
    BY <1>0, <1>5, ReplyPlain DEF InspectionsCancelTx
  <2>2. inspection' = [inspection EXCEPT ![call[h].id] = [@ EXCEPT !.status = "cancelled"]]
    BY <1>5 DEF InspectionsCancelTx
  <2> QED BY <1>0, <1>1, <1>5, <2>1, <2>2 DEF InspectionsCancelTx, InspectionRecord
<1>6. ASSUME NEW h \in Handler, NEW i \in InspectionId, InspectionsComplete(h, i)
      PROVE  ChargesOK'
  <2>1. PICK outcome :
          call' = [call EXCEPT ![h] =
             [Request("inspections.complete", i, inspection[i].on, outcome)
                EXCEPT !.seen = Snapshot(inspection[i].on), !.src = inspection[i].retrieval]]
    BY <1>6 DEF InspectionsComplete, Begin
  <2> DEFINE c == [Request("inspections.complete", i, inspection[i].on, outcome)
                     EXCEPT !.seen = Snapshot(inspection[i].on), !.src = inspection[i].retrieval]
  <2>2. /\ c.op = "inspections.complete" /\ c.at = "read" /\ c.due = <<>>
        /\ c.src = inspection[i].retrieval
    BY DEF Request, Idle
  <2>3. call' = [call EXCEPT ![h] = c]
    BY <2>1
  <2> HIDE DEF c
  <2>4. OneCall(h) /\ call'[h] = c
    BY <1>0, <2>3, SetCall
  <2>5. Sourced(h)'
    BY <1>0, <2>2, <2>4 DEF Sourced, ChargesOK, SourceExists
  <2> QED BY <1>1, <1>6, <2>2, <2>4, <2>5, BarePlain DEF InspectionsComplete
<1>7. ASSUME NEW h \in Handler, InspectionsCompleteTx(h)
      PROVE  ChargesOK'
  <2>1. PICK a \in call[h].on :
          call' = [call EXCEPT ![h] = [call[h] EXCEPT !.at = "tx", !.held = call[h].on,
                                                !.due = <<[do |-> "INSPECT", asset |-> a]>>]]
    BY <1>7 DEF InspectionsCompleteTx
  <2>2. /\ UNCHANGED <<ledger, suppressed, inspection>> /\ call[h].op = "inspections.complete"
    BY <1>7 DEF InspectionsCompleteTx, Unposted, In
  <2>3. /\ OneCall(h)
        /\ call'[h] = [call[h] EXCEPT !.at = "tx", !.held = call[h].on,
                                      !.due = <<[do |-> "INSPECT", asset |-> a]>>]
    BY <1>0, <2>1, SetCall
  <2>4. /\ call'[h].op = "inspections.complete" /\ call'[h].at = "tx"
        /\ call'[h].src = call[h].src /\ call'[h].due = <<[do |-> "INSPECT", asset |-> a]>>
    BY <1>0, <2>2, <2>3 DEF CallRecord
  <2>5. DueOf(h)' = {"INSPECT"} /\ DueFirst(h, {"INSPECT"})'
    BY <2>4 DEF DueOf, DueFirst
  <2>6. DueWhere'
    BY <2>3, <2>4, <2>5, DueWhereKept DEF ChargesOK, In, Fee, Pickup, BundleEvent
  <2>7. InspectionCharged'
    <3>1. \A i : Rows({"INSPECT"}, i)' = Rows({"INSPECT"}, i)
      BY <2>2, RowsKept
    <3>2. \A i \in InspectionId : inspection'[i].status = "completed" =>
             Rows({"INSPECT"}, i)' # {}
      BY <2>2, <3>1 DEF ChargesOK, InspectionCharged
    <3>3. ASSUME NEW g \in Handler, NEW i \in InspectionId,
                 In(g, "inspections.complete", "tx")', call'[g].id = i
          PROVE  Rows({"INSPECT"}, i)' # {} \/ DueFirst(g, {"INSPECT"})'
      <4>1. CASE g = h
        BY <2>5, <4>1
      <4>2. CASE g # h
        <5>1. call'[g] = call[g] /\ DueFirst(g, {"INSPECT"})' = DueFirst(g, {"INSPECT"})
          BY <2>3, <4>2 DEF OneCall, DueFirst
        <5> QED BY <3>1, <3>3, <5>1 DEF ChargesOK, InspectionCharged, In
      <4> QED BY <4>1, <4>2
    <3> QED BY <3>2, <3>3 DEF InspectionCharged
  <2>8. RepairCharged' /\ DisposalCharged' /\ SourceExists'
    <3>1. /\ Sourced(h)' /\ ~ In(h, "repair.create", "post")'
          /\ ~ In(h, "disposal.approve", "post")'
      BY <1>0, <2>2, <2>4 DEF Sourced, In, ChargesOK, SourceExists
    <3> QED BY <1>0, <2>2, <2>3, <3>1, RepairChargedKept, DisposalChargedKept, SourceKept
            DEF ChargesOK
  <2>9. RetrievalCharged' /\ OrderCharged' /\ WaiverOK'
    BY <1>0, <2>2, <2>3, <2>4, RetrievalChargedKept, OrderChargedKept, WaiverKept
    DEF ChargesOK, In
  <2> QED BY <2>6, <2>7, <2>8, <2>9 DEF ChargesOK
<1>8. ASSUME NEW h \in Handler, InspectionsCompleteCommit(h)
      PROVE  ChargesOK'
  <2>1. /\ In(h, "inspections.complete", "tx") /\ call[h].due = <<>> /\ Unposted
        /\ inspection' = [inspection EXCEPT ![call[h].id] = [@ EXCEPT !.status = "completed"]]
    BY <1>8 DEF InspectionsCompleteCommit
  <2>2. PICK i \in InspectionId : i = call[h].id
    BY <1>0, <2>1 DEF InspectionCalls, In
  <2>3. Rows({"INSPECT"}, i) # {}
    BY <2>1, <2>2 DEF ChargesOK, InspectionCharged, DueFirst
  <2>4. OneCall(h) /\ Plain(h)' /\ Sourced(h)'
    <3>1. CASE call[h].src = NoRef
      BY <1>0, <1>8, <3>1, ReplyPlain DEF InspectionsCompleteCommit
    <3>2. CASE call[h].src # NoRef
      <4> DEFINE c == [call[h] EXCEPT !.at = "outcome", !.held = {}, !.seen = Unread]
      <4>1. call' = [call EXCEPT ![h] = c]
        BY <1>8, <3>2 DEF InspectionsCompleteCommit
      <4>2. c.op = "inspections.complete" /\ c.at = "outcome" /\ c.due = <<>> /\ c.src = call[h].src
        BY <1>0, <2>1 DEF CallRecord, In
      <4> HIDE DEF c
      <4>3. OneCall(h) /\ call'[h] = c
        BY <1>0, <4>1, SetCall
      <4>4. Sourced(h)'
        BY <1>0, <2>1, <4>2, <4>3 DEF Sourced, ChargesOK, SourceExists, In
      <4> QED BY <4>2, <4>3, <4>4, BarePlain
    <3> QED BY <3>1, <3>2
  <2> QED BY <1>0, <1>1, <2>1, <2>2, <2>3, <2>4 DEF InspectionRecord
<1> QED BY <1>2, <1>3, <1>4, <1>5, <1>6, <1>7, <1>8 DEF InspectionsNext

(***************************************************************************)
(* The lists of work a call starts with: what they charge first, and what  *)
(* else they hold.                                                         *)
(***************************************************************************)
LEMMA FollowedBy ==
    ASSUME NEW s \in Seq(Work), NEW t \in Seq(Work), NEW S, s # <<>>,
           \A k \in 2..Len(s) : s[k] \in S, \A k \in 1..Len(t) : t[k] \in S
    PROVE  /\ s \o t \in Seq(Work) /\ s \o t # <<>>
           /\ (s \o t)[1] = s[1]
           /\ \A k \in 2..Len(s \o t) : (s \o t)[k] \in S
<1>1. /\ s \o t \in Seq(Work) /\ Len(s \o t) = Len(s) + Len(t)
      /\ \A i \in 1..Len(s) + Len(t) : (s \o t)[i] = IF i <= Len(s) THEN s[i] ELSE t[i - Len(s)]
  BY ConcatProperties
<1>2. Len(s) \in Nat \ {0} /\ Len(t) \in Nat
  BY LenProperties, EmptySeq
<1>3. ASSUME NEW k \in 2..Len(s \o t)
      PROVE  (s \o t)[k] \in S
  <2>1. CASE k <= Len(s)
    BY <1>1, <1>2, <1>3, <2>1
  <2>2. CASE ~ k <= Len(s)
    <3>1. k - Len(s) \in 1..Len(t)
      BY <1>1, <1>2, <1>3, <2>2
    <3> QED BY <1>1, <1>2, <1>3, <2>2, <3>1
  <2> QED BY <2>1, <2>2
<1>4. (s \o t)[1] = s[1] /\ Len(s \o t) # 0
  BY <1>1, <1>2
<1> QED BY <1>1, <1>3, <1>4

\* Work on asset a of one of the kinds E.
WorkOn(a, E) == {w \in Work : w.asset = a /\ w.do \in E}

LEMMA AskedWork ==
    ASSUME NEW ask, NEW charge \in Event, NEW a \in Asset, NEW E, charge \in E
    PROVE  /\ Asked(ask, charge, a) \in Seq(Work)
           /\ \A k \in 1..Len(Asked(ask, charge, a)) :
                Asked(ask, charge, a)[k] \in WorkOn(a, E)
<1>1. [do |-> charge, asset |-> a] \in WorkOn(a, E)
  BY DEF WorkOn, Work
<1> QED BY <1>1, AskedType DEF Asked

LEMMA RetrievalWorkShape ==
    ASSUME NEW a \in Asset, NEW bundle \in DOMAIN RetrievalRate, NEW ask
    PROVE  /\ RetrievalWork(a, bundle, ask) \in Seq(Work)
           /\ RetrievalWork(a, bundle, ask) # <<>>
           /\ RetrievalWork(a, bundle, ask)[1].do \in Pickup
           /\ \A k \in 2..Len(RetrievalWork(a, bundle, ask)) :
                RetrievalWork(a, bundle, ask)[k].do \in {"TRANSPORT", "RETRIEVAL_WIPE"}
<1> DEFINE E == {"TRANSPORT", "RETRIEVAL_WIPE"}
           x == <<[do |-> RetrievalRate[bundle], asset |-> a]>>
           s == Asked(ask, "TRANSPORT", a)
           t == Asked(ask, "RETRIEVAL_WIPE", a)
<1>1. RetrievalRate[bundle] \in Pickup /\ RetrievalRate[bundle] \in Event
  BY DEF RetrievalRate, Pickup, Event
<1>2. /\ x \in Seq(Work) /\ x # <<>> /\ x[1].do \in Pickup
      /\ \A k \in 2..Len(x) : x[k] \in WorkOn(a, E)
  <2>1. x \in Seq(Work)
    BY <1>1, WorkType
  <2>2. Len(x) = 1 /\ x[1] = [do |-> RetrievalRate[bundle], asset |-> a]
    OBVIOUS
  <2>3. \A k \in 2..Len(x) : FALSE
    BY <2>2
  <2> QED BY <1>1, <2>1, <2>2, <2>3
<1>3. /\ s \in Seq(Work) /\ \A k \in 1..Len(s) : s[k] \in WorkOn(a, E)
      /\ t \in Seq(Work) /\ \A k \in 1..Len(t) : t[k] \in WorkOn(a, E)
  BY AskedWork DEF Event
<1>4. RetrievalWork(a, bundle, ask) = (x \o s) \o t
  BY DEF RetrievalWork
<1> HIDE DEF x, s, t
<1>5. /\ x \o s \in Seq(Work) /\ x \o s # <<>> /\ (x \o s)[1] = x[1]
      /\ \A k \in 2..Len(x \o s) : (x \o s)[k] \in WorkOn(a, E)
  BY <1>2, <1>3, FollowedBy
<1>6. /\ (x \o s) \o t \in Seq(Work) /\ (x \o s) \o t # <<>> /\ ((x \o s) \o t)[1] = x[1]
      /\ \A k \in 2..Len((x \o s) \o t) : ((x \o s) \o t)[k] \in WorkOn(a, E)
  BY <1>3, <1>5, FollowedBy
<1> QED BY <1>2, <1>4, <1>6 DEF WorkOn

LEMMA AssetWorkShape ==
    ASSUME NEW a \in Asset, NEW bundle \in DOMAIN BundleRate, NEW ask
    PROVE  /\ AssetWork(a, bundle, ask) \in Seq(Work)
           /\ AssetWork(a, bundle, ask) # <<>>
           /\ AssetWork(a, bundle, ask)[1] = [do |-> BundleRate[bundle], asset |-> a]
           /\ \A k \in 2..Len(AssetWork(a, bundle, ask)) :
                /\ AssetWork(a, bundle, ask)[k].asset = a
                /\ AssetWork(a, bundle, ask)[k].do \in {"LABELING", "REPACKING", "suppress"}
                /\ AssetWork(a, bundle, ask)[k].do = "suppress" => bundle = "full_prep"
<1> DEFINE E == {"LABELING", "REPACKING"} \cup
                (IF bundle = "full_prep" THEN {"suppress"} ELSE {})
           x == <<[do |-> BundleRate[bundle], asset |-> a]>>
           s == Asked(ask, "LABELING", a)
           t == Asked(ask, "REPACKING", a)
           u == IF bundle = "full_prep" THEN <<[do |-> "suppress", asset |-> a]>> ELSE <<>>
<1>1. BundleRate[bundle] \in Event
  BY DEF BundleRate, Event
<1>2. /\ x \in Seq(Work) /\ x # <<>>
      /\ x[1] = [do |-> BundleRate[bundle], asset |-> a]
      /\ \A k \in 2..Len(x) : x[k] \in WorkOn(a, E)
  <2>1. x \in Seq(Work)
    BY <1>1, WorkType
  <2>2. Len(x) = 1 /\ x[1] = [do |-> BundleRate[bundle], asset |-> a]
    OBVIOUS
  <2>3. \A k \in 2..Len(x) : FALSE
    BY <2>2
  <2> QED BY <1>1, <2>1, <2>2, <2>3
<1>3. /\ s \in Seq(Work) /\ \A k \in 1..Len(s) : s[k] \in WorkOn(a, E)
      /\ t \in Seq(Work) /\ \A k \in 1..Len(t) : t[k] \in WorkOn(a, E)
  BY AskedWork DEF Event
<1>4. u \in Seq(Work) /\ \A k \in 1..Len(u) : u[k] \in WorkOn(a, E)
  <2>1. bundle = "full_prep" => [do |-> "suppress", asset |-> a] \in WorkOn(a, E)
    BY DEF WorkOn, Work
  <2>2. CASE bundle = "full_prep"
    <3>1. u = <<[do |-> "suppress", asset |-> a]>>
      BY <2>2
    <3>2. u \in Seq(Work)
      BY WorkType
    <3> QED BY <2>1, <2>2, <3>1, <3>2
  <2>3. CASE bundle # "full_prep"
    BY <2>3
  <2> QED BY <2>2, <2>3
<1>5. AssetWork(a, bundle, ask) = ((x \o s) \o t) \o u
  BY DEF AssetWork
<1> HIDE DEF x, s, t, u
<1>6. /\ x \o s \in Seq(Work) /\ x \o s # <<>> /\ (x \o s)[1] = x[1]
      /\ \A k \in 2..Len(x \o s) : (x \o s)[k] \in WorkOn(a, E)
  BY <1>2, <1>3, FollowedBy
<1>7. /\ (x \o s) \o t \in Seq(Work) /\ (x \o s) \o t # <<>> /\ ((x \o s) \o t)[1] = x[1]
      /\ \A k \in 2..Len((x \o s) \o t) : ((x \o s) \o t)[k] \in WorkOn(a, E)
  BY <1>3, <1>6, FollowedBy
<1>8. /\ ((x \o s) \o t) \o u \in Seq(Work) /\ ((x \o s) \o t) \o u # <<>>
      /\ (((x \o s) \o t) \o u)[1] = x[1]
      /\ \A k \in 2..Len(((x \o s) \o t) \o u) : (((x \o s) \o t) \o u)[k] \in WorkOn(a, E)
  BY <1>4, <1>7, FollowedBy
<1> QED BY <1>2, <1>5, <1>8 DEF WorkOn

-----------------------------------------------------------------------------
LEMMA RetrievalCharges ==
    ASSUME StatusInv, StatusInv', ChargesOK, RetrievalNext,
           UNCHANGED <<repair, listing, disposal, order, damage, edits>>
    PROVE  ChargesOK'
<1>0. /\ call \in [Handler -> CallRecord] /\ call' \in [Handler -> CallRecord]
      /\ retrieval \in [RetrievalId -> RetrievalRecord]
      /\ ledger \in Seq(LedgerRow)
      /\ RetrievalCalls /\ DisposalCalls
      /\ UNCHANGED <<repair, disposal, order>>
  BY DEF StatusInv, TypeOK, RegisterTypeOK, RetrievalTypeOK, CallsOK
\* A step of create leaves the other services alone.
<1>1. ASSUME NEW h \in Handler, OneCall(h), call'[h].op \in {"retrieval.create", "idle"},
             Unposted, UNCHANGED inspection, RetrievalCharged',
             DueOf(h)' \subseteq Pickup \cup {"TRANSPORT", "RETRIEVAL_WIPE"},
             call'[h].op = "idle" => DueOf(h)' = {},
             call'[h].op = "retrieval.create" => call'[h].at # "post",
             \A t \in RetrievalId : retrieval[t].status # "absent" =>
               retrieval'[t].status # "absent"
      PROVE  ChargesOK'
  <2>1. /\ UNCHANGED ledger /\ UNCHANGED suppressed
        /\ ~ In(h, "repair.create", "post")'
        /\ ~ In(h, "disposal.approve", "post")'
        /\ ~ In(h, "inspections.complete", "tx")'
        /\ ~ In(h, "deployment.create", "tx")'
        /\ call'[h].op # "deployment.create"
        /\ Sourced(h)'
    BY <1>1 DEF In, Sourced, Unposted
  <2>2. /\ "REPAIR" \notin DueOf(h)' /\ "INSPECT" \notin DueOf(h)'
        /\ DueOf(h)' \cap Fee = {} /\ DueOf(h)' \cap BundleEvent = {}
    BY <1>1 DEF Fee, Pickup, BundleEvent
  <2>3. DueWhere'
    BY <1>1, <2>1, <2>2, DueWhereKept DEF ChargesOK
  <2>4. RepairCharged' /\ DisposalCharged' /\ InspectionCharged' /\ SourceExists'
    BY <1>0, <1>1, <2>1, RepairChargedKept, DisposalChargedKept, InspectionChargedKept,
       SourceKept DEF ChargesOK
  <2>5. OrderCharged' /\ WaiverOK'
    BY <1>0, <1>1, <2>1, OrderChargedKept, WaiverKept DEF ChargesOK
  <2> QED BY <1>1, <2>3, <2>4, <2>5 DEF ChargesOK
<1>2. ASSUME NEW h \in Handler, NEW a \in Asset, RetrievalCreate(h, a)
      PROVE  ChargesOK'
  <2>1. PICK bundle \in DOMAIN RetrievalRate, ask \in SUBSET Optional :
          call' = [call EXCEPT ![h] = [Request("retrieval.create", NoRef, {a}, bundle)
                                         EXCEPT !.due = RetrievalWork(a, bundle, ask)]]
    BY <1>2 DEF RetrievalCreate, Begin
  <2> DEFINE w == RetrievalWork(a, bundle, ask)
             c == [Request("retrieval.create", NoRef, {a}, bundle) EXCEPT !.due = w]
  <2>2. c.op = "retrieval.create" /\ c.at = "read" /\ c.due = w
    BY DEF Request, Idle
  <2>3. /\ w \in Seq(Work) /\ w # <<>> /\ w[1].do \in Pickup
        /\ \A k \in 2..Len(w) : w[k].do \in {"TRANSPORT", "RETRIEVAL_WIPE"}
    BY RetrievalWorkShape
  <2>4. call' = [call EXCEPT ![h] = c]
    BY <2>1
  <2> HIDE DEF w, c
  <2>5. OneCall(h) /\ call'[h] = c
    BY <1>0, <2>4, SetCall
  <2>6. Unposted /\ UNCHANGED <<retrieval, inspection>>
    BY <1>2 DEF RetrievalCreate
  <2>7. DueOf(h)' \subseteq Pickup \cup {"TRANSPORT", "RETRIEVAL_WIPE"}
    <3>1. Len(w) \in Nat
      BY <2>3, LenProperties
    <3>2. \A k \in 1..Len(w) : k = 1 \/ k \in 2..Len(w)
      BY <3>1
    <3> QED BY <2>2, <2>3, <2>5, <3>2 DEF DueOf
  <2>8. RetrievalCharged'
    <3>1. \A t : Rows(Pickup, t)' = Rows(Pickup, t)
      BY <2>6, RowsKept DEF Unposted
    <3>2. \A t \in RetrievalId : retrieval'[t].status # "absent" => Once(Rows(Pickup, t)')
      BY <2>6, <3>1 DEF ChargesOK, RetrievalCharged
    <3>3. ASSUME NEW g \in Handler, NEW t \in RetrievalId,
                 In(g, "retrieval.create", "tx")', call'[g].id = t
          PROVE  /\ retrieval'[t].status = "absent"
                 /\ \A f \in Handler \ {g} : In(f, "retrieval.create", "tx")' => call'[f].id # t
                 /\ IF DueFirst(g, Pickup)' THEN Rows(Pickup, t)' = {}
                                            ELSE Once(Rows(Pickup, t)')
      <4>1. call'[g] = call[g] /\ DueFirst(g, Pickup)' = DueFirst(g, Pickup)
        BY <2>2, <2>5, <3>3 DEF OneCall, In, DueFirst
      <4>2. /\ retrieval[t].status = "absent"
            /\ \A f \in Handler \ {g} : In(f, "retrieval.create", "tx") => call[f].id # t
            /\ IF DueFirst(g, Pickup) THEN Rows(Pickup, t) = {} ELSE Once(Rows(Pickup, t))
        BY <3>3, <4>1 DEF ChargesOK, RetrievalCharged, In
      <4>3. \A f \in Handler \ {g} : In(f, "retrieval.create", "tx")' => call'[f].id # t
        BY <2>2, <2>5, <4>2 DEF OneCall, In
      <4> QED BY <2>6, <3>1, <4>1, <4>2, <4>3
    <3>4. ASSUME NEW g \in Handler, call'[g].op = "retrieval.create"
          PROVE  /\ \A k \in 2..Len(call'[g].due) : call'[g].due[k].do \notin Pickup
                 /\ call'[g].at = "read" => DueFirst(g, Pickup)'
      <4>1. CASE g = h
        BY <2>2, <2>3, <2>5, <4>1 DEF DueFirst, Pickup
      <4>2. CASE g # h
        BY <2>5, <3>4, <4>2 DEF OneCall, DueFirst, ChargesOK, RetrievalCharged
      <4> QED BY <4>1, <4>2
    <3> QED BY <3>2, <3>3, <3>4 DEF RetrievalCharged, Once
  <2> QED BY <1>1, <2>2, <2>5, <2>6, <2>7, <2>8
<1>3. ASSUME NEW h \in Handler, RetrievalTx(h)
      PROVE  ChargesOK'
  <2>1. PICK t \in RetrievalId :
          /\ retrieval[t].status = "absent"
          /\ Fresh(t)
          /\ call' = [call EXCEPT ![h] = [call[h] EXCEPT !.at = "tx", !.id = t,
                                                   !.seen = Snapshot(call[h].on)]]
    BY <1>3 DEF RetrievalTx
  <2> DEFINE c == [call[h] EXCEPT !.at = "tx", !.id = t, !.seen = Snapshot(call[h].on)]
  <2>2. /\ call[h].op = "retrieval.create" /\ call[h].at = "read"
        /\ Unposted /\ UNCHANGED <<retrieval, inspection>>
    BY <1>3 DEF RetrievalTx, In
  <2>3. c.op = "retrieval.create" /\ c.at = "tx" /\ c.id = t /\ c.due = call[h].due
    BY <1>0, <2>2 DEF CallRecord
  <2>4. call' = [call EXCEPT ![h] = c]
    BY <2>1
  <2> HIDE DEF c
  <2>5. OneCall(h) /\ call'[h] = c
    BY <1>0, <2>4, SetCall
  <2>6. DueOf(h)' = DueOf(h) /\ DueFirst(h, Pickup)' = DueFirst(h, Pickup)
    BY <2>3, <2>5 DEF DueOf, DueFirst
  <2>7. /\ DueFirst(h, Pickup)
        /\ \A k \in 2..Len(call[h].due) : call[h].due[k].do \notin Pickup
    BY <2>2 DEF ChargesOK, RetrievalCharged
  <2>8. RetrievalCharged'
    <3>1. \A u : Rows(Pickup, u)' = Rows(Pickup, u)
      BY <2>2, RowsKept DEF Unposted
    <3>2. Rows(Pickup, t) = {}
      BY <2>1 DEF Fresh, Rows
    <3>3. \A u \in RetrievalId : retrieval'[u].status # "absent" => Once(Rows(Pickup, u)')
      BY <2>2, <3>1 DEF ChargesOK, RetrievalCharged
    <3>4. ASSUME NEW g \in Handler, NEW u \in RetrievalId,
                 In(g, "retrieval.create", "tx")', call'[g].id = u
          PROVE  /\ retrieval'[u].status = "absent"
                 /\ \A f \in Handler \ {g} : In(f, "retrieval.create", "tx")' => call'[f].id # u
                 /\ IF DueFirst(g, Pickup)' THEN Rows(Pickup, u)' = {}
                                            ELSE Once(Rows(Pickup, u)')
      <4>1. CASE g = h
        <5>1. u = t
          BY <2>3, <2>5, <3>4, <4>1
        <5>2. \A f \in Handler \ {g} : call'[f].id # u
          BY <2>1, <2>5, <4>1, <5>1 DEF Fresh, OneCall
        <5> QED BY <2>1, <2>2, <2>6, <2>7, <3>1, <3>2, <4>1, <5>1, <5>2
      <4>2. CASE g # h
        <5>1. call'[g] = call[g] /\ DueFirst(g, Pickup)' = DueFirst(g, Pickup) /\ u # t
          BY <2>1, <2>5, <3>4, <4>2 DEF OneCall, Fresh, DueFirst
        <5>2. /\ retrieval[u].status = "absent"
              /\ \A f \in Handler \ {g} : In(f, "retrieval.create", "tx") => call[f].id # u
              /\ IF DueFirst(g, Pickup) THEN Rows(Pickup, u) = {} ELSE Once(Rows(Pickup, u))
          BY <3>4, <5>1 DEF ChargesOK, RetrievalCharged, In
        <5>3. \A f \in Handler \ {g} : In(f, "retrieval.create", "tx")' => call'[f].id # u
          BY <2>3, <2>5, <5>1, <5>2 DEF OneCall, In
        <5> QED BY <2>2, <3>1, <5>1, <5>2, <5>3
      <4> QED BY <4>1, <4>2
    <3>5. ASSUME NEW g \in Handler, call'[g].op = "retrieval.create"
          PROVE  /\ \A k \in 2..Len(call'[g].due) : call'[g].due[k].do \notin Pickup
                 /\ call'[g].at = "read" => DueFirst(g, Pickup)'
      <4>1. CASE g = h
        BY <2>3, <2>5, <2>7, <4>1
      <4>2. CASE g # h
        BY <2>5, <3>5, <4>2 DEF OneCall, DueFirst, ChargesOK, RetrievalCharged
      <4> QED BY <4>1, <4>2
    <3> QED BY <3>3, <3>4, <3>5 DEF RetrievalCharged, Once
  <2>9. DueWhere'
    <3>1. /\ "REPAIR" \notin DueOf(h) /\ "INSPECT" \notin DueOf(h)
          /\ DueOf(h) \cap Fee = {} /\ DueOf(h) \cap BundleEvent = {}
      BY <2>2 DEF ChargesOK, DueWhere, In
    <3> QED BY <2>3, <2>5, <2>6, <3>1, DueWhereKept DEF ChargesOK
  <2>10. /\ UNCHANGED ledger /\ UNCHANGED suppressed
         /\ ~ In(h, "repair.create", "post")'
         /\ ~ In(h, "disposal.approve", "post")'
         /\ ~ In(h, "inspections.complete", "tx")'
         /\ ~ In(h, "deployment.create", "tx")'
         /\ call'[h].op # "deployment.create"
         /\ Sourced(h)'
    BY <2>2, <2>3, <2>5 DEF In, Sourced, Unposted
  <2>11. RepairCharged' /\ DisposalCharged' /\ InspectionCharged' /\ SourceExists'
    BY <1>0, <2>2, <2>5, <2>10, RepairChargedKept, DisposalChargedKept, InspectionChargedKept,
       SourceKept DEF ChargesOK
  <2>12. OrderCharged' /\ WaiverOK'
    BY <1>0, <2>5, <2>10, OrderChargedKept, WaiverKept DEF ChargesOK
  <2> QED BY <2>8, <2>9, <2>11, <2>12 DEF ChargesOK
<1>4. ASSUME NEW h \in Handler, RetrievalCommit(h)
      PROVE  ChargesOK'
  <2>1. /\ In(h, "retrieval.create", "tx") /\ call[h].due = <<>> /\ Unposted
        /\ UNCHANGED inspection /\ Reply(h)
    BY <1>4 DEF RetrievalCommit
  <2>2. PICK t \in RetrievalId : t = call[h].id
    BY <1>0, <2>1 DEF RetrievalCalls, In
  <2>3. /\ \A u \in RetrievalId \ {t} : retrieval'[u] = retrieval[u]
        /\ retrieval'[t].status = "pending"
    BY <1>0, <1>4, <2>2 DEF RetrievalCommit
  <2>4. OneCall(h) /\ call'[h] = Idle /\ call'[h].op = "idle" /\ call'[h].due = <<>>
    BY <1>0, <2>1, SetCall DEF Reply, Idle
  <2>5. DueOf(h)' = {}
    BY <2>4 DEF DueOf
  <2>6. /\ Once(Rows(Pickup, t))
        /\ \A g \in Handler \ {h} : In(g, "retrieval.create", "tx") => call[g].id # t
    BY <2>1, <2>2 DEF ChargesOK, RetrievalCharged, DueFirst
  <2>7. RetrievalCharged'
    <3>1. \A u : Rows(Pickup, u)' = Rows(Pickup, u)
      BY <2>1, RowsKept DEF Unposted
    <3>2. \A u \in RetrievalId : retrieval'[u].status # "absent" => Once(Rows(Pickup, u)')
      BY <2>3, <2>6, <3>1 DEF ChargesOK, RetrievalCharged
    <3>3. ASSUME NEW g \in Handler, NEW u \in RetrievalId,
                 In(g, "retrieval.create", "tx")', call'[g].id = u
          PROVE  /\ retrieval'[u].status = "absent"
                 /\ \A f \in Handler \ {g} : In(f, "retrieval.create", "tx")' => call'[f].id # u
                 /\ IF DueFirst(g, Pickup)' THEN Rows(Pickup, u)' = {}
                                            ELSE Once(Rows(Pickup, u)')
      <4>1. call'[g] = call[g] /\ DueFirst(g, Pickup)' = DueFirst(g, Pickup) /\ u # t /\ g # h
        BY <2>4, <2>6, <3>3 DEF OneCall, In, DueFirst
      <4>2. /\ retrieval[u].status = "absent"
            /\ \A f \in Handler \ {g} : In(f, "retrieval.create", "tx") => call[f].id # u
            /\ IF DueFirst(g, Pickup) THEN Rows(Pickup, u) = {} ELSE Once(Rows(Pickup, u))
        BY <3>3, <4>1 DEF ChargesOK, RetrievalCharged, In
      <4>3. \A f \in Handler \ {g} : In(f, "retrieval.create", "tx")' => call'[f].id # u
        BY <2>4, <4>2 DEF OneCall, In
      <4> QED BY <2>3, <3>1, <4>1, <4>2, <4>3
    <3>4. ASSUME NEW g \in Handler, call'[g].op = "retrieval.create"
          PROVE  /\ \A k \in 2..Len(call'[g].due) : call'[g].due[k].do \notin Pickup
                 /\ call'[g].at = "read" => DueFirst(g, Pickup)'
      BY <2>4, <3>4 DEF OneCall, DueFirst, ChargesOK, RetrievalCharged
    <3> QED BY <3>2, <3>3, <3>4 DEF RetrievalCharged, Once
  <2> QED BY <1>1, <2>1, <2>3, <2>4, <2>5, <2>7
<1>5. ASSUME NEW h \in Handler, NEW t \in RetrievalId, RetrievalUpdate(h, t)
      PROVE  ChargesOK'
  <2>1. PICK to \in RetrievalTransitions[retrieval[t].status] :
          call' = [call EXCEPT ![h] =
             [Request("retrieval.updateStatus", t, retrieval[t].on, to)
                EXCEPT !.seen = Snapshot(retrieval[t].on)]]
    BY <1>5 DEF RetrievalUpdate, Begin
  <2> DEFINE c == [Request("retrieval.updateStatus", t, retrieval[t].on, to)
                     EXCEPT !.seen = Snapshot(retrieval[t].on)]
  <2>2. c.op = "retrieval.updateStatus" /\ c.at = "read" /\ c.due = <<>> /\ c.id = t
    BY DEF Request, Idle
  <2>3. call' = [call EXCEPT ![h] = c]
    BY <2>1
  <2> HIDE DEF c
  <2>4. OneCall(h) /\ call'[h] = c
    BY <1>0, <2>3, SetCall
  <2>5. Unposted /\ UNCHANGED <<retrieval, inspection>>
    BY <1>5 DEF RetrievalUpdate
  <2>6. retrieval[t].status # "absent"
    BY <2>1 DEF RetrievalTransitions
  <2>7. Plain(h)' /\ Sourced(h)'
    BY <2>2, <2>4, <2>5, <2>6, BarePlain DEF Sourced
  <2>8. TablesGrow
    BY <1>0, <2>5 DEF TablesGrow
  <2> QED BY <1>0, <2>4, <2>5, <2>7, <2>8, PlainStep DEF Unposted
<1>6. ASSUME NEW h \in Handler, RetrievalUpdateTx(h)
      PROVE  ChargesOK'
  <2>1. /\ In(h, "retrieval.updateStatus", "read") /\ Unposted /\ Reply(h)
        /\ retrieval' = [retrieval EXCEPT ![call[h].id] = [@ EXCEPT !.status = call[h].to]]
        /\ UNCHANGED inspection \/ OpenInspection(call[h].on, call[h].id)
    BY <1>6 DEF RetrievalUpdateTx
  <2>2. OneCall(h) /\ Plain(h)' /\ Sourced(h)'
    BY <1>0, <2>1, ReplyPlain
  <2>3. PICK t \in RetrievalId : t = call[h].id
    BY <1>0, <2>1 DEF RetrievalCalls, In
  <2>4. call[h].to # "absent" /\ retrieval[t].status # "absent"
    BY <1>0, <2>1, <2>3 DEF RetrievalCalls, In, ChargesOK, SourceExists
  <2>5. retrieval'[t].status # "absent" /\ \A u \in RetrievalId \ {t} : retrieval'[u] = retrieval[u]
    BY <1>0, <2>1, <2>3, <2>4 DEF RetrievalRecord
  <2>6. inspection \in [InspectionId -> InspectionRecord]
    BY DEF StatusInv, TypeOK, InspectionsTypeOK
  <2>7. /\ \A i \in InspectionId : inspection'[i].status = "completed" =>
             inspection[i].status = "completed"
        /\ \A i \in InspectionId : inspection'[i].retrieval \in {inspection[i].retrieval, t}
    BY <2>1, <2>3, <2>6 DEF OpenInspection
  <2>8. TablesGrow
    BY <1>0, <2>4, <2>5, <2>7 DEF TablesGrow
  <2> QED BY <1>0, <2>1, <2>2, <2>8, PlainStep DEF Unposted
<1> QED BY <1>2, <1>3, <1>4, <1>5, <1>6 DEF RetrievalNext

LEMMA RestShape ==
    ASSUME NEW s \in Seq(Asset), s # <<>>, IsInjective(s)
    PROVE  /\ Head(s) \in Asset /\ Tail(s) \in Seq(Asset)
           /\ ToSet(s) = {Head(s)} \cup ToSet(Tail(s))
           /\ Head(s) \notin ToSet(Tail(s))
           /\ IsInjective(Tail(s))
<1>1. /\ Head(s) = s[1] /\ Head(s) \in Asset /\ Tail(s) \in Seq(Asset)
      /\ Len(s) \in Nat \ {0} /\ Len(Tail(s)) = Len(s) - 1
      /\ \A k \in 1..Len(Tail(s)) : Tail(s)[k] = s[k + 1]
  BY HeadTailProperties, LenProperties, EmptySeq
<1>2. DOMAIN s = 1..Len(s) /\ DOMAIN Tail(s) = 1..Len(Tail(s))
  BY <1>1, LenProperties
<1>3. \A j, k \in 1..Len(s) : s[j] = s[k] => j = k
  BY <1>2 DEF IsInjective
<1>4. IsInjective(Tail(s))
  BY <1>1, <1>2, <1>3 DEF IsInjective
<1>5. Head(s) \notin ToSet(Tail(s))
  BY <1>1, <1>2, <1>3 DEF ToSet
<1>6. ToSet(s) = {Head(s)} \cup ToSet(Tail(s))
  <2>1. ASSUME NEW k \in 1..Len(s)
        PROVE  s[k] \in {Head(s)} \cup ToSet(Tail(s))
    <3>1. CASE k = 1
      BY <1>1, <3>1
    <3>2. CASE k # 1
      <4>1. k - 1 \in 1..Len(Tail(s)) /\ Tail(s)[k - 1] = s[k]
        BY <1>1, <3>2
      <4> QED BY <1>2, <4>1 DEF ToSet
    <3> QED BY <3>1, <3>2
  <2>2. Head(s) \in ToSet(s)
    BY <1>1, <1>2 DEF ToSet
  <2>3. \A k \in 1..Len(Tail(s)) : Tail(s)[k] \in ToSet(s)
    BY <1>1, <1>2 DEF ToSet
  <2> QED BY <1>2, <2>1, <2>2, <2>3 DEF ToSet
<1> QED BY <1>1, <1>4, <1>5, <1>6

\* A step of DeploymentService.create leaves the charges of the others alone.
LEMMA CreateFrame ==
    ASSUME ChargesOK, DisposalCalls, NEW h \in Handler, OneCall(h),
           UNCHANGED <<repair, disposal, inspection, retrieval, ledger>>,
           call'[h].op = "deployment.create", call'[h].at # "post", Sourced(h)',
           DueOf(h)' \cap Counted \subseteq BundleEvent,
           OrderInProgress(h)', WaiverInProgress(h)',
           \A d \in OrderId : order'[d].status # "absent" =>
             \/ order[d].status # "absent" /\ order'[d].on = order[d].on
             \/ \A a \in order'[d].on : Once(BundleRows(d, a)),
           \A d \in OrderId : order[d].status # "absent" => order'[d].status # "absent",
           \A i \in suppressed' :
             \/ i \in suppressed
             \/ /\ Component(i)
                /\ \E d \in OrderId : order'[d].status # "absent" /\ Prepped(d, ledger[i].asset)
    PROVE  ChargesOK'
<1>1. /\ ~ In(h, "repair.create", "post")' /\ ~ In(h, "disposal.approve", "post")'
      /\ ~ In(h, "inspections.complete", "tx")' /\ call'[h].op # "retrieval.create"
  BY DEF In
<1>2. /\ "REPAIR" \notin DueOf(h)' /\ "INSPECT" \notin DueOf(h)'
      /\ DueOf(h)' \cap Fee = {} /\ DueOf(h)' \cap Pickup = {}
  BY DEF Counted, BundleEvent, Fee, Pickup
<1>3. DueWhere'
  BY <1>1, <1>2, DueWhereKept DEF ChargesOK
<1>4. RepairCharged' /\ DisposalCharged' /\ InspectionCharged'
  BY <1>1, RepairChargedKept, DisposalChargedKept, InspectionChargedKept DEF ChargesOK
<1>5. SourceExists' /\ RetrievalCharged'
  BY <1>1, SourceKept, RetrievalChargedKept DEF ChargesOK
<1>6. OrderCharged' /\ WaiverOK'
  BY OrderChargedStep, WaiverStep DEF ChargesOK
<1> QED BY <1>3, <1>4, <1>5, <1>6 DEF ChargesOK

LEMMA OrderBegins ==
    ASSUME ChargesOK, DisposalCalls,
           call \in [Handler -> CallRecord], call' \in [Handler -> CallRecord],
           UNCHANGED <<repair, disposal, inspection, retrieval, order, ledger, suppressed>>,
           NEW h \in Handler, NEW s \in Seq(Asset), s # <<>>, IsInjective(s),
           NEW bundle, NEW ask, NEW src,
           src \in RetrievalId => retrieval[src].status # "absent",
           call' = [call EXCEPT ![h] = OrderRequest(s, bundle, ask, src)]
    PROVE  ChargesOK'
<1> DEFINE c == OrderRequest(s, bundle, ask, src)
<1>1. /\ c.op = "deployment.create" /\ c.at = "read" /\ c.on = ToSet(s) /\ c.src = src
      /\ c.due = Asked(ask, "TRANSPORT", Head(s)) /\ c.rest = s /\ c.sup = {}
  BY DEF OrderRequest, Request, Idle
<1> HIDE DEF c
<1>2. OneCall(h) /\ call'[h] = c
  BY SetCall DEF c
<1>3. \A k \in 1..Len(c.due) : k = 1 /\ c.due[k].do = "TRANSPORT"
  <2>1. c.due = <<>> \/ c.due = <<[do |-> "TRANSPORT", asset |-> Head(s)]>>
    BY <1>1 DEF Asked
  <2>2. CASE c.due = <<>>
    BY <2>2
  <2>3. CASE c.due = <<[do |-> "TRANSPORT", asset |-> Head(s)]>>
    BY <2>3
  <2> QED BY <2>1, <2>2, <2>3
<1>4. DueOf(h)' \subseteq {"TRANSPORT"}
  BY <1>2, <1>3 DEF DueOf
<1>5. DueOf(h)' \cap (BundleEvent \cup {"suppress"}) = {} /\ DueOf(h)' \cap Counted = {}
  BY <1>4 DEF BundleEvent, Counted, Fee, Pickup
<1>6. \A k \in 2..Len(c.due) : c.due[k].do \notin BundleEvent
  <2>1. Len(c.due) \in Nat
    BY <1>2, LenProperties DEF CallRecord
  <2> QED BY <1>3, <2>1 DEF BundleEvent
<1>7. OrderInProgress(h)'
  BY <1>1, <1>2, <1>5, <1>6 DEF OrderInProgress, In
<1>8. WaiverInProgress(h)' /\ Sourced(h)'
  BY <1>1, <1>2 DEF WaiverInProgress, Sourced, In
<1> QED BY <1>1, <1>2, <1>5, <1>7, <1>8, CreateFrame

LEMMA DeploymentCharges ==
    ASSUME StatusInv, StatusInv', ChargesOK, DeploymentNext,
           UNCHANGED <<repair, listing, disposal, inspection, retrieval, damage, edits>>
    PROVE  ChargesOK'
<1>0. /\ call \in [Handler -> CallRecord] /\ call' \in [Handler -> CallRecord]
      /\ order \in [OrderId -> OrderRecord]
      /\ ledger \in Seq(LedgerRow)
      /\ DeploymentCalls /\ DisposalCalls
      /\ UNCHANGED <<repair, disposal, inspection, retrieval>>
  BY DEF StatusInv, TypeOK, RegisterTypeOK, DeploymentTypeOK, CallsOK
<1>00. NoRef \notin RetrievalId
  BY RegisterAssumption, InspectionsAssumption
\* A call that has ended or that is of updateStatus.
<1>1. ASSUME NEW h \in Handler, OneCall(h), Plain(h)', Sourced(h)', Unposted,
             \A d \in OrderId : /\ order[d].status = "absent" <=> order'[d].status = "absent"
                                /\ order'[d].on = order[d].on
      PROVE  ChargesOK'
  BY <1>0, <1>1, PlainStep DEF TablesGrow, Unposted
\* A step that goes on with the order of the call.
<1>2. ASSUME NEW h \in Handler, OneCall(h), Unposted, UNCHANGED order,
             call[h].op = "deployment.create", call'[h].op = "deployment.create",
             call'[h].at # "post", call'[h].src = call[h].src,
             DueOf(h)' \cap Counted \subseteq BundleEvent, OrderInProgress(h)', WaiverInProgress(h)'
      PROVE  ChargesOK'
  <2>1. Sourced(h)'
    BY <1>0, <1>2 DEF Sourced, ChargesOK, SourceExists
  <2> QED BY <1>0, <1>2, <2>1, CreateFrame DEF Unposted
<1>3. ASSUME NEW h \in Handler, call[h].op = "deployment.create"
      PROVE  DueOf(h) \cap Counted \subseteq BundleEvent
  BY <1>3 DEF ChargesOK, DueWhere, Counted, In
<1>4. ASSUME NEW h \in Handler, DeploymentCreate(h)
      PROVE  ChargesOK'
  <2>1. PICK s \in Shipment, bundle \in DOMAIN BundleRate, ask \in SUBSET Optional :
          call' = [call EXCEPT ![h] = OrderRequest(s, bundle, ask, NoRef)]
    BY <1>4 DEF DeploymentCreate, Begin
  <2>2. s \in Seq(Asset) /\ s # <<>> /\ IsInjective(s)
    BY DeploymentAssumption
  <2> QED BY <1>0, <1>00, <1>4, <2>1, <2>2, OrderBegins DEF DeploymentCreate, Unposted
<1>5. ASSUME NEW h \in Handler, DeploymentTx(h)
      PROVE  ChargesOK'
  <2>1. PICK d \in OrderId :
          /\ Fresh(d)
          /\ call' = [call EXCEPT ![h] = [call[h] EXCEPT !.at = "tx", !.id = d]]
    BY <1>5 DEF DeploymentTx
  <2>2. /\ call[h].op = "deployment.create" /\ call[h].at = "read"
        /\ Unposted /\ UNCHANGED order
    BY <1>5 DEF DeploymentTx, In
  <2>3. OneCall(h) /\ call'[h] = [call[h] EXCEPT !.at = "tx", !.id = d]
    BY <1>0, <2>1, SetCall
  <2>4. /\ call'[h].op = "deployment.create" /\ call'[h].at = "tx" /\ call'[h].id = d
        /\ call'[h].due = call[h].due /\ call'[h].rest = call[h].rest
        /\ call'[h].on = call[h].on /\ call'[h].sup = call[h].sup /\ call'[h].src = call[h].src
    BY <1>0, <2>2, <2>3 DEF CallRecord
  <2>5. DueOf(h)' = DueOf(h) /\ DueFirst(h, BundleEvent)' = DueFirst(h, BundleEvent)
    BY <2>4 DEF DueOf, DueFirst
  <2>6. /\ ToSet(call[h].rest) = call[h].on /\ IsInjective(call[h].rest) /\ call[h].sup = {}
        /\ DueOf(h) \cap (BundleEvent \cup {"suppress"}) = {}
        /\ \A k \in 2..Len(call[h].due) : call[h].due[k].do \notin BundleEvent
    BY <2>2 DEF ChargesOK, OrderCharged, OrderInProgress
  <2>7. ~ DueFirst(h, BundleEvent)
    <3>1. call[h].due # <<>> => 1 \in 1..Len(call[h].due)
      BY <1>0, LenProperties, EmptySeq DEF CallRecord
    <3> QED BY <2>6, <3>1 DEF DueFirst, DueOf
  <2>8. \A a : BundleRows(d, a)' = {}
    BY <2>1, <2>2 DEF Fresh, BundleRows, Rows, Unposted
  <2>9. OrderInProgress(h)'
    BY <2>4, <2>5, <2>6, <2>7, <2>8 DEF OrderInProgress, In
  <2>10. WaiverInProgress(h)'
    BY <2>4, <2>6 DEF WaiverInProgress, DueOf
  <2> QED BY <1>2, <1>3, <2>2, <2>3, <2>4, <2>5, <2>9, <2>10
<1>6. ASSUME NEW h \in Handler, DeploymentUpdateAsset(h)
      PROVE  ChargesOK'
  <2> DEFINE a == Head(call[h].rest)
             w == AssetWork(a, call[h].to, call[h].ask)
             c == [call[h] EXCEPT !.held = call[h].held \cup {a}, !.due = w,
                                  !.rest = Tail(call[h].rest)]
  <2>1. /\ In(h, "deployment.create", "tx") /\ call[h].due = <<>> /\ call[h].rest # <<>>
        /\ Unposted /\ UNCHANGED order
    BY <1>6 DEF DeploymentUpdateAsset
  <2>2. call' = [call EXCEPT ![h] = c]
    BY <1>6, Zenon DEF DeploymentUpdateAsset
  <2>3. /\ c.op = "deployment.create" /\ c.at = "tx" /\ c.id = call[h].id /\ c.on = call[h].on
        /\ c.due = w /\ c.rest = Tail(call[h].rest) /\ c.sup = call[h].sup
        /\ c.src = call[h].src
    BY <1>0, <2>1 DEF CallRecord, In
  <2>4. /\ call[h].rest \in Seq(Asset) /\ IsInjective(call[h].rest)
        /\ call[h].to \in DOMAIN BundleRate
    BY <1>0, <2>1 DEF CallRecord, In, DeploymentCalls, ChargesOK, OrderCharged, OrderInProgress
  <2>5. /\ a \in Asset /\ ToSet(call[h].rest) = {a} \cup ToSet(Tail(call[h].rest))
        /\ a \notin ToSet(Tail(call[h].rest)) /\ IsInjective(Tail(call[h].rest))
    BY <2>1, <2>4, RestShape
  <2>6. /\ w \in Seq(Work) /\ w # <<>>
        /\ w[1] = [do |-> BundleRate[call[h].to], asset |-> a]
        /\ \A k \in 2..Len(w) : /\ w[k].asset = a
                                /\ w[k].do \in {"LABELING", "REPACKING", "suppress"}
                                /\ w[k].do = "suppress" => call[h].to = "full_prep"
    BY <2>4, <2>5, AssetWorkShape
  <2> HIDE DEF a, w, c
  <2>7. OneCall(h) /\ call'[h] = c
    BY <1>0, <2>2, SetCall
  <2>8. BundleRate[call[h].to] \in BundleEvent /\ (call[h].to = "full_prep" => w[1].do = "FULL_PREP")
    BY <2>4, <2>6 DEF BundleRate, BundleEvent
  <2>9. \A k \in 1..Len(w) : k = 1 \/ k \in 2..Len(w)
    BY <2>6, LenProperties
  <2>10. DueOf(h)' \cap Counted \subseteq BundleEvent
    BY <2>3, <2>6, <2>7, <2>8, <2>9 DEF DueOf, Counted, Fee, Pickup, BundleEvent
  <2>11. /\ ~ DueFirst(h, BundleEvent) /\ DueFirst(h, BundleEvent)'
         /\ call'[h].due[1].asset = a
    BY <2>1, <2>3, <2>6, <2>7, <2>8 DEF DueFirst
  <2>12. OrderInProgress(h)'
    <3>1. \A d, b : BundleRows(d, b)' = BundleRows(d, b)
      BY <2>1, RowsKept DEF Unposted
    <3>2. ASSUME NEW d \in OrderId, call[h].id = d
          PROVE  \A b \in call[h].on : IF b \in ToSet(call[h].rest) THEN BundleRows(d, b) = {}
                                                                    ELSE Once(BundleRows(d, b))
      BY <2>1, <2>11, <3>2 DEF ChargesOK, OrderCharged, OrderInProgress
    <3>3. ASSUME NEW d \in OrderId, call'[h].id = d
          PROVE  /\ \A b \in call'[h].on :
                      IF \/ b \in ToSet(call'[h].rest)
                         \/ DueFirst(h, BundleEvent)' /\ call'[h].due[1].asset = b
                      THEN BundleRows(d, b)' = {}
                      ELSE Once(BundleRows(d, b)')
                 /\ call'[h].due[1].asset \notin ToSet(call'[h].rest)
      BY <2>3, <2>5, <2>7, <2>11, <3>1, <3>2, <3>3
    <3>4. \A k \in 2..Len(call'[h].due) : call'[h].due[k].do \notin BundleEvent
      BY <2>3, <2>6, <2>7 DEF BundleEvent
    <3>5. call'[h].at # "read" /\ IsInjective(call'[h].rest)
      BY <2>3, <2>5, <2>7
    <3> QED BY <3>3, <3>4, <3>5 DEF OrderInProgress, Once
  <2>13. WaiverInProgress(h)'
    <3>1. ASSUME NEW d \in OrderId, call[h].id = d
          PROVE  \A i \in call[h].sup : Component(i) /\ Prepped(d, ledger[i].asset)
      BY <2>1, <3>1 DEF ChargesOK, WaiverOK, WaiverInProgress
    <3>2. ASSUME NEW k \in 1..Len(w), w[k].do = "suppress"
          PROVE  1 \in 1..(k - 1) /\ w[1] = [do |-> "FULL_PREP", asset |-> w[k].asset]
      <4>1. k \in 2..Len(w)
        BY <2>6, <2>8, <2>9, <3>2 DEF BundleEvent
      <4>2. w[k].asset = a /\ call[h].to = "full_prep"
        BY <2>6, <3>2, <4>1
      <4>3. 1 \in 1..(k - 1)
        BY <2>6, <4>1, LenProperties
      <4> QED BY <2>6, <4>2, <4>3 DEF BundleRate
    <3> QED BY <2>1, <2>3, <2>7, <3>1, <3>2
            DEF WaiverInProgress, Component, Prepped, Rows, Unposted
  <2> QED BY <1>2, <2>1, <2>3, <2>7, <2>10, <2>12, <2>13 DEF In
<1>7. ASSUME NEW h \in Handler, DeploymentSuppress(h)
      PROVE  ChargesOK'
  <2> DEFINE rows == Components(Head(call[h].due).asset)
             c1 == [call[h] EXCEPT !.due = Tail(call[h].due), !.sup = call[h].sup \cup rows]
             c2 == [call[h] EXCEPT !.due = Tail(call[h].due), !.at = "aborted", !.held = {}]
  <2>1. /\ In(h, "deployment.create", "tx") /\ call[h].due # <<>>
        /\ Head(call[h].due).do = "suppress" /\ Unposted /\ UNCHANGED order
    BY <1>7 DEF DeploymentSuppress
  <2>2. call' = [call EXCEPT ![h] = c1] \/ call' = [call EXCEPT ![h] = c2]
    BY <1>7, Zenon DEF DeploymentSuppress
  <2>3. PICK c \in {c1, c2} : call' = [call EXCEPT ![h] = c]
    BY <2>2
  <2>4. OneCall(h) /\ call'[h] = c
    BY <1>0, <2>3, SetCall
  <2>5. /\ c.op = "deployment.create" /\ c.at \in {"tx", "aborted"} /\ c.id = call[h].id
        /\ c.on = call[h].on /\ c.due = Tail(call[h].due) /\ c.rest = call[h].rest
        /\ c.src = call[h].src /\ c.sup \subseteq call[h].sup \cup rows
    <3>1. call[h] \in CallRecord /\ call[h].op = "deployment.create" /\ call[h].at = "tx"
      BY <1>0, <2>1 DEF In
    <3>2. CASE c = c1
      BY <3>1, <3>2 DEF CallRecord
    <3>3. CASE c = c2
      BY <3>1, <3>3 DEF CallRecord
    <3> QED BY <3>2, <3>3
  <2> DEFINE due == call[h].due
             left == Tail(call[h].due)
  <2>6. /\ due \in Seq(Work) /\ Head(due) = due[1] /\ left \in Seq(Work)
        /\ Len(due) \in Nat \ {0} /\ Len(left) = Len(due) - 1
        /\ \A k \in 1..Len(left) : left[k] = due[k + 1]
    BY <1>0, <2>1, HeadTailProperties, LenProperties, EmptySeq DEF CallRecord
  <2>7. due[1].do = "suppress" /\ rows = Components(due[1].asset)
    BY <2>1, <2>6
  <2> HIDE DEF rows, c1, c2, due, left
  <2>8. \A k \in 1..Len(left) : k + 1 \in 2..Len(due) /\ left[k] = due[k + 1]
    BY <2>6
  <2>9. \A k \in 2..Len(due) : due[k].do \notin BundleEvent
    BY <2>1 DEF due, ChargesOK, OrderCharged, OrderInProgress, In
  <2>10. \A k \in 1..Len(left) : left[k].do \notin BundleEvent
    BY <2>8, <2>9
  <2>11. DueOf(h)' \cap Counted \subseteq BundleEvent
    <3>1. DueOf(h)' = {left[k].do : k \in 1..Len(left)}
      BY <2>4, <2>5 DEF DueOf, left
    <3>2. DueOf(h) = {due[k].do : k \in 1..Len(due)}
      BY DEF DueOf, due
    <3>3. \A k \in 1..Len(left) : k + 1 \in 1..Len(due)
      BY <2>6
    <3>4. DueOf(h)' \subseteq DueOf(h)
      BY <2>8, <3>1, <3>2, <3>3
    <3> QED BY <1>3, <2>1, <3>4 DEF In
  <2>12. ~ DueFirst(h, BundleEvent) /\ ~ DueFirst(h, BundleEvent)'
    <3>1. ~ DueFirst(h, BundleEvent)
      BY <2>7 DEF DueFirst, due, BundleEvent
    <3>2. left # <<>> => 1 \in 1..Len(left)
      BY <2>6, LenProperties, EmptySeq
    <3>3. ~ (left # <<>> /\ left[1].do \in BundleEvent)
      BY <2>10, <3>2
    <3> QED BY <2>4, <2>5, <3>1, <3>3 DEF DueFirst, left
  <2>13. OrderInProgress(h)'
    <3>1. \A d, b : BundleRows(d, b)' = BundleRows(d, b)
      BY <2>1, RowsKept DEF Unposted
    <3>2. ASSUME NEW d \in OrderId, call[h].id = d
          PROVE  \A b \in call[h].on : IF b \in ToSet(call[h].rest) THEN BundleRows(d, b) = {}
                                                                    ELSE Once(BundleRows(d, b))
      BY <2>1, <2>12, <3>2 DEF ChargesOK, OrderCharged, OrderInProgress
    <3>3. ASSUME NEW d \in OrderId, call'[h].id = d
          PROVE  \A b \in call'[h].on :
                   IF \/ b \in ToSet(call'[h].rest)
                      \/ DueFirst(h, BundleEvent)' /\ call'[h].due[1].asset = b
                   THEN BundleRows(d, b)' = {}
                   ELSE Once(BundleRows(d, b)')
      BY <2>4, <2>5, <2>12, <3>1, <3>2, <3>3
    <3>4. \A k \in 2..Len(left) : left[k].do \notin BundleEvent
      <4>1. \A k \in 2..Len(left) : k \in 1..Len(left)
        BY <2>6
      <4> QED BY <2>10, <4>1
    <3>5. call'[h].at # "read" /\ IsInjective(call'[h].rest) /\ call'[h].due = left
      BY <2>1, <2>4, <2>5 DEF left, ChargesOK, OrderCharged, OrderInProgress, In
    <3> QED BY <2>12, <3>3, <3>4, <3>5 DEF OrderInProgress, Once
  <2>14. WaiverInProgress(h)'
    <3>1. ASSUME NEW d \in OrderId, call[h].id = d
          PROVE  /\ \A i \in call[h].sup : Component(i) /\ Prepped(d, ledger[i].asset)
                 /\ \A k \in 1..Len(due) : due[k].do = "suppress" =>
                      \/ Prepped(d, due[k].asset)
                      \/ \E m \in 1..(k - 1) : due[m] = [do |-> "FULL_PREP", asset |-> due[k].asset]
      BY <2>1, <3>1 DEF due, ChargesOK, WaiverOK, WaiverInProgress
    <3>2. ASSUME NEW d \in OrderId, call[h].id = d
          PROVE  \A i \in call[h].sup \cup rows : Component(i) /\ Prepped(d, ledger[i].asset)
      <4>1. Prepped(d, due[1].asset)
        <5>1. 1 \in 1..Len(due) /\ 1..(1 - 1) = {}
          BY <2>6
        <5> QED BY <2>7, <3>1, <3>2, <5>1
      <4>2. \A i \in rows : Component(i) /\ ledger[i].asset = due[1].asset
        BY <2>7 DEF Components, Component
      <4> QED BY <3>1, <3>2, <4>1, <4>2
    <3>3. ASSUME NEW d \in OrderId, call[h].id = d,
                 NEW k \in 1..Len(left), left[k].do = "suppress"
          PROVE  \/ Prepped(d, left[k].asset)
                 \/ \E m \in 1..(k - 1) : left[m] = [do |-> "FULL_PREP", asset |-> left[k].asset]
      <4>1. k + 1 \in 1..Len(due) /\ left[k] = due[k + 1] /\ k \in Nat
        BY <2>6
      <4>2. CASE Prepped(d, left[k].asset)
        BY <4>2
      <4>3. CASE ~ Prepped(d, left[k].asset)
        <5>1. PICK m \in 1..((k + 1) - 1) :
                due[m] = [do |-> "FULL_PREP", asset |-> due[k + 1].asset]
          BY <3>1, <3>3, <4>1, <4>3
        <5>2. m # 1
          BY <2>7, <5>1
        <5>3. m - 1 \in 1..(k - 1) /\ m - 1 \in 1..Len(left) /\ (m - 1) + 1 = m
          BY <2>6, <4>1, <5>2
        <5>4. left[m - 1] = due[m]
          BY <2>6, <5>3
        <5> QED BY <4>1, <5>1, <5>3, <5>4
      <4> QED BY <4>2, <4>3
    <3>4. call'[h].due = left /\ call'[h].id = call[h].id /\ call'[h].sup \subseteq call[h].sup \cup rows
      BY <2>4, <2>5 DEF left
    <3> QED BY <2>1, <3>2, <3>3, <3>4
            DEF WaiverInProgress, Component, Prepped, Rows, Unposted
  <2> QED BY <1>2, <2>1, <2>4, <2>5, <2>11, <2>13, <2>14 DEF In
<1>8. ASSUME NEW h \in Handler, DeploymentCommit(h)
      PROVE  ChargesOK'
  <2>1. /\ In(h, "deployment.create", "tx") /\ call[h].due = <<>> /\ call[h].rest = <<>>
        /\ suppressed' = suppressed \cup call[h].sup /\ UNCHANGED ledger
        /\ order' = [order EXCEPT ![call[h].id] = [status |-> "pending", on |-> call[h].on]]
    BY <1>8 DEF DeploymentCommit
  <2>2. PICK d \in OrderId : d = call[h].id
    BY <1>0, <2>1 DEF In, DeploymentCalls
  <2> DEFINE c == [call[h] EXCEPT !.at = "answered", !.held = {}, !.sup = {}]
  <2>3. call' = [call EXCEPT ![h] = c]
    BY <1>8 DEF DeploymentCommit
  <2>4. /\ c.op = "deployment.create" /\ c.at = "answered" /\ c.due = <<>> /\ c.rest = call[h].rest
        /\ c.src = call[h].src
    BY <1>0, <2>1 DEF CallRecord, In
  <2> HIDE DEF c
  <2>5. OneCall(h) /\ call'[h] = c
    BY <1>0, <2>3, SetCall
  <2>6. /\ order'[d].status = "pending" /\ order'[d].on = call[h].on
        /\ \A e \in OrderId \ {d} : order'[e] = order[e]
    BY <1>0, <2>1, <2>2
  <2>7. \A a \in call[h].on : Once(BundleRows(d, a))
    <3>1. \A a : a \notin ToSet(call[h].rest)
      BY <2>1 DEF ToSet
    <3>2. ~ DueFirst(h, BundleEvent)
      BY <2>1 DEF DueFirst
    <3> QED BY <2>1, <2>2, <3>1, <3>2 DEF ChargesOK, OrderCharged, OrderInProgress
  <2>8. \A i \in call[h].sup : Component(i) /\ Prepped(d, ledger[i].asset)
    BY <2>1, <2>2 DEF ChargesOK, WaiverOK, WaiverInProgress
  <2>9. OrderInProgress(h)' /\ WaiverInProgress(h)' /\ Sourced(h)' /\ DueOf(h)' = {}
    <3>1. Len(c.due) = 0
      BY <2>4
    <3>2. IsInjective(call[h].rest)
      BY <2>1 DEF ChargesOK, OrderCharged, OrderInProgress, In
    <3>3. OrderInProgress(h)'
      BY <2>4, <2>5, <3>1, <3>2 DEF OrderInProgress, In
    <3>4. WaiverInProgress(h)'
      BY <2>4, <2>5 DEF WaiverInProgress, In
    <3>5. Sourced(h)'
      BY <1>0, <2>1, <2>4, <2>5 DEF Sourced, ChargesOK, SourceExists, In
    <3>6. DueOf(h)' = {}
      BY <2>4, <2>5, <3>1 DEF DueOf
    <3> QED BY <3>3, <3>4, <3>5, <3>6
  <2>10. \A i \in suppressed' :
           \/ i \in suppressed
           \/ /\ Component(i)
              /\ \E e \in OrderId : order'[e].status # "absent" /\ Prepped(e, ledger[i].asset)
    BY <2>1, <2>6, <2>8
  <2>11. \A e \in OrderId : order'[e].status # "absent" =>
             \/ order[e].status # "absent" /\ order'[e].on = order[e].on
             \/ \A a \in order'[e].on : Once(BundleRows(e, a))
    BY <2>6, <2>7
  <2>12. \A e \in OrderId : order[e].status # "absent" => order'[e].status # "absent"
    BY <2>6
  <2> QED BY <1>0, <2>1, <2>4, <2>5, <2>9, <2>10, <2>11, <2>12, CreateFrame
<1>9. ASSUME NEW h \in Handler, DeploymentAborted(h)
      PROVE  ChargesOK'
  <2>1. In(h, "deployment.create", "aborted") /\ Unposted /\ UNCHANGED order
    BY <1>9 DEF DeploymentAborted
  <2>2. CASE Reply(h)
    <3>1. OneCall(h) /\ Plain(h)' /\ Sourced(h)'
      BY <1>0, <2>2, ReplyPlain
    <3> QED BY <1>1, <2>1, <3>1
  <2>3. CASE ~ Reply(h)
    <3> DEFINE c == [call[h] EXCEPT !.at = "answered", !.sup = {}]
    <3>1. call' = [call EXCEPT ![h] = c]
      BY <1>9, <2>3 DEF DeploymentAborted
    <3>2. /\ c.op = "deployment.create" /\ c.at = "answered" /\ c.due = call[h].due
          /\ c.rest = call[h].rest /\ c.src = call[h].src
      BY <1>0, <2>1 DEF CallRecord, In
    <3> HIDE DEF c
    <3>3. OneCall(h) /\ call'[h] = c
      BY <1>0, <3>1, SetCall
    <3>4. OrderInProgress(h)' /\ WaiverInProgress(h)'
      BY <2>1, <3>2, <3>3
      DEF ChargesOK, OrderCharged, OrderInProgress, WaiverInProgress, In
    <3>5. DueOf(h)' \cap Counted \subseteq BundleEvent
      BY <1>3, <2>1, <3>2, <3>3, SameDue DEF In
    <3> QED BY <1>2, <2>1, <3>2, <3>3, <3>4, <3>5 DEF In
  <2> QED BY <2>2, <2>3
<1>10. ASSUME NEW h \in Handler, DeploymentAnswer(h)
       PROVE  ChargesOK'
  <2>1. OneCall(h) /\ Plain(h)' /\ Sourced(h)'
    BY <1>0, <1>10, ReplyPlain DEF DeploymentAnswer
  <2> QED BY <1>1, <1>10, <2>1 DEF DeploymentAnswer
<1>11. ASSUME NEW h \in Handler, NEW d \in OrderId, DeploymentUpdate(h, d)
       PROVE  ChargesOK'
  <2>1. OneCall(h) /\ Plain(h)' /\ Sourced(h)'
    BY <1>0, <1>11, BeginPlain DEF DeploymentUpdate
  <2> QED BY <1>1, <1>11, <2>1 DEF DeploymentUpdate
<1>12. ASSUME NEW h \in Handler, DeploymentUpdateWrite(h)
       PROVE  ChargesOK'
  <2>1. OneCall(h) /\ Plain(h)' /\ Sourced(h)'
    BY <1>0, <1>12, ReplyPlain DEF DeploymentUpdateWrite
  <2>2. PICK d \in OrderId : /\ d = call[h].id /\ order[d].status # "absent"
                             /\ call[h].to # "absent"
    BY <1>0, <1>12 DEF DeploymentUpdateWrite, In, DeploymentCalls
  <2>3. order' = [order EXCEPT ![d] = [@ EXCEPT !.status = call[h].to]] /\ Unposted
    BY <1>12, <2>2 DEF DeploymentUpdateWrite
  <2>4. \A e \in OrderId : /\ order[e].status = "absent" <=> order'[e].status = "absent"
                           /\ order'[e].on = order[e].on
    BY <1>0, <2>2, <2>3 DEF OrderRecord
  <2> QED BY <1>1, <2>1, <2>3, <2>4
<1> QED BY <1>4, <1>5, <1>6, <1>7, <1>8, <1>9, <1>10, <1>11, <1>12 DEF DeploymentNext

LEMMA RedeployCharges ==
    ASSUME StatusInv, StatusInv', ChargesOK, RedeployNext,
           UNCHANGED <<repair, listing, disposal, edits>>
    PROVE  ChargesOK'
<1>0. /\ call \in [Handler -> CallRecord] /\ call' \in [Handler -> CallRecord]
      /\ retrieval \in [RetrievalId -> RetrievalRecord]
      /\ DisposalCalls /\ InspectionCalls /\ DeploymentCalls
      /\ UNCHANGED <<repair, disposal>>
  BY DEF StatusInv, TypeOK, RegisterTypeOK, RetrievalTypeOK, CallsOK
<1>1. ASSUME NEW h \in Handler, RedeployOutcome(h)
      PROVE  ChargesOK'
  <2>1. /\ In(h, "inspections.complete", "outcome") /\ Unposted
        /\ UNCHANGED <<inspection, retrieval, order>>
        /\ \/ Reply(h)
           \/ \E a \in retrieval[call[h].src].on, bundle \in DOMAIN BundleRate,
                 ask \in SUBSET (Optional \cap {"TRANSPORT"}) :
                call' = [call EXCEPT ![h] = OrderRequest(<<a>>, bundle, ask, call[h].src)]
    BY <1>1 DEF RedeployOutcome
  <2>2. PICK t \in RetrievalId : t = call[h].src
    BY <1>0, <2>1 DEF InspectionCalls, In
  <2>3. retrieval[t].status # "absent"
    BY <2>1, <2>2 DEF ChargesOK, SourceExists, In
  <2>4. CASE Reply(h)
    <3>1. OneCall(h) /\ Plain(h)' /\ Sourced(h)'
      BY <1>0, <2>4, ReplyPlain
    <3>2. TablesGrow
      BY <1>0, <2>1 DEF TablesGrow
    <3> QED BY <1>0, <2>1, <3>1, <3>2, PlainStep DEF Unposted
  <2>5. ASSUME NEW a \in retrieval[t].on, NEW bundle, NEW ask,
               call' = [call EXCEPT ![h] = OrderRequest(<<a>>, bundle, ask, t)]
        PROVE  ChargesOK'
    <3>1. <<a>> \in Seq(Asset) /\ <<a>> # <<>>
      BY <1>0 DEF RetrievalRecord
    <3>2. IsInjective(<<a>>)
      <4>1. DOMAIN <<a>> = {1}
        OBVIOUS
      <4> QED BY <4>1 DEF IsInjective
    <3> QED BY <1>0, <2>1, <2>3, <2>5, <3>1, <3>2, OrderBegins DEF Unposted
  <2> QED BY <2>1, <2>2, <2>4, <2>5
<1>2. ASSUME NEW h \in Handler, RedeployComplete(h)
      PROVE  ChargesOK'
  <2>1. /\ In(h, "deployment.create", "answered") /\ call[h].src # NoRef /\ Unposted
        /\ retrieval' = [retrieval EXCEPT ![call[h].src] = [@ EXCEPT !.status = "completed"]]
        /\ Reply(h) /\ UNCHANGED <<inspection, order>>
    BY <1>2 DEF RedeployComplete
  <2>2. PICK t \in RetrievalId : t = call[h].src
    BY <1>0, <2>1 DEF DeploymentCalls, In
  <2>3. retrieval[t].status # "absent"
    BY <2>1, <2>2 DEF ChargesOK, SourceExists, In
  <2>4. retrieval'[t].status # "absent" /\ \A u \in RetrievalId \ {t} : retrieval'[u] = retrieval[u]
    BY <1>0, <2>1, <2>2 DEF RetrievalRecord
  <2>5. OneCall(h) /\ Plain(h)' /\ Sourced(h)'
    BY <1>0, <2>1, ReplyPlain
  <2>6. TablesGrow
    BY <1>0, <2>1, <2>3, <2>4 DEF TablesGrow
  <2> QED BY <1>0, <2>1, <2>5, <2>6, PlainStep DEF Unposted
<1> QED BY <1>1, <1>2 DEF RedeployNext

-----------------------------------------------------------------------------
(***************************************************************************)
(* The code every call shares: the rows posted, and failures.              *)
(***************************************************************************)
\* The row PostRow(h) adds, and the call as it leaves it.
NextRow(h) == [event |-> call[h].due[1].do, asset |-> call[h].due[1].asset, ref |-> call[h].id]

Goes(h) == /\ call'[h].op = call[h].op /\ call'[h].at = call[h].at /\ call'[h].id = call[h].id
           /\ call'[h].on = call[h].on /\ call'[h].src = call[h].src
           /\ call'[h].rest = call[h].rest /\ call'[h].sup = call[h].sup
           /\ call'[h].due = Tail(call[h].due)
           /\ call[h].at = "tx" \/ Tail(call[h].due) # <<>>

LEMMA PostShape ==
    ASSUME call \in [Handler -> CallRecord], call' \in [Handler -> CallRecord],
           ledger \in Seq(LedgerRow), NEW h \in Handler, PostRow(h)
    PROVE  /\ OneCall(h)
           /\ call[h].at \in {"tx", "post"} /\ call[h].due # <<>> /\ call[h].due \in Seq(Work)
           /\ NextRow(h) \in LedgerRow /\ ledger' = Append(ledger, NextRow(h))
           /\ call[h].due[1].do \in DueOf(h)
           /\ call'[h] = Idle \/ Goes(h)
           /\ UNCHANGED suppressed
<1>1. /\ call[h] \in CallRecord /\ call[h].due \in Seq(Work) /\ call[h].id \in Ref \cup {NoRef}
      /\ call[h].at \in {"tx", "post"} /\ call[h].due # <<>> /\ UNCHANGED suppressed
  BY DEF CallRecord, PostRow
<1>2. Head(call[h].due) = call[h].due[1] /\ call[h].due[1] \in Work /\ 1 \in 1..Len(call[h].due)
  BY <1>1, HeadTailProperties, LenProperties, EmptySeq
<1>3. call[h].due[1].do \in Event /\ ledger' = Append(ledger, NextRow(h))
  BY <1>2 DEF PostRow, NextRow
<1>4. NextRow(h) \in LedgerRow
  BY <1>1, <1>2, <1>3 DEF NextRow, LedgerRow, Work
<1>5. call[h].due[1].do \in DueOf(h)
  BY <1>2 DEF DueOf
<1> DEFINE c == [call[h] EXCEPT !.due = Tail(call[h].due)]
<1>6. \/ Reply(h)
      \/ /\ call' = [call EXCEPT ![h] = c]
         /\ call[h].at = "tx" \/ Tail(call[h].due) # <<>>
  BY <1>1 DEF PostRow
<1>7. CASE Reply(h)
  BY <1>1, <1>3, <1>4, <1>5, <1>7, SetCall DEF Reply
<1>8. CASE /\ call' = [call EXCEPT ![h] = c]
           /\ call[h].at = "tx" \/ Tail(call[h].due) # <<>>
  <2>1. /\ c.op = call[h].op /\ c.at = call[h].at /\ c.id = call[h].id /\ c.on = call[h].on
        /\ c.src = call[h].src /\ c.rest = call[h].rest /\ c.sup = call[h].sup
        /\ c.due = Tail(call[h].due)
    BY <1>1 DEF CallRecord
  <2> HIDE DEF c
  <2>2. OneCall(h) /\ call'[h] = c
    BY <1>8, SetCall
  <2> QED BY <1>1, <1>3, <1>4, <1>5, <1>8, <2>1, <2>2 DEF Goes
<1> QED BY <1>6, <1>7, <1>8

\* What is left of the work of a call that goes on.
LEMMA LeftShape ==
    ASSUME NEW h \in Handler, call[h].due \in Seq(Work), call[h].due # <<>>,
           call'[h] = Idle \/ Goes(h)
    PROVE  /\ call'[h].due \in Seq(Work)
           /\ \A k \in 1..Len(call'[h].due) : /\ call'[h].due[k] = call[h].due[k + 1]
                                              /\ k + 1 \in 2..Len(call[h].due)
                                              /\ k \in Nat
           /\ DueOf(h)' \subseteq DueOf(h)
<1>1. CASE call'[h] = Idle
  <2>1. call'[h].due = <<>> /\ Len(call'[h].due) = 0
    BY <1>1 DEF Idle
  <2>2. DueOf(h)' = {}
    BY <2>1 DEF DueOf
  <2>3. call'[h].due \in Seq(Work)
    BY <2>1
  <2> QED BY <2>1, <2>2, <2>3
<1>2. CASE Goes(h)
  <2> DEFINE due == call[h].due
  <2>1. /\ due \in Seq(Work) /\ due # <<>> /\ call'[h].due = Tail(due)
        /\ Tail(due) \in Seq(Work) /\ Len(due) \in Nat \ {0} /\ Len(Tail(due)) = Len(due) - 1
        /\ \A k \in 1..Len(Tail(due)) : Tail(due)[k] = due[k + 1]
    BY <1>2, HeadTailProperties, LenProperties, EmptySeq DEF Goes
  <2>2. /\ DueOf(h) = {due[k].do : k \in 1..Len(due)}
        /\ DueOf(h)' = {Tail(due)[k].do : k \in 1..Len(Tail(due))}
    BY <2>1 DEF DueOf
  <2> HIDE DEF due
  <2>3. \A k \in 1..Len(Tail(due)) : k + 1 \in 2..Len(due) /\ k + 1 \in 1..Len(due) /\ k \in Nat
    BY <2>1
  <2>4. DueOf(h)' \subseteq DueOf(h)
    BY <2>1, <2>2, <2>3
  <2> QED BY <2>1, <2>3, <2>4 DEF due
<1> QED BY <1>1, <1>2

LEMMA PostCharges ==
    ASSUME StatusInv, StatusInv', ChargesOK, NEW h \in Handler, PostRow(h), UNCHANGED requestVars
    PROVE  ChargesOK'
<1>0. /\ call \in [Handler -> CallRecord] /\ call' \in [Handler -> CallRecord]
      /\ ledger \in Seq(LedgerRow)
      /\ DisposalCalls /\ DeploymentCalls
      /\ UNCHANGED <<repair, disposal, inspection, retrieval, order>>
  BY DEF StatusInv, TypeOK, RegisterTypeOK, CallsOK, requestVars, redeployVars
<1> DEFINE row == NextRow(h)
           e == call[h].due[1].do
<1>1. /\ OneCall(h) /\ call[h].at \in {"tx", "post"} /\ call[h].due # <<>>
      /\ row \in LedgerRow /\ ledger' = Append(ledger, row) /\ e \in DueOf(h)
      /\ call'[h] = Idle \/ Goes(h)
      /\ UNCHANGED suppressed /\ call[h].due \in Seq(Work)
  BY <1>0, PostShape
<1>2. row.event = e /\ row.asset = call[h].due[1].asset /\ row.ref = call[h].id
  BY DEF NextRow
<1> HIDE DEF row
<1>3. /\ \A k \in 1..Len(call'[h].due) : /\ call'[h].due[k] = call[h].due[k + 1]
                                         /\ k + 1 \in 2..Len(call[h].due)
                                         /\ k \in Nat
      /\ DueOf(h)' \subseteq DueOf(h)
      /\ call'[h].due \in Seq(Work)
  BY <1>1, LeftShape
<1>4. \A E, id : Rows(E, id)' = IF e \in E /\ call[h].id = id
                                THEN Rows(E, id) \cup {Len(ledger) + 1} ELSE Rows(E, id)
  BY <1>0, <1>1, <1>2, RowsPosted
<1>5. \A g \in Handler \ {h} : /\ call'[g] = call[g] /\ DueOf(g)' = DueOf(g)
                               /\ \A E : DueFirst(g, E)' = DueFirst(g, E)
  BY <1>1 DEF OneCall, DueOf, DueFirst
<1>6. \A op, at : In(h, op, at)' => call'[h] = Idle \/ In(h, op, at)
  BY <1>1 DEF In, Goes
<1>7. DueWhere'
  <2>1. CASE call'[h] = Idle
    <3>1. DueOf(h)' = {} /\ call'[h].op = "idle"
      BY <2>1 DEF DueOf, Idle
    <3> QED BY <1>1, <3>1, DueWhereKept DEF ChargesOK
  <2>2. CASE Goes(h)
    <3>1. call'[h].op = call[h].op /\ call'[h].at = call[h].at
      BY <2>2 DEF Goes
    <3>2. /\ "REPAIR" \in DueOf(h)' => In(h, "repair.create", "post")'
          /\ DueOf(h)' \cap Fee # {} => In(h, "disposal.approve", "post")'
          /\ "INSPECT" \in DueOf(h)' => In(h, "inspections.complete", "tx")'
          /\ DueOf(h)' \cap Pickup # {} => call'[h].op = "retrieval.create"
          /\ DueOf(h)' \cap BundleEvent # {} => call'[h].op = "deployment.create"
          /\ call'[h].op \in {"retrieval.create", "deployment.create"} => call'[h].at # "post"
      BY <1>3, <3>1 DEF ChargesOK, DueWhere, In
    <3> QED BY <1>1, <3>2, DueWhereKept DEF ChargesOK
  <2> QED BY <1>1, <2>1, <2>2
<1>8. RepairCharged'
  <2>1. e = "REPAIR" => In(h, "repair.create", "post")
    BY <1>1 DEF ChargesOK, DueWhere
  <2>2. ASSUME NEW r \in RepairId, e = "REPAIR", call[h].id = r
        PROVE  /\ Once(Rows({"REPAIR"}, r)') /\ repair'[r].status # "absent"
               /\ \A g \in Handler \ {h} : In(g, "repair.create", "post") => call[g].id # r
    <3>1. /\ Rows({"REPAIR"}, r) = {} /\ repair[r].status # "absent"
          /\ \A g \in Handler \ {h} : In(g, "repair.create", "post") => call[g].id # r
      BY <2>1, <2>2 DEF ChargesOK, RepairCharged
    <3>2. Rows({"REPAIR"}, r)' = {Len(ledger) + 1}
      BY <1>4, <2>2, <3>1
    <3> QED BY <1>0, <3>1, <3>2 DEF Once
  <2>3. ASSUME NEW r \in RepairId, ~ (e = "REPAIR" /\ call[h].id = r)
        PROVE  Rows({"REPAIR"}, r)' = Rows({"REPAIR"}, r)
    BY <1>4, <2>3
  <2>4. \A r \in RepairId : \/ Rows({"REPAIR"}, r)' = {}
                            \/ Once(Rows({"REPAIR"}, r)') /\ repair'[r].status # "absent"
    BY <1>0, <2>2, <2>3 DEF ChargesOK, RepairCharged
  <2>5. \A r \in RepairId : ~ (In(h, "repair.create", "post")' /\ call'[h].id = r)
    <3>1. SUFFICES ASSUME NEW r \in RepairId, In(h, "repair.create", "post")', call'[h].id = r
                   PROVE  FALSE
      OBVIOUS
    <3>2. call'[h] # Idle
      BY <3>1 DEF In, Idle
    <3>3. /\ Goes(h) /\ In(h, "repair.create", "post") /\ call[h].id = r
          /\ call[h].at # "tx" /\ Tail(call[h].due) # <<>>
      BY <1>1, <3>1, <3>2 DEF Goes, In
    <3>4. Len(call[h].due) = 1
      BY <3>3 DEF ChargesOK, RepairCharged
    <3>5. Len(Tail(call[h].due)) = 0
      BY <1>1, <3>4, HeadTailProperties
    <3> QED BY <1>1, <3>3, <3>5, HeadTailProperties, EmptySeq
  <2>6. ASSUME NEW g \in Handler, NEW r \in RepairId,
               In(g, "repair.create", "post")', call'[g].id = r
        PROVE  /\ repair'[r].status # "absent"
               /\ Len(call'[g].due) = 1
               /\ Rows({"REPAIR"}, r)' = {}
               /\ \A f \in Handler \ {g} : In(f, "repair.create", "post")' => call'[f].id # r
    <3>1. g # h /\ call'[g] = call[g] /\ In(g, "repair.create", "post")
      BY <1>5, <2>5, <2>6 DEF In
    <3>2. ~ (e = "REPAIR" /\ call[h].id = r)
      BY <2>2, <2>6, <3>1
    <3>3. /\ repair[r].status # "absent" /\ Len(call[g].due) = 1 /\ Rows({"REPAIR"}, r) = {}
          /\ \A f \in Handler \ {g} : In(f, "repair.create", "post") => call[f].id # r
      BY <2>6, <3>1 DEF ChargesOK, RepairCharged
    <3>4. \A f \in Handler \ {g} : In(f, "repair.create", "post")' => call'[f].id # r
      BY <1>5, <2>5, <3>3 DEF In
    <3> QED BY <1>0, <2>3, <3>1, <3>2, <3>3, <3>4
  <2> QED BY <2>4, <2>6 DEF RepairCharged, Once
<1>9. DisposalCharged'
  <2>1. e \in Fee => In(h, "disposal.approve", "post")
    BY <1>1 DEF ChargesOK, DueWhere
  <2>2. \A d \in DisposalId : Rows(Fee, d)' # {} => disposal'[d].approved
    BY <1>0, <1>4, <2>1 DEF ChargesOK, DisposalCharged
  <2>3. \A g \in Handler : In(g, "disposal.approve", "post")' =>
           In(g, "disposal.approve", "post") /\ call'[g].id = call[g].id
    BY <1>1, <1>5 DEF In, Goes, Idle
  <2> QED BY <1>0, <2>2, <2>3 DEF ChargesOK, DisposalCharged
<1>10. InspectionCharged'
  <2>1. \A i \in InspectionId : inspection'[i].status = "completed" => Rows({"INSPECT"}, i)' # {}
    BY <1>0, <1>4 DEF ChargesOK, InspectionCharged
  <2>2. ASSUME NEW g \in Handler, NEW i \in InspectionId,
               In(g, "inspections.complete", "tx")', call'[g].id = i
        PROVE  Rows({"INSPECT"}, i)' # {} \/ DueFirst(g, {"INSPECT"})'
    <3>1. CASE g = h
      <4>1. In(h, "inspections.complete", "tx") /\ call[h].id = i
        BY <1>1, <2>2, <3>1 DEF In, Goes, Idle
      <4>2. Rows({"INSPECT"}, i) # {} \/ e \in {"INSPECT"}
        BY <4>1 DEF ChargesOK, InspectionCharged, DueFirst
      <4> QED BY <1>4, <4>1, <4>2
    <3>2. CASE g # h
      <4>1. /\ call'[g] = call[g] /\ In(g, "inspections.complete", "tx")
            /\ DueFirst(g, {"INSPECT"})' = DueFirst(g, {"INSPECT"})
        BY <1>5, <2>2, <3>2 DEF In
      <4>2. Rows({"INSPECT"}, i) # {} \/ DueFirst(g, {"INSPECT"})
        BY <2>2, <4>1 DEF ChargesOK, InspectionCharged
      <4> QED BY <1>4, <4>1, <4>2
    <3> QED BY <3>1, <3>2
  <2> QED BY <2>1, <2>2 DEF InspectionCharged
<1>11. SourceExists'
  <2>1. Sourced(h)'
    BY <1>0, <1>1 DEF Sourced, ChargesOK, SourceExists, Goes, Idle
  <2> QED BY <1>0, <1>1, <2>1, SourceKept DEF ChargesOK
<1>12. RetrievalCharged'
  <2>1. e \in Pickup => In(h, "retrieval.create", "tx")
    BY <1>1 DEF ChargesOK, DueWhere, In
  <2>2. call[h].op = "retrieval.create" =>
          /\ \A k \in 2..Len(call[h].due) : call[h].due[k].do \notin Pickup
          /\ \A k \in 1..Len(call'[h].due) : call'[h].due[k].do \notin Pickup
          /\ ~ DueFirst(h, Pickup)'
    <3>1. call'[h].due # <<>> => 1 \in 1..Len(call'[h].due)
      BY <1>3, LenProperties, EmptySeq
    <3> QED BY <1>3, <3>1 DEF ChargesOK, RetrievalCharged, DueFirst
  <2>3. ASSUME NEW t \in RetrievalId, In(h, "retrieval.create", "tx"), call[h].id = t
        PROVE  /\ retrieval[t].status = "absent"
               /\ \A g \in Handler \ {h} : In(g, "retrieval.create", "tx") => call[g].id # t
               /\ Once(Rows(Pickup, t)')
    <3>1. /\ retrieval[t].status = "absent"
          /\ \A g \in Handler \ {h} : In(g, "retrieval.create", "tx") => call[g].id # t
          /\ IF DueFirst(h, Pickup) THEN Rows(Pickup, t) = {} ELSE Once(Rows(Pickup, t))
      BY <2>3 DEF ChargesOK, RetrievalCharged
    <3>2. DueFirst(h, Pickup) <=> e \in Pickup
      BY <1>1 DEF DueFirst
    <3>3. CASE e \in Pickup
      <4>1. Rows(Pickup, t)' = {Len(ledger) + 1}
        BY <1>4, <2>3, <3>1, <3>2, <3>3
      <4> QED BY <3>1, <4>1 DEF Once
    <3>4. CASE e \notin Pickup
      <4>1. Rows(Pickup, t)' = Rows(Pickup, t)
        BY <1>4, <3>4
      <4> QED BY <3>1, <3>2, <3>4, <4>1
    <3> QED BY <3>1, <3>3, <3>4
  <2>4. ASSUME NEW t \in RetrievalId, ~ (In(h, "retrieval.create", "tx") /\ call[h].id = t)
        PROVE  Rows(Pickup, t)' = Rows(Pickup, t)
    BY <1>4, <2>1, <2>4
  <2>5. \A t \in RetrievalId : retrieval'[t].status # "absent" => Once(Rows(Pickup, t)')
    BY <1>0, <2>3, <2>4 DEF ChargesOK, RetrievalCharged
  <2>6. ASSUME NEW g \in Handler, NEW t \in RetrievalId,
               In(g, "retrieval.create", "tx")', call'[g].id = t
        PROVE  /\ retrieval'[t].status = "absent"
               /\ \A f \in Handler \ {g} : In(f, "retrieval.create", "tx")' => call'[f].id # t
               /\ IF DueFirst(g, Pickup)' THEN Rows(Pickup, t)' = {} ELSE Once(Rows(Pickup, t)')
    <3>1. /\ In(g, "retrieval.create", "tx") /\ call[g].id = t
          /\ \A f \in Handler : In(f, "retrieval.create", "tx")' =>
               In(f, "retrieval.create", "tx") /\ call'[f].id = call[f].id
      <4>1. ASSUME NEW f \in Handler, In(f, "retrieval.create", "tx")'
            PROVE  In(f, "retrieval.create", "tx") /\ call'[f].id = call[f].id
        <5>1. CASE f = h
          BY <1>1, <4>1, <5>1 DEF In, Goes, Idle
        <5>2. CASE f # h
          BY <1>5, <4>1, <5>2 DEF In
        <5> QED BY <5>1, <5>2
      <4> QED BY <2>6, <4>1
    <3>2. /\ retrieval[t].status = "absent"
          /\ \A f \in Handler \ {g} : In(f, "retrieval.create", "tx") => call[f].id # t
          /\ IF DueFirst(g, Pickup) THEN Rows(Pickup, t) = {} ELSE Once(Rows(Pickup, t))
      BY <3>1 DEF ChargesOK, RetrievalCharged
    <3>3. \A f \in Handler \ {g} : In(f, "retrieval.create", "tx")' => call'[f].id # t
      BY <3>1, <3>2
    <3>4. CASE g = h
      <4>1. ~ DueFirst(g, Pickup)'
        BY <2>2, <3>1, <3>4 DEF In
      <4>2. Once(Rows(Pickup, t)')
        BY <2>3, <3>1, <3>4
      <4> QED BY <1>0, <3>2, <3>3, <4>1, <4>2
    <3>5. CASE g # h
      <4>1. Rows(Pickup, t)' = Rows(Pickup, t)
        BY <2>4, <3>1, <3>2, <3>5
      <4>2. DueFirst(g, Pickup)' = DueFirst(g, Pickup)
        BY <1>5, <3>5
      <4> QED BY <1>0, <3>2, <3>3, <4>1, <4>2
    <3> QED BY <3>4, <3>5
  <2>7. ASSUME NEW g \in Handler, call'[g].op = "retrieval.create"
        PROVE  /\ \A k \in 2..Len(call'[g].due) : call'[g].due[k].do \notin Pickup
               /\ call'[g].at = "read" => DueFirst(g, Pickup)'
    <3>1. CASE g = h
      <4>1. call[h].op = "retrieval.create" /\ call'[h].at # "read"
        BY <1>1, <2>7, <3>1 DEF Goes, Idle
      <4>2. \A k \in 2..Len(call'[h].due) : k \in 1..Len(call'[h].due)
        BY <1>3, LenProperties
      <4> QED BY <2>2, <3>1, <4>1, <4>2
    <3>2. CASE g # h
      <4>1. call'[g] = call[g] /\ DueFirst(g, Pickup)' = DueFirst(g, Pickup)
        BY <1>5, <3>2
      <4> QED BY <2>7, <4>1 DEF ChargesOK, RetrievalCharged
    <3> QED BY <3>1, <3>2
  <2> QED BY <2>5, <2>6, <2>7 DEF RetrievalCharged, Once
<1>13. OrderCharged'
  <2>1. e \in BundleEvent => In(h, "deployment.create", "tx")
    BY <1>1 DEF ChargesOK, DueWhere, In
  <2>2. \A d, a : BundleRows(d, a)' = IF e \in BundleEvent /\ call[h].id = d /\ row.asset = a
                                      THEN BundleRows(d, a) \cup {Len(ledger) + 1}
                                      ELSE BundleRows(d, a)
    BY <1>0, <1>1, <1>2, BundlePosted
  <2>3. call[h].op = "deployment.create" =>
          /\ IsInjective(call[h].rest)
          /\ \A k \in 1..Len(call'[h].due) : call'[h].due[k].do \notin BundleEvent
          /\ ~ DueFirst(h, BundleEvent)'
    <3>1. call'[h].due # <<>> => 1 \in 1..Len(call'[h].due)
      BY <1>3, LenProperties, EmptySeq
    <3> QED BY <1>3, <3>1 DEF ChargesOK, OrderCharged, OrderInProgress, DueFirst
  <2>4. ASSUME NEW d \in OrderId, ~ (In(h, "deployment.create", "tx") /\ call[h].id = d)
        PROVE  \A a : BundleRows(d, a)' = BundleRows(d, a)
    BY <2>1, <2>2, <2>4
  <2>5. \A d \in OrderId : order'[d].status # "absent" =>
          \A a \in order'[d].on : Once(BundleRows(d, a)')
    <3>1. \A d \in OrderId : In(h, "deployment.create", "tx") /\ call[h].id = d =>
             order[d].status = "absent"
      BY <1>0 DEF DeploymentCalls
    <3> QED BY <1>0, <2>4, <3>1 DEF ChargesOK, OrderCharged
  <2>6. ASSUME NEW g \in Handler, NEW d \in OrderId,
               In(g, "deployment.create", "tx")', call'[g].id = d
        PROVE  /\ \A a \in call'[g].on :
                    IF \/ a \in ToSet(call'[g].rest)
                       \/ DueFirst(g, BundleEvent)' /\ call'[g].due[1].asset = a
                    THEN BundleRows(d, a)' = {}
                    ELSE Once(BundleRows(d, a)')
               /\ DueFirst(g, BundleEvent)' => call'[g].due[1].asset \notin ToSet(call'[g].rest)
    <3>1. /\ In(g, "deployment.create", "tx") /\ call[g].id = d
          /\ call'[g].rest = call[g].rest /\ call'[g].on = call[g].on
      BY <1>1, <1>5, <2>6 DEF In, Goes, Idle
    <3>2. /\ \A a \in call[g].on :
               IF \/ a \in ToSet(call[g].rest)
                  \/ DueFirst(g, BundleEvent) /\ call[g].due[1].asset = a
               THEN BundleRows(d, a) = {}
               ELSE Once(BundleRows(d, a))
          /\ DueFirst(g, BundleEvent) => call[g].due[1].asset \notin ToSet(call[g].rest)
      BY <3>1 DEF ChargesOK, OrderCharged, OrderInProgress
    <3>3. CASE g = h
      <4>1. ~ DueFirst(g, BundleEvent)'
        BY <2>3, <3>1, <3>3 DEF In
      <4>2. DueFirst(g, BundleEvent) <=> e \in BundleEvent
        BY <1>1, <3>3 DEF DueFirst
      <4>3. ASSUME NEW a \in call[g].on
            PROVE  IF a \in ToSet(call[g].rest) THEN BundleRows(d, a)' = {}
                                                ELSE Once(BundleRows(d, a)')
        <5>1. CASE e \in BundleEvent /\ row.asset = a
          <6>1. a \notin ToSet(call[g].rest) /\ BundleRows(d, a) = {}
            BY <1>2, <3>2, <3>3, <4>2, <4>3, <5>1
          <6>2. BundleRows(d, a)' = {Len(ledger) + 1}
            BY <2>2, <3>1, <3>3, <5>1, <6>1
          <6> QED BY <6>1, <6>2 DEF Once
        <5>2. CASE ~ (e \in BundleEvent /\ row.asset = a)
          <6>1. BundleRows(d, a)' = BundleRows(d, a)
            BY <2>2, <5>2
          <6>2. ~ (DueFirst(g, BundleEvent) /\ call[g].due[1].asset = a)
            BY <1>2, <3>3, <4>2, <5>2
          <6> QED BY <3>2, <4>3, <6>1, <6>2
        <5> QED BY <5>1, <5>2
      <4> QED BY <3>1, <4>1, <4>3
    <3>4. CASE g # h
      <4>1. \A f \in Handler \ {g} : In(f, "deployment.create", "tx") => call[f].id # d
        BY <1>0, <3>1 DEF DeploymentCalls
      <4>2. \A a : BundleRows(d, a)' = BundleRows(d, a)
        BY <2>4, <3>4, <4>1
      <4>3. DueFirst(g, BundleEvent)' = DueFirst(g, BundleEvent) /\ call'[g] = call[g]
        BY <1>5, <3>4
      <4> QED BY <3>2, <4>2, <4>3
    <3> QED BY <3>3, <3>4
  <2>7. ASSUME NEW g \in Handler, call'[g].op = "deployment.create"
        PROVE  /\ IsInjective(call'[g].rest)
               /\ \A k \in 2..Len(call'[g].due) : call'[g].due[k].do \notin BundleEvent
               /\ call'[g].at = "read" => /\ ToSet(call'[g].rest) = call'[g].on
                                          /\ DueOf(g)' \cap (BundleEvent \cup {"suppress"}) = {}
                                          /\ call'[g].sup = {}
    <3>1. CASE g = h
      <4>1. /\ call[h].op = "deployment.create" /\ call'[h].at # "read"
            /\ call'[h].rest = call[h].rest
        BY <1>1, <2>7, <3>1 DEF Goes, Idle
      <4>2. \A k \in 2..Len(call'[h].due) : k \in 1..Len(call'[h].due)
        BY <1>3, LenProperties
      <4> QED BY <2>3, <3>1, <4>1, <4>2
    <3>2. CASE g # h
      <4>1. call'[g] = call[g] /\ DueOf(g)' = DueOf(g)
        BY <1>5, <3>2
      <4> QED BY <2>7, <4>1 DEF ChargesOK, OrderCharged, OrderInProgress
    <3> QED BY <3>1, <3>2
  <2> QED BY <2>5, <2>6, <2>7 DEF OrderCharged, OrderInProgress, Once
<1>14. WaiverOK'
  <2>1. /\ \A i : Component(i) => Component(i)'
        /\ \A i : Component(i) => ledger'[i].asset = ledger[i].asset
        /\ \A d, a : Prepped(d, a) => \E j \in Rows({"FULL_PREP"}, d)' : ledger'[j].asset = a
    <3>1. /\ \A i : Component(i) => Component(i)'
          /\ \A i \in 1..Len(ledger) : ledger'[i] = ledger[i]
      BY <1>0, <1>1, RowsPosted
    <3>2. \A d : Rows({"FULL_PREP"}, d) \subseteq Rows({"FULL_PREP"}, d)'
      BY <1>4
    <3> QED BY <3>1, <3>2 DEF Component, Prepped, Rows
  <2>2. ASSUME NEW d, call[h].id = d, e = "FULL_PREP"
        PROVE  \E j \in Rows({"FULL_PREP"}, d)' : ledger'[j].asset = call[h].due[1].asset
    <3>1. ledger'[Len(ledger) + 1] = row
      BY <1>0, <1>1, RowsPosted
    <3>2. Len(ledger) + 1 \in Rows({"FULL_PREP"}, d)'
      BY <1>4, <2>2
    <3> QED BY <1>2, <3>1, <3>2
  <2>3. (\A i \in suppressed :
           /\ Component(i)
           /\ \E d \in OrderId : order[d].status # "absent" /\ Prepped(d, ledger[i].asset))'
    <3>1. ASSUME NEW i \in suppressed
          PROVE  /\ Component(i)'
                 /\ \E d \in OrderId : /\ order'[d].status # "absent"
                                       /\ \E j \in Rows({"FULL_PREP"}, d)' :
                                            ledger'[j].asset = ledger'[i].asset
      <4>1. PICK d \in OrderId : /\ Component(i) /\ order[d].status # "absent"
                                 /\ Prepped(d, ledger[i].asset)
        BY <3>1 DEF ChargesOK, WaiverOK
      <4> QED BY <1>0, <2>1, <4>1
    <3> QED BY <1>1, <3>1 DEF Prepped
  <2>4. ASSUME NEW g \in Handler, NEW d \in OrderId,
               In(g, "deployment.create", "tx")', call'[g].id = d
        PROVE  /\ \A i \in call'[g].sup :
                    /\ Component(i)'
                    /\ \E j \in Rows({"FULL_PREP"}, d)' : ledger'[j].asset = ledger'[i].asset
               /\ \A k \in 1..Len(call'[g].due) : call'[g].due[k].do = "suppress" =>
                    \/ \E j \in Rows({"FULL_PREP"}, d)' : ledger'[j].asset = call'[g].due[k].asset
                    \/ \E m \in 1..(k - 1) : call'[g].due[m] = [do    |-> "FULL_PREP",
                                                               asset |-> call'[g].due[k].asset]
    <3>1. /\ In(g, "deployment.create", "tx") /\ call[g].id = d /\ call'[g].sup = call[g].sup
      BY <1>1, <1>5, <2>4 DEF In, Goes, Idle
    <3>2. /\ \A i \in call[g].sup : Component(i) /\ Prepped(d, ledger[i].asset)
          /\ \A k \in 1..Len(call[g].due) : call[g].due[k].do = "suppress" =>
               \/ Prepped(d, call[g].due[k].asset)
               \/ \E m \in 1..(k - 1) : call[g].due[m] = [do    |-> "FULL_PREP",
                                                         asset |-> call[g].due[k].asset]
      BY <3>1 DEF ChargesOK, WaiverOK, WaiverInProgress
    <3>3. \A i \in call'[g].sup :
            /\ Component(i)'
            /\ \E j \in Rows({"FULL_PREP"}, d)' : ledger'[j].asset = ledger'[i].asset
      BY <2>1, <3>1, <3>2
    <3>4. ASSUME NEW k \in 1..Len(call'[g].due), call'[g].due[k].do = "suppress"
          PROVE  \/ \E j \in Rows({"FULL_PREP"}, d)' : ledger'[j].asset = call'[g].due[k].asset
                 \/ \E m \in 1..(k - 1) : call'[g].due[m] = [do    |-> "FULL_PREP",
                                                            asset |-> call'[g].due[k].asset]
      <4>1. CASE g # h
        <5>1. call'[g] = call[g]
          BY <1>5, <4>1
        <5> QED BY <2>1, <3>2, <3>4, <5>1
      <4>2. CASE g = h
        <5>1. /\ k + 1 \in 2..Len(call[h].due) /\ k \in Nat
              /\ call'[h].due[k] = call[h].due[k + 1]
          BY <1>3, <3>4, <4>2
        <5>2. k + 1 \in 1..Len(call[h].due)
          BY <1>1, <5>1, LenProperties
        <5>3. CASE Prepped(d, call[h].due[k + 1].asset)
          BY <2>1, <4>2, <5>1, <5>3
        <5>4. ASSUME NEW m \in 1..((k + 1) - 1),
                     call[h].due[m] = [do |-> "FULL_PREP", asset |-> call[h].due[k + 1].asset]
              PROVE  \/ \E j \in Rows({"FULL_PREP"}, d)' : ledger'[j].asset = call'[h].due[k].asset
                     \/ \E n \in 1..(k - 1) : call'[h].due[n] = [do    |-> "FULL_PREP",
                                                                asset |-> call'[h].due[k].asset]
          <6>1. CASE m = 1
            <7>1. /\ e = "FULL_PREP" /\ call[h].id = d
                  /\ call[h].due[1].asset = call[h].due[k + 1].asset
              BY <3>1, <4>2, <5>4, <6>1
            <7>2. \E j \in Rows({"FULL_PREP"}, d)' : ledger'[j].asset = call[h].due[1].asset
              BY <2>2, <7>1
            <7> QED BY <4>2, <5>1, <7>1, <7>2
          <6>2. CASE m # 1
            <7>1. m - 1 \in 1..(k - 1) /\ m - 1 \in 1..Len(call'[h].due) /\ (m - 1) + 1 = m
              BY <1>3, <3>4, <4>2, <5>1, <6>2, LenProperties
            <7>2. call'[h].due[m - 1] = call[h].due[m]
              BY <1>3, <7>1
            <7> QED BY <5>1, <5>4, <7>1, <7>2
          <6> QED BY <6>1, <6>2
        <5>5. \/ Prepped(d, call[h].due[k + 1].asset)
              \/ \E m \in 1..((k + 1) - 1) :
                   call[h].due[m] = [do |-> "FULL_PREP", asset |-> call[h].due[k + 1].asset]
          BY <3>2, <3>4, <4>2, <5>1, <5>2
        <5> QED BY <4>2, <5>1, <5>3, <5>4, <5>5
      <4> QED BY <4>1, <4>2
    <3> QED BY <3>3, <3>4
  <2>5. \A g \in Handler : WaiverInProgress(g)'
    BY <2>4 DEF WaiverInProgress, Prepped
  <2> QED BY <2>3, <2>5 DEF WaiverOK
<1> QED BY <1>7, <1>8, <1>9, <1>10, <1>11, <1>12, <1>13, <1>14 DEF ChargesOK

LEMMA CallCharges ==
    ASSUME StatusInv, StatusInv', ChargesOK, CallNext
    PROVE  ChargesOK'
<1>1. PICK h \in Handler : PostRow(h) \/ Fail(h)
  BY DEF CallNext
<1>2. CASE PostRow(h)
  BY <1>2, PostCharges DEF CallNext
<1>3. CASE Fail(h)
  <2>1. /\ call \in [Handler -> CallRecord] /\ call' \in [Handler -> CallRecord]
        /\ DisposalCalls /\ Reply(h) /\ UNCHANGED ledger /\ UNCHANGED suppressed
    BY <1>3 DEF StatusInv, TypeOK, RegisterTypeOK, CallsOK, Fail
  <2>2. OneCall(h) /\ Plain(h)' /\ Sourced(h)'
    BY <2>1, ReplyPlain
  <2>3. TablesGrow
    BY DEF CallNext, requestVars, redeployVars, TablesGrow
  <2> QED BY <2>1, <2>2, <2>3, PlainStep
<1> QED BY <1>1, <1>2, <1>3

-----------------------------------------------------------------------------
(***************************************************************************)
(* The theorems                                                            *)
(***************************************************************************)
LEMMA InitIInv == Init => IInv
<1> SUFFICES ASSUME Init PROVE ChargesOK
  BY InitStatus DEF IInv
<1> USE DEF Init, RegisterInit
<1>1. \A h \in Handler : /\ call[h].op = "idle" /\ call[h].at = "idle" /\ call[h].due = <<>>
                         /\ DueOf(h) = {}
  BY DEF Idle, DueOf
<1>2. \A E, id : "INGEST" \notin E => Rows(E, id) = {}
  BY RegisterAssumption DEF Rows
<1>3. DueWhere
  BY <1>1 DEF DueWhere, In
<1>4. RepairCharged /\ DisposalCharged
  <2>1. \A id : Rows({"REPAIR"}, id) = {} /\ Rows(Fee, id) = {}
    BY <1>2 DEF Fee
  <2> QED BY <1>1, <2>1 DEF RepairCharged, DisposalCharged, In
<1>5. InspectionCharged /\ SourceExists /\ RetrievalCharged
  BY <1>1, RegisterAssumption, InspectionsAssumption
  DEF InspectionCharged, SourceExists, RetrievalCharged, In, InspectionsInit, NoInspection,
      RetrievalInit, NoRetrieval
<1>6. OrderCharged /\ WaiverOK
  BY <1>1 DEF OrderCharged, OrderInProgress, WaiverOK, WaiverInProgress, In, DeploymentInit, NoOrder
<1> QED BY <1>3, <1>4, <1>5, <1>6 DEF ChargesOK

LEMMA StepIInv == IInv /\ [ServiceNext]_vars => IInv'
<1> SUFFICES ASSUME IInv, [ServiceNext]_vars PROVE IInv'
  OBVIOUS
<1>0. StatusInv /\ StatusInv' /\ ChargesOK
  BY StepStatus DEF IInv
<1>1. CASE ServiceNext
  BY <1>0, <1>1, CallCharges, RepairCharges, ResaleCharges, DisposalCharges, InspectionCharges,
     RetrievalCharges, DeploymentCharges, RedeployCharges, AssetsCharges
  DEF ServiceNext, IInv
<1>2. CASE UNCHANGED vars
  BY <1>0, <1>2 DEF vars, registerVars, requestVars, redeployVars, IInv, ChargesOK, DueWhere,
     DueOf, RepairCharged, DisposalCharged, InspectionCharged, SourceExists, RetrievalCharged,
     OrderCharged, OrderInProgress, WaiverOK, WaiverInProgress, In, Rows, Once, DueFirst,
     BundleRows, Component, Prepped
<1> QED BY <1>1, <1>2

LEMMA OnceCardinality ==
    ASSUME NEW S
    PROVE  /\ Once(S) => Cardinality(S) = 1
           /\ S = {} => Cardinality(S) = 0
BY FS_Singleton, FS_EmptySet DEF Once

\* The inductive invariant holds in every reachable state of every instance.
THEOREM Invariant == Spec => []IInv
BY InitIInv, StepIInv, PTL DEF Spec

\* Every row keeps the type of its columns: no transition, however stale the
\* read it was decided on, writes a status its table does not have.
THEOREM TypeCorrect == Spec => []TypeOK
<1>1. IInv => TypeOK
  BY DEF IInv, StatusInv
<1> QED BY <1>1, Invariant, PTL

\* Whatever calls interleave, fail or crash, manual edits among them, the status
\* history of an asset ends with the status the asset has, unless an edit was the last
\* to write it and found another status than the one it had read and asked for.
THEOREM HistoryTrusted == Spec => []HistoryMatchesStatus
<1>1. IInv => HistoryMatchesStatus
  BY DEF IInv, StatusInv
<1> QED BY <1>1, Invariant, PTL

\* No race between services leaves an asset in a status without the request
\* that accounts for it.
THEOREM StatusHasReason == Spec => []StatusJustified
<1>1. IInv => StatusJustified
  BY DEF IInv, StatusInv, Accounted, Reason, StatusJustified, Held, Repairing
<1> QED BY <1>1, Invariant, PTL

\* No repair goes out and no disposal is processed without a sign-off.
THEOREM AlwaysSignedOff == Spec => []SignedOff
<1>1. IInv => SignedOff
  BY DEF IInv, StatusInv, CallsOK, RepairCalls, DisposalCalls, SignedOff
<1> QED BY <1>1, Invariant, PTL

\* A repair is completed only after a delivery challan was attached to it.
THEOREM AlwaysClosedWithProof == Spec => []ClosedWithProof
<1>1. Init => ClosedWithProof
  BY DEF Init, RepairInit, NoRepair, ClosedWithProof
<1>2. IInv /\ ClosedWithProof /\ [ServiceNext]_vars => ClosedWithProof'
  <2> SUFFICES ASSUME IInv, ClosedWithProof, [ServiceNext]_vars PROVE ClosedWithProof'
    OBVIOUS
  <2>1. RepairCalls /\ repair \in [RepairId -> RepairRecord]
    BY DEF IInv, StatusInv, CallsOK, TypeOK, RepairTypeOK
  <2>2. CASE UNCHANGED repair
    BY <2>2 DEF ClosedWithProof
  <2>3. CASE RepairNext
    <3>1. ASSUME NEW h \in Handler, RepairCreateTx(h)
          PROVE  ClosedWithProof'
      BY <2>1, <3>1 DEF RepairCreateTx, ClosedWithProof, NoRepair
    <3>2. ASSUME NEW h \in Handler, RepairApproveWrite(h)
          PROVE  ClosedWithProof'
      BY <2>1, <3>2 DEF RepairApproveWrite, In, RepairCalls, RepairRecord, ClosedWithProof
    <3>3. ASSUME NEW h \in Handler, RepairUpdateTx(h)
          PROVE  ClosedWithProof'
      <4>1. PICK r \in RepairId :
              /\ r = call[h].id
              /\ call[h].to = "completed" => repair[r].dc # "none"
        BY <2>1, <3>3 DEF RepairUpdateTx, RepairCalls
      <4> QED BY <2>1, <3>3, <4>1 DEF RepairUpdateTx, RepairRecord, ClosedWithProof
    <3>4. ASSUME NEW r \in RepairId, RepairAttachDc(r) \/ RepairDetachDc(r)
          PROVE  ClosedWithProof'
      BY <2>1, <3>4 DEF RepairAttachDc, RepairDetachDc, RepairRecord, ClosedWithProof
    <3> QED BY <2>2, <2>3, <3>1, <3>2, <3>3, <3>4
            DEF RepairNext, RepairCreate, RepairApprove, RepairUpdate, RepairCountDc
  <2>4. UNCHANGED repair \/ RepairNext
    BY DEF ServiceNext, vars, requestVars, CallNext
  <2> QED BY <2>2, <2>3, <2>4
<1> QED BY <1>1, <1>2, Invariant, PTL DEF Spec

\* Charges posted after a commit are for work on record, and a repair is
\* charged at most once, in every interleaving and whichever calls fail.
THEOREM NeverChargedEarly == Spec => []PostedAfterCommit
<1>1. IInv => PostedAfterCommit
  <2> SUFFICES ASSUME IInv PROVE PostedAfterCommit
    OBVIOUS
  <2>1. ASSUME NEW r \in RepairId
        PROVE  /\ Cardinality(Rows({"REPAIR"}, r)) <= 1
               /\ Rows({"REPAIR"}, r) # {} => repair[r].status # "absent"
    BY OnceCardinality DEF IInv, ChargesOK, RepairCharged, Once
  <2>2. \A d \in DisposalId : Rows({"DISPOSAL", "DISPOSAL_CERT_ADDON"}, d) # {} =>
           disposal[d].approved
    BY DEF IInv, ChargesOK, DisposalCharged, Fee
  <2> QED BY <2>1, <2>2 DEF PostedAfterCommit
<1> QED BY <1>1, Invariant, PTL

\* Committed orders, retrievals and inspections have their charge, and an order
\* and a retrieval have it once.
THEOREM CommittedAlwaysCharged == Spec => []CommittedIsCharged
<1>1. IInv => CommittedIsCharged
  <2> SUFFICES ASSUME IInv PROVE CommittedIsCharged
    OBVIOUS
  <2>1. ASSUME NEW d \in OrderId, order[d].status # "absent", NEW a \in order[d].on
        PROVE  Cardinality({i \in Rows({"PICK_PACK", "FULL_PREP"}, d) : ledger[i].asset = a}) = 1
    <3>1. Once(BundleRows(d, a))
      BY <2>1 DEF IInv, ChargesOK, OrderCharged
    <3> QED BY <3>1, OnceCardinality DEF BundleRows, BundleEvent
  <2>2. ASSUME NEW t \in RetrievalId, retrieval[t].status # "absent"
        PROVE  Cardinality(Rows({"RETRIEVAL", "RETRIEVAL_FULL_CYCLE"}, t)) = 1
    <3>1. Once(Rows(Pickup, t))
      BY <2>2 DEF IInv, ChargesOK, RetrievalCharged
    <3> QED BY <3>1, OnceCardinality DEF Pickup
  <2>3. \A i \in InspectionId : inspection[i].status = "completed" => Rows({"INSPECT"}, i) # {}
    BY DEF IInv, ChargesOK, InspectionCharged
  <2> QED BY <2>1, <2>2, <2>3 DEF CommittedIsCharged
<1> QED BY <1>1, Invariant, PTL

\* Only an order that committed waives a component charge, and only of an asset
\* whose Full Prep bundle it charged.
THEOREM WaivedOnlyForBundle == Spec => []WaivedForBundle
<1>1. IInv => WaivedForBundle
  <2> SUFFICES ASSUME IInv, NEW i \in suppressed
               PROVE  /\ ledger[i].event \in {"INGEST", "INSPECT"}
                      /\ \E j \in 1..Len(ledger) :
                           /\ ledger[j].event = "FULL_PREP"
                           /\ ledger[j].asset = ledger[i].asset
                           /\ ledger[j].ref \in {d \in OrderId : order[d].status # "absent"}
    BY DEF WaivedForBundle
  <2>1. PICK d \in OrderId : /\ Component(i) /\ order[d].status # "absent"
                             /\ Prepped(d, ledger[i].asset)
    BY DEF IInv, ChargesOK, WaiverOK
  <2> QED BY <2>1 DEF Component, Prepped, Rows
<1> QED BY <1>1, Invariant, PTL
=============================================================================

------------------------------- MODULE ReceivePage -------------------------------
(***************************************************************************)
(* Scanning a delivery.  Serials are scanned, or pasted as a list, and     *)
(* each becomes a row filled from an expected line: the one the operator   *)
(* picked, or the first that still has devices outstanding by what the     *)
(* page knows of earlier receipts and by the rows already there.  Others   *)
(* may receive devices of the same delivery meanwhile, correct the model   *)
(* of a received one, and edit the lines; that they add lines or remove    *)
(* them is left out.                                                       *)
(*                                                                         *)
(* The server only counts devices by their kind (category, model and       *)
(* manufacturer); the page allots them to the lines in order.              *)
(***************************************************************************)
EXTENDS Naturals, Sequences, FiniteSets

CONSTANTS Kind, Serial,
          Deliveries,        \* the deliveries looked at: sequences of lines [kind, quantity]
          Typed,             \* bound: the kinds typed over what was filled
          NoKind,            \* model and manufacturer are empty
          MaxReceived        \* bound: devices received when others receive one more

ASSUME ReceiveAssumption == Deliveries \subseteq Seq([kind : Kind, quantity : Nat])

VARIABLES lines,        \* the lines of the delivery
          received,     \* kind -> devices the server has received for it
          kept,         \* the serials it has stored
          loaded,       \* the page has the delivery
          expected,     \* its lines, by the answer the page has
          seen,         \* kind -> devices received, by that answer
          seenLeast,    \* the least of them the page had since it was opened, or got other lines
          rows,         \* the devices scanned, in order
          pickedLine,   \* the line the operator picked, or 0
          sending       \* the devices of the request on its way, or <<>>

receiveVars == <<lines, received, kept, loaded, expected, seen, seenLeast, rows, pickedLine, sending>>

\* The delivery, and what the page knows of it.
delivery == <<lines, received, kept, loaded, expected, seen>>

ExpectedLines == DOMAIN expected

\* What the numbers f come to over S.
Total(f, S) == Cardinality(UNION {{x} \X (1..f[x]) : x \in S})

\* Devices other lines of the kind, listed before l, may take.
Before(l) ==
    Total([m \in ExpectedLines |-> expected[m].quantity],
          {m \in ExpectedLines : m < l /\ expected[m].kind = expected[l].kind})

\* receivedPerLine, for the counts c: what is left after the earlier lines, up to the quantity.
Taken(c, l) ==
    LET available == c[expected[l].kind]
        quantity  == expected[l].quantity
    IN CASE available <= Before(l)            -> 0
         [] available >= Before(l) + quantity -> quantity
         [] OTHER                             -> available - Before(l)

\* scannedFor and remainingFor, of the rows rs
ScannedFor(rs, l) == Cardinality({i \in DOMAIN rs : rs[i].line = l})
Outstanding(rs, l) == Taken(seen, l) + ScannedFor(rs, l) < expected[l].quantity

\* The line a new row is filled from, or 0.
Target(rs) ==
    LET outstanding == {l \in ExpectedLines : Outstanding(rs, l)}
    IN CASE ~loaded                  -> 0
         [] loaded /\ pickedLine # 0     -> pickedLine
         [] loaded /\ pickedLine = 0 /\ outstanding # {} ->
               CHOOSE l \in outstanding : \A m \in outstanding : l <= m
         [] OTHER                    -> IF Len(expected) = 1 THEN 1 ELSE 0

\* fromItem
FilledFrom(l) == IF l = 0 THEN NoKind ELSE expected[l].kind

Row(s, l) == [serial |-> s, line |-> l, kind |-> FilledFrom(l), auto |-> pickedLine = 0]

SerialsOf(rs) == {rs[i].serial : i \in DOMAIN rs}

\* Mutant: a pasted list is filled by what was outstanding before it.
AddSerialAtOnce(rs, s) == IF s \in SerialsOf(rs) THEN rs ELSE Append(rs, Row(s, Target(rows)))

\* addSerials, of one more serial
AddSerial(rs, s) == IF s \in SerialsOf(rs) THEN rs ELSE Append(rs, Row(s, Target(rs)))

\* Neither waits for a request on its way.
HandleScan ==
    /\ \E s \in Serial : rows' = AddSerial(rows, s)
    /\ UNCHANGED <<delivery, seenLeast, pickedLine, sending>>

HandlePaste ==
    /\ \E s, t \in Serial : rows' = AddSerial(AddSerial(rows, s), t)
    /\ UNCHANGED <<delivery, seenLeast, pickedLine, sending>>

\* Picking the line again leaves it to the order of the lines; a single line cannot be picked.
SelectItem(l) ==
    /\ loaded /\ Len(expected) > 1
    /\ pickedLine' = IF pickedLine = l THEN 0 ELSE l
    /\ UNCHANGED <<delivery, seenLeast, rows, sending>>

\* assignItem: to another line, or to none, which leaves what was filled.
AssignItem(i, l) ==
    /\ loaded /\ i \in DOMAIN rows /\ rows[i].line # l
    /\ rows' = [rows EXCEPT ![i] = [rows[i] EXCEPT !.line = l,
                                                   !.kind = IF l = 0 THEN @ ELSE FilledFrom(l),
                                                   !.auto = FALSE]]
    /\ UNCHANGED <<delivery, seenLeast, pickedLine, sending>>

\* updateDevice: model and manufacturer may be typed over; the row stays with its line.
UpdateDevice(i) ==
    /\ i \in DOMAIN rows
    /\ \E k \in Typed \ {rows[i].kind} : rows' = [rows EXCEPT ![i].kind = k]
    /\ UNCHANGED <<delivery, seenLeast, pickedLine, sending>>

RemoveDevice(i) ==
    /\ i \in DOMAIN rows
    /\ rows' = SubSeq(rows, 1, i - 1) \o SubSeq(rows, i + 1, Len(rows))
    /\ UNCHANGED <<delivery, seenLeast, pickedLine, sending>>

\* handleSubmit; the button is disabled while the mutation is pending.  That a location, a date and
\* a vendor for each device not to be inspected are missing is only told.
HandleSubmit ==
    /\ sending = <<>> /\ rows # <<>>
    /\ \A i \in DOMAIN rows : rows[i].kind # NoKind
    /\ sending' = [i \in DOMAIN rows |-> [serial |-> rows[i].serial, kind |-> rows[i].kind]]
    /\ UNCHANGED <<delivery, seenLeast, rows, pickedLine>>

\* The page as it is opened; the delivery may be in the cache.
Opened(counts) == /\ rows' = <<>> /\ pickedLine' = 0
                  /\ seenLeast' = counts

\* The devices are stored and the page is left, whatever was scanned since; it may be opened again
\* for the rest.  The answer may be lost, and the rows are still there.
SubmitStored ==
    /\ sending # <<>> /\ SerialsOf(sending) \cap kept = {}
    /\ kept' = kept \cup SerialsOf(sending)
    /\ received' = [k \in Kind |->
                      received[k] + Cardinality({i \in DOMAIN sending : sending[i].kind = k})]
    /\ sending' = <<>>
    /\ Opened(seen) \/ UNCHANGED <<rows, pickedLine, seenLeast>>
    /\ UNCHANGED <<lines, loaded, expected, seen>>

SubmitRefused ==
    /\ sending # <<>>
    /\ sending' = <<>>
    /\ UNCHANGED <<delivery, seenLeast, rows, pickedLine>>

\* Another operator receives a device of the delivery.
ReceivedElsewhere ==
    /\ Total(received, Kind) < MaxReceived
    /\ \E k \in Kind : received' = [received EXCEPT ![k] = @ + 1]
    /\ UNCHANGED <<lines, kept, loaded, expected, seen, seenLeast, rows, pickedLine, sending>>

\* updateReceivedDevice: a received device is of another model.
CorrectedElsewhere ==
    /\ \E j, k \in Kind :
          /\ j # k /\ received[j] > 0
          /\ received' = [received EXCEPT ![j] = @ - 1, ![k] = @ + 1]
    /\ UNCHANGED <<lines, kept, loaded, expected, seen, seenLeast, rows, pickedLine, sending>>

\* updateDelivery, of the lines: not below what was received.
EditedElsewhere ==
    /\ lines' \in {d \in Deliveries : Len(d) = Len(lines)}
    /\ Total([l \in DOMAIN lines' |-> lines'[l].quantity], DOMAIN lines') >= Total(received, Kind)
    /\ UNCHANGED <<received, kept, loaded, expected, seen, seenLeast, rows, pickedLine, sending>>

Lesser(c, d) == [k \in Kind |-> IF c[k] < d[k] THEN c[k] ELSE d[k]]

\* The page asks again.  Rows filled for lines as they were are no longer held against them.
DeliveryFetched ==
    /\ loaded' = TRUE /\ seen' = received /\ expected' = lines
    /\ IF loaded /\ expected = lines
       THEN seenLeast' = Lesser(seenLeast, received) /\ rows' = rows
       ELSE seenLeast' = received /\ rows' = [i \in DOMAIN rows |-> [rows[i] EXCEPT !.auto = FALSE]]
    /\ UNCHANGED <<lines, received, kept, pickedLine, sending>>

ReceiveInit ==
    /\ lines \in Deliveries /\ expected = lines
    /\ received = [k \in Kind |-> 0] /\ kept = {}
    /\ loaded = FALSE /\ seen = received /\ seenLeast = received
    /\ rows = <<>> /\ pickedLine = 0 /\ sending = <<>>

ReceiveNext ==
    \/ HandleScan \/ HandlePaste \/ HandleSubmit
    \/ SubmitStored \/ SubmitRefused \/ DeliveryFetched
    \/ ReceivedElsewhere \/ CorrectedElsewhere \/ EditedElsewhere
    \/ \E l \in ExpectedLines : SelectItem(l)
    \/ \E i \in DOMAIN rows : \/ \E l \in ExpectedLines \cup {0} : AssignItem(i, l)
                              \/ UpdateDevice(i) \/ RemoveDevice(i)

ReceiveSpec == ReceiveInit /\ [][ReceiveNext]_receiveVars

------------------------------------------------------------------------------
\* The lines are filled without being told only up to what the page knew to be outstanding:
\* scanning and pasting, with removals, reassignments and answers in between, never puts more
\* devices on a line than it expects, by the lines the page has and the least it took the server
\* to have received of them, and never a serial into two rows.  A single line takes all.
AutoFillFits ==
    /\ Len(expected) > 1 =>
         \A l \in ExpectedLines :
            LET auto == {i \in DOMAIN rows : rows[i].auto /\ rows[i].line = l}
            IN Taken(seenLeast, l) + Cardinality(auto) <= expected[l].quantity
    /\ Cardinality(SerialsOf(rows)) = Len(rows)
================================================================================

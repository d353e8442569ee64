----------------------------- MODULE ReceivingProofs -----------------------------
(***************************************************************************)
(* The numbers of the notes and the assets they created, for any number of *)
(* receipts at once, devices, months and failures.  A receipt counts the   *)
(* notes of its month while it holds the month's lock, and inserts what    *)
(* neither the table nor another open transaction has.  Then the types, and *)
(* the status of a delivery, which a call derives from what it has read.   *)
(***************************************************************************)
EXTENDS Receiving, FiniteSetTheorems, TLAPS

IsCall(c) ==
    c = [op |-> c.op, on |-> c.on, month |-> c.month, expected |-> c.expected,
         received |-> c.received, override |-> c.override, devices |-> c.devices,
         rest |-> c.rest, created |-> c.created, number |-> c.number]

Tables == /\ receiving = [h \in Handler |-> receiving[h]]
          /\ \A h \in Handler : IsCall(receiving[h])
          /\ note = [g \in Grn |-> note[g]]

Elements(s) == {s[i] : i \in DOMAIN s}

InTx == {"receive", "receive.insert", "receive.locked", "receive.counted"}

NotesWith(month) == {g \in Grn : note[g].month = month}

\* What a call has done of its loop, and what it knows once it has counted.
Sound(c) ==
    /\ c.op \in InTx \cup {"idle", "edit"}
    /\ c.op \notin InTx => c.created = {}
    /\ c.op \in InTx =>
         /\ \E m \in Month : c.month = {m}
         /\ c.devices \in Seq(Serial) /\ c.rest \in Seq(Serial)
         /\ ~ c.override => Elements(c.devices) = c.created \cup Elements(c.rest)
    /\ c.op = "receive.insert" => c.rest # <<>>
    /\ c.op \in {"receive.locked", "receive.counted"} => c.rest = <<>>
    /\ c.op = "receive.counted" => c.number = Cardinality(NotesWith(c.month)) + 1

\* What open transactions have inserted is theirs alone.
Apart(c, S) == c.created \cap S = {}

Holds(c) == c.op \in {"receive.locked", "receive.counted"}

Exclusive ==
    /\ \A h \in Handler : Apart(receiving[h], stock)
    /\ \A g, h \in Handler : g # h => Apart(receiving[g], receiving[h].created)
    /\ \A g, h \in Handler : g # h /\ Holds(receiving[g]) /\ Holds(receiving[h]) =>
         receiving[g].month # receiving[h].month

IInv == /\ Tables
        /\ \A h \in Handler : Sound(receiving[h])
        /\ Exclusive
        /\ NumbersInSequence
        /\ CreatedOnce

------------------------------------------------------------------------------
LEMMA HeadAndTail ==
    ASSUME NEW s \in Seq(Serial), s # <<>>
    PROVE  /\ Head(s) \in Serial /\ Tail(s) \in Seq(Serial)
           /\ Elements(s) = {Head(s)} \cup Elements(Tail(s))
<1>1. Head(s) \in Serial /\ Tail(s) \in Seq(Serial) /\ Len(s) >= 1 /\ Len(Tail(s)) = Len(s) - 1
  OBVIOUS
<1>2. \A i \in 1..Len(s) - 1 : Tail(s)[i] = s[i + 1]
  OBVIOUS
<1>3. DOMAIN s = 1..Len(s) /\ DOMAIN Tail(s) = 1..Len(s) - 1 /\ Head(s) = s[1] /\ Len(s) \in Nat
  BY <1>1
<1>4. ASSUME NEW i \in DOMAIN s PROVE s[i] \in {Head(s)} \cup Elements(Tail(s))
  <2>1. CASE i = 1
    BY <1>3, <2>1
  <2>2. CASE i # 1
    <3>1. i - 1 \in 1..Len(s) - 1
      BY <1>3, <2>2
    <3>2. Tail(s)[i - 1] = s[i]
      BY <1>2, <1>3, <3>1
    <3> QED
      BY <1>3, <3>1, <3>2 DEF Elements
  <2> QED
    BY <2>1, <2>2
<1>5. ASSUME NEW i \in DOMAIN Tail(s) PROVE Tail(s)[i] \in Elements(s)
  <2>1. i + 1 \in DOMAIN s /\ Tail(s)[i] = s[i + 1]
    BY <1>2, <1>3
  <2> QED
    BY <2>1 DEF Elements
<1>6. Head(s) \in Elements(s)
  BY <1>1, <1>3 DEF Elements
<1> QED
  BY <1>1, <1>4, <1>5, <1>6 DEF Elements

LEMMA NothingInEmpty == Elements(<<>>) = {}
BY DEF Elements

LEMMA NoCallIsSound == IsCall(NoCall) /\ Sound(NoCall) /\ NoCall.created = {} /\ ~ Holds(NoCall)
BY DEF IsCall, Sound, NoCall, InTx, Holds

LEMMA NotesAreFinite ==
    ASSUME NEW month
    PROVE  IsFiniteSet(NotesWith(month)) /\ Cardinality(NotesWith(month)) \in Nat
BY ReceivingAssumption, FS_Subset, FS_CardinalityType DEF NotesWith

LEMMA StartsRight == ReceivingInit => IInv
<1> SUFFICES ASSUME ReceivingInit PROVE IInv
  OBVIOUS
<1>1. \A h \in Handler : receiving[h] = NoCall
  BY DEF ReceivingInit
<1>2. \A g \in Grn : note[g] = NoNote
  BY DEF ReceivingInit
<1>3. Tables
  BY <1>1, NoCallIsSound DEF ReceivingInit, Tables
<1>4. \A h \in Handler : Sound(receiving[h])
  BY <1>1, NoCallIsSound
<1>5. Exclusive
  BY <1>1, NoCallIsSound DEF Exclusive, Apart
<1>6. NumbersInSequence
  <2>1. \A m \in Month : NotesOf(m) = {}
    BY <1>2 DEF NotesOf, NoNote
  <2>2. Cardinality({}) = 0 /\ 1..0 = {}
    BY FS_EmptySet
  <2> QED
    BY <2>1, <2>2 DEF NumbersInSequence
<1>7. CreatedOnce
  <2>1. stock = {}
    BY DEF ReceivingInit
  <2>2. \A g \in Grn : note[g].created = {} /\ note[g].devices = <<>>
    BY <1>2 DEF NoNote
  <2> QED
    BY <2>1, <2>2 DEF CreatedOnce
<1> QED
  BY <1>3, <1>4, <1>5, <1>6, <1>7 DEF IInv

\* Fields of a call written anew.
Counted(r, n) == [r EXCEPT !.op = "receive.counted", !.number = n]

LEMMA CallCounted ==
    ASSUME NEW r, IsCall(r), NEW n, NEW c, c = Counted(r, n)
    PROVE  /\ IsCall(c) /\ c.op = "receive.counted" /\ c.rest = r.rest
              /\ c.created = r.created /\ c.month = r.month /\ c.devices = r.devices
              /\ c.override = r.override /\ c.number = n
              /\ c.on = r.on /\ c.expected = r.expected /\ c.received = r.received
<1>1. c = [op |-> "receive.counted", on |-> r.on, month |-> r.month, expected |-> r.expected,
           received |-> r.received, override |-> r.override, devices |-> r.devices,
           rest |-> r.rest, created |-> r.created, number |-> n]
  BY DEF IsCall, Counted
<1> QED
  BY ONLY <1>1 DEF IsCall

Inserted(r, S, t) == [r EXCEPT !.op = "receive", !.created = S, !.rest = t]

LEMMA CallInserted ==
    ASSUME NEW r, IsCall(r), NEW S, NEW t, NEW c, c = Inserted(r, S, t)
    PROVE  /\ IsCall(c) /\ c.op = "receive" /\ c.rest = t /\ c.created = S
           /\ c.month = r.month /\ c.devices = r.devices /\ c.override = r.override
           /\ c.on = r.on /\ c.expected = r.expected /\ c.received = r.received
           /\ c.number = r.number
<1>1. c = [op |-> "receive", on |-> r.on, month |-> r.month, expected |-> r.expected,
           received |-> r.received, override |-> r.override, devices |-> r.devices,
           rest |-> t, created |-> S, number |-> r.number]
  BY DEF IsCall, Inserted
<1> QED
  BY ONLY <1>1 DEF IsCall

Begun(r, d, M, e, x, o, b) ==
    [r EXCEPT !.op = "receive", !.on = {d}, !.month = M, !.expected = e, !.received = x,
              !.override = o, !.devices = b, !.rest = b]

LEMMA CallBegun ==
    ASSUME NEW d, NEW M, NEW e, NEW x, NEW o, NEW b, NEW c, NEW r, r = NoCall,
           c = Begun(r, d, M, e, x, o, b)
    PROVE  /\ IsCall(c) /\ c.op = "receive" /\ c.month = M /\ c.devices = b
           /\ c.rest = b /\ c.created = {}
           /\ c.on = {d} /\ c.expected = e /\ c.received = x /\ c.override = o /\ c.number = 0
<1>0. IsCall(r) /\ r.created = {} /\ r.number = 0
  BY DEF IsCall, NoCall
<1>1. c = [op |-> "receive", on |-> {d}, month |-> M, expected |-> e, received |-> x,
           override |-> o, devices |-> b, rest |-> b, created |-> {}, number |-> 0]
  BY <1>0 DEF IsCall, Begun
<1> QED
  BY ONLY <1>1 DEF IsCall

Edited(r, d, e, x) == [r EXCEPT !.op = "edit", !.on = {d}, !.expected = e, !.received = x]

LEMMA EditBegun ==
    ASSUME NEW d, NEW e, NEW x, NEW c, NEW r, r = NoCall, c = Edited(r, d, e, x)
    PROVE  IsCall(c) /\ c.op = "edit" /\ c.created = {}
<1>0. IsCall(r) /\ r.created = {}
  BY DEF IsCall, NoCall
<1>1. c = [op |-> "edit", on |-> {d}, month |-> r.month, expected |-> e, received |-> x,
           override |-> r.override, devices |-> r.devices, rest |-> r.rest, created |-> r.created, number |-> r.number]
  BY <1>0 DEF IsCall, Edited
<1> QED
  BY ONLY <1>0, <1>1 DEF IsCall

LEMMA NotesStay ==
    ASSUME UNCHANGED note
    PROVE  /\ \A month : NotesWith(month)' = NotesWith(month)
           /\ \A m : NotesOf(m)' = NotesOf(m)
BY DEF NotesWith, NotesOf

\* Tables that no step writes keep what is said of them.
LEMMA TablesStay ==
    ASSUME UNCHANGED <<note, stock>>
    PROVE  /\ NumbersInSequence => NumbersInSequence'
           /\ CreatedOnce => CreatedOnce'
<1>1. NumbersInSequence => NumbersInSequence'
  <2> SUFFICES ASSUME NumbersInSequence, NEW m \in Month
               PROVE  /\ {note'[g].number : g \in NotesOf(m)'} = 1..Cardinality(NotesOf(m)')
                      /\ \A g, k \in NotesOf(m)' : note'[g].number = note'[k].number => g = k
    BY DEF NumbersInSequence
  <2>1. note' = note /\ NotesOf(m)' = NotesOf(m)
    BY NotesStay
  <2>2. /\ {note[g].number : g \in NotesOf(m)} = 1..Cardinality(NotesOf(m))
        /\ \A g, k \in NotesOf(m) : note[g].number = note[k].number => g = k
    BY DEF NumbersInSequence
  <2> HIDE DEF NotesOf
  <2> QED
    BY ONLY <2>1, <2>2
<1>2. CreatedOnce => CreatedOnce'
  BY DEF CreatedOnce
<1> QED
  BY <1>1, <1>2

\* A step of one call that writes no table.
LEMMA CallGoesOn ==
    ASSUME IInv, UNCHANGED <<note, stock>>, NEW h \in Handler, NEW c,
           receiving' = [receiving EXCEPT ![h] = c],
           IsCall(c), Sound(c), Apart(c, stock),
           \A g \in Handler : g # h => Apart(c, receiving[g].created),
           Holds(c) => \A g \in Handler : g # h /\ Holds(receiving[g]) =>
                                            receiving[g].month # c.month
    PROVE  IInv'
<1>1. receiving'[h] = c /\ \A g \in Handler : g # h => receiving'[g] = receiving[g]
  BY DEF IInv, Tables
<1>2. Tables'
  BY <1>1 DEF IInv, Tables
<1>3. ASSUME NEW g \in Handler PROVE Sound(receiving[g])'
  <2>1. Sound(receiving'[g])
    BY <1>1 DEF IInv
  <2>2. \A month : NotesWith(month)' = NotesWith(month)
    BY NotesStay
  <2> QED
    BY <2>1, <2>2 DEF Sound
<1>4. Exclusive'
  BY <1>1 DEF IInv, Exclusive, Apart
<1>5. NumbersInSequence' /\ CreatedOnce'
  BY TablesStay DEF IInv
<1> QED
  BY <1>2, <1>3, <1>4, <1>5 DEF IInv

LEMMA CallEnds ==
    ASSUME IInv, UNCHANGED <<note, stock>>, NEW h \in Handler, Done(h)
    PROVE  IInv'
<1>1. Apart(NoCall, stock) /\ \A g \in Handler : Apart(NoCall, receiving[g].created)
  BY NoCallIsSound DEF Apart
<1> QED
  BY <1>1, NoCallIsSound, CallGoesOn DEF Done

------------------------------------------------------------------------------
LEMMA LookUpStep == ASSUME IInv, NEW h \in Handler, ReceiveLookUp(h) PROVE IInv'
<1> DEFINE r == receiving[h]
           s == Head(r.rest)
           known == s \in stock \cup r.created
<1>1. /\ UNCHANGED <<note, stock>>
      /\ r.op = "receive" /\ r.rest # <<>>
  BY DEF ReceiveLookUp
<1>2. /\ IsCall(r) /\ Sound(r) /\ Apart(r, stock)
      /\ \A g \in Handler : g # h => Apart(r, receiving[g].created)
  BY DEF IInv, Tables, Exclusive
<1>3. r.rest \in Seq(Serial)
  BY <1>1, <1>2 DEF Sound, InTx
<1>4. CASE ~ known
  <2> DEFINE c == [r EXCEPT !.op = "receive.insert"]
  <2>1. receiving' = [receiving EXCEPT ![h] = c]
    BY <1>4 DEF ReceiveLookUp
  <2>2. /\ IsCall(c) /\ c.op = "receive.insert" /\ c.rest = r.rest /\ c.created = r.created
        /\ c.month = r.month /\ c.devices = r.devices /\ c.override = r.override
    BY <1>2 DEF IsCall
  <2>3. Sound(c) /\ ~ Holds(c)
    BY <1>1, <1>2, <2>2 DEF Sound, InTx, Holds
  <2>4. Apart(c, stock) /\ \A g \in Handler : g # h => Apart(c, receiving[g].created)
    BY <1>2, <2>2 DEF Apart
  <2> HIDE DEF c
  <2> QED
    BY <1>1, <2>1, <2>2, <2>3, <2>4, CallGoesOn
<1>5. CASE known /\ r.override
  <2> DEFINE c == [r EXCEPT !.rest = Tail(r.rest)]
  <2>1. receiving' = [receiving EXCEPT ![h] = c]
    BY <1>5 DEF ReceiveLookUp
  <2>2. /\ IsCall(c) /\ c.op = "receive" /\ c.rest = Tail(r.rest) /\ c.created = r.created
        /\ c.month = r.month /\ c.devices = r.devices /\ c.override = r.override
    BY <1>1, <1>2 DEF IsCall
  <2>3. Tail(r.rest) \in Seq(Serial)
    BY <1>1, <1>3, HeadAndTail
  <2>4. Sound(c) /\ ~ Holds(c)
    BY <1>1, <1>2, <1>5, <2>2, <2>3 DEF Sound, InTx, Holds
  <2>5. Apart(c, stock) /\ \A g \in Handler : g # h => Apart(c, receiving[g].created)
    BY <1>2, <2>2 DEF Apart
  <2> HIDE DEF c
  <2> QED
    BY <1>1, <2>1, <2>2, <2>4, <2>5, CallGoesOn
<1>6. CASE known /\ ~ r.override
  <2>1. Done(h)
    BY <1>6 DEF ReceiveLookUp
  <2> QED
    BY <1>1, <2>1, CallEnds
<1> QED
  BY <1>4, <1>5, <1>6

LEMMA InsertStep == ASSUME IInv, NEW h \in Handler, ReceiveInsert(h) PROVE IInv'
<1> DEFINE r == receiving[h]
           s == Head(r.rest)
<1>1. /\ UNCHANGED <<note, stock>>
      /\ r.op = "receive.insert"
      /\ \A g \in Handler : ~ InsertWaits(h, g)
  BY DEF ReceiveInsert
<1>2. /\ IsCall(r) /\ Sound(r) /\ Apart(r, stock)
      /\ \A g \in Handler : g # h => Apart(r, receiving[g].created)
  BY DEF IInv, Tables, Exclusive
<1>3. r.rest \in Seq(Serial) /\ r.rest # <<>>
  BY <1>1, <1>2 DEF Sound, InTx
<1>4. CASE s \in stock
  <2>1. Done(h)
    BY <1>4 DEF ReceiveInsert
  <2> QED
    BY <1>1, <2>1, CallEnds
<1>5. CASE s \notin stock
  <2> DEFINE c == [r EXCEPT !.op = "receive", !.created = r.created \cup {s},
                            !.rest = Tail(r.rest)]
  <2>1. receiving' = [receiving EXCEPT ![h] = c]
    BY <1>5 DEF ReceiveInsert
  <2>0. c = Inserted(r, r.created \cup {s}, Tail(r.rest))
    BY DEF Inserted
  <2> HIDE DEF c
  <2>2. /\ IsCall(c) /\ c.op = "receive" /\ c.rest = Tail(r.rest)
        /\ c.created = r.created \cup {s}
        /\ c.month = r.month /\ c.devices = r.devices /\ c.override = r.override
    BY <2>0, <1>2, CallInserted
  <2>3. Tail(r.rest) \in Seq(Serial) /\ Elements(r.rest) = {s} \cup Elements(Tail(r.rest))
    BY <1>3, HeadAndTail
  <2>4. Sound(c) /\ ~ Holds(c)
    BY <1>1, <1>2, <2>2, <2>3 DEF Sound, InTx, Holds
  <2>5. \A g \in Handler : g # h => s \notin receiving[g].created
    BY <1>1 DEF InsertWaits
  <2>6. Apart(c, stock) /\ \A g \in Handler : g # h => Apart(c, receiving[g].created)
    BY <1>2, <1>5, <2>2, <2>5 DEF Apart
  <2> QED
    BY <1>1, <2>1, <2>2, <2>4, <2>6, CallGoesOn
<1> QED
  BY <1>4, <1>5

\* Taking the lock and counting: only the op, or the number too, is new.
LEMMA LockStep == ASSUME IInv, NEW h \in Handler, ReceiveLock(h) PROVE IInv'
<1> DEFINE r == receiving[h]
           c == [r EXCEPT !.op = "receive.locked"]
<1>1. /\ UNCHANGED <<note, stock>>
      /\ r.op = "receive" /\ r.rest = <<>>
      /\ receiving' = [receiving EXCEPT ![h] = c]
      /\ \A g \in Handler : Holds(receiving[g]) => receiving[g].month # r.month
  BY DEF ReceiveLock, HoldsMonth, Holds
<1>2. /\ IsCall(r) /\ Sound(r) /\ Apart(r, stock)
      /\ \A g \in Handler : g # h => Apart(r, receiving[g].created)
  BY DEF IInv, Tables, Exclusive
<1>3. /\ IsCall(c) /\ c.op = "receive.locked" /\ c.rest = r.rest /\ c.created = r.created
      /\ c.month = r.month /\ c.devices = r.devices /\ c.override = r.override
  BY <1>2 DEF IsCall
<1>4. Sound(c)
  BY <1>1, <1>2, <1>3 DEF Sound, InTx
<1>5. Apart(c, stock) /\ \A g \in Handler : g # h => Apart(c, receiving[g].created)
  BY <1>2, <1>3 DEF Apart
<1> HIDE DEF c
<1> QED
  BY <1>1, <1>3, <1>4, <1>5, CallGoesOn

LEMMA CountStep == ASSUME IInv, NEW h \in Handler, ReceiveCount(h) PROVE IInv'
<1> DEFINE r == receiving[h]
           n == Cardinality({g \in Grn : note[g].month = r.month}) + 1
           c == [r EXCEPT !.op = "receive.counted", !.number = n]
<1>1. /\ UNCHANGED <<note, stock>>
      /\ r.op = "receive.locked"
      /\ receiving' = [receiving EXCEPT ![h] = c]
  BY DEF ReceiveCount
<1>2. /\ IsCall(r) /\ Sound(r) /\ Apart(r, stock)
      /\ \A g \in Handler : g # h => Apart(r, receiving[g].created)
      /\ \A g \in Handler : g # h /\ Holds(receiving[g]) => receiving[g].month # r.month
  BY <1>1 DEF IInv, Tables, Exclusive, Holds
<1>0. c = Counted(r, n)
  BY DEF Counted
<1>4. n = Cardinality(NotesWith(r.month)) + 1
  BY DEF NotesWith
<1> HIDE DEF c, n
<1>3. /\ IsCall(c) /\ c.op = "receive.counted" /\ c.rest = r.rest /\ c.created = r.created
      /\ c.month = r.month /\ c.devices = r.devices /\ c.override = r.override
      /\ c.number = n
  BY <1>0, <1>2, CallCounted
<1>5. Sound(c)
  BY <1>1, <1>2, <1>3, <1>4 DEF Sound, InTx
<1>6. Apart(c, stock) /\ \A g \in Handler : g # h => Apart(c, receiving[g].created)
  BY <1>2, <1>3 DEF Apart
<1>7. Holds(c) => \A g \in Handler : g # h /\ Holds(receiving[g]) =>
                                         receiving[g].month # c.month
  BY <1>2, <1>3
<1> QED
  BY <1>1, <1>3, <1>5, <1>6, <1>7, CallGoesOn

\* The note that is stored takes the next number of its month and leaves the others alone.
LEMMA NumberTaken ==
    ASSUME NumbersInSequence, NEW h \in Handler, Sound(receiving[h]),
           receiving[h].op = "receive.counted",
           note = [g \in Grn |-> note[g]], NEW k \in Grn, note[k] = NoNote,
           note' = [note EXCEPT ![k] = NoteOf(h)]
    PROVE  /\ NumbersInSequence'
           /\ \A month : month # receiving[h].month /\ month # {} =>
                NotesWith(month)' = NotesWith(month)
<1>1. PICK m \in Month : receiving[h].month = {m}
  BY DEF Sound, InTx
<1>2. note'[k] = NoteOf(h) /\ \A g \in Grn : g # k => note'[g] = note[g]
  OBVIOUS
<1>3. note'[k].month = {m} /\ note'[k].number = Cardinality(NotesOf(m)) + 1
  BY <1>1, <1>2 DEF NoteOf, Sound, NotesWith, NotesOf
<1>4. note[k].month = {}
  BY DEF NoNote
<1>5. \A month : month # {m} /\ month # {} => NotesWith(month)' = NotesWith(month)
  BY <1>2, <1>3, <1>4 DEF NotesWith
<1>6. ASSUME NEW w \in Month, w # m
      PROVE  NotesOf(w)' = NotesOf(w) /\ \A g \in NotesOf(w) : note'[g].number = note[g].number
  BY <1>2, <1>3, <1>4, <1>6 DEF NotesOf
<1>7. NotesOf(m)' = NotesOf(m) \cup {k} /\ k \notin NotesOf(m)
  BY <1>2, <1>3, <1>4 DEF NotesOf
<1>8. \A g \in NotesOf(m) : note'[g].number = note[g].number
  BY <1>2, <1>7
<1> DEFINE n == Cardinality(NotesOf(m))
<1>9. n \in Nat /\ Cardinality(NotesOf(m)') = n + 1
  <2>1. IsFiniteSet(NotesOf(m)) /\ n \in Nat
    BY NotesAreFinite DEF NotesOf, NotesWith
  <2> QED
    BY <1>7, <2>1, FS_AddElement
<1>10. {note[g].number : g \in NotesOf(m)} = 1..n
  BY DEF NumbersInSequence
<1>11. {note'[g].number : g \in NotesOf(m)'} = 1..n + 1
  <2>1. {note'[g].number : g \in NotesOf(m)'} = {note[g].number : g \in NotesOf(m)} \cup {n + 1}
    <3>1. \A g \in NotesOf(m) : note'[g].number = note[g].number
      BY <1>8
    <3>2. note'[k].number = n + 1 /\ NotesOf(m)' = NotesOf(m) \cup {k}
      BY <1>3, <1>7
    <3> HIDE DEF n
    <3>3. \A g \in NotesOf(m)' : note'[g].number \in {note[j].number : j \in NotesOf(m)} \cup {n + 1}
      BY <3>1, <3>2
    <3>4. \A x \in {note[j].number : j \in NotesOf(m)} : \E g \in NotesOf(m)' : note'[g].number = x
      BY <3>1, <3>2
    <3>5. \E g \in NotesOf(m)' : note'[g].number = n + 1
      BY <3>2
    <3> QED
      BY <3>3, <3>4, <3>5
  <2>2. 1..n + 1 = (1..n) \cup {n + 1}
    BY <1>9
  <2> QED
    BY <1>10, <2>1, <2>2
<1>12. ASSUME NEW g \in NotesOf(m)', NEW j \in NotesOf(m)', note'[g].number = note'[j].number
       PROVE  g = j
  <2>1. \A i \in NotesOf(m) : note'[i].number \in 1..n
    BY <1>8, <1>10
  <2>2. \A i \in NotesOf(m) : note'[i].number # n + 1
    BY <1>9, <2>1
  <2>3. CASE g \in NotesOf(m) /\ j \in NotesOf(m)
    BY <1>8, <1>12, <2>3 DEF NumbersInSequence
  <2> QED
    BY <1>3, <1>7, <1>12, <2>2, <2>3
<1>13. ASSUME NEW w \in Month
       PROVE  /\ {note'[g].number : g \in NotesOf(w)'} = 1..Cardinality(NotesOf(w)')
              /\ \A g, j \in NotesOf(w)' : note'[g].number = note'[j].number => g = j
  <2>1. CASE w = m
    BY <1>9, <1>11, <1>12, <2>1
  <2>2. CASE w # m
    <3>1. NotesOf(w)' = NotesOf(w) /\ \A g \in NotesOf(w) : note'[g].number = note[g].number
      BY <1>6, <2>2
    <3>2. /\ {note[g].number : g \in NotesOf(w)} = 1..Cardinality(NotesOf(w))
          /\ \A g, j \in NotesOf(w) : note[g].number = note[j].number => g = j
      BY DEF NumbersInSequence
    <3>3. {note'[g].number : g \in NotesOf(w)'} = {note[g].number : g \in NotesOf(w)}
      BY <3>1
    <3> QED
      BY <3>1, <3>2, <3>3
  <2> QED
    BY <2>1, <2>2
<1> QED
  BY <1>1, <1>5, <1>13 DEF NumbersInSequence

LEMMA CommitStep == ASSUME IInv, NEW h \in Handler, ReceiveCommit(h) PROVE IInv'
<1> DEFINE r == receiving[h]
<1>1. r.op = "receive.counted" /\ Done(h)
  BY DEF ReceiveCommit
<1>2. CASE Repeats(r.devices)
  BY <1>1, <1>2, CallEnds DEF ReceiveCommit
<1>3. CASE ~ Repeats(r.devices)
  <2>1. PICK k \in Grn : ~ Stored(k) /\ note' = [note EXCEPT ![k] = NoteOf(h)]
    BY <1>3 DEF ReceiveCommit
  <2>2. stock' = stock \cup r.created
    BY <1>3 DEF ReceiveCommit
  <2>3. /\ IsCall(r) /\ Sound(r) /\ Apart(r, stock) /\ note[k] = NoNote
        /\ note = [g \in Grn |-> note[g]]
    BY <2>1 DEF IInv, Tables, Exclusive, Stored
  <2>4. note'[k] = NoteOf(h) /\ \A g \in Grn : g # k => note'[g] = note[g]
    BY <2>1, <2>3
  <2>5. receiving'[h] = NoCall /\ \A g \in Handler : g # h => receiving'[g] = receiving[g]
    BY <1>1 DEF Done, IInv, Tables
  <2>6. Tables'
    BY <1>1, <2>1, <2>3, <2>5, NoCallIsSound DEF Done, IInv, Tables
  <2>7. /\ NumbersInSequence'
        /\ \A month : month # r.month /\ month # {} => NotesWith(month)' = NotesWith(month)
    BY <1>1, <2>1, <2>3, NumberTaken DEF IInv
  <2>8. ASSUME NEW g \in Handler PROVE Sound(receiving[g])'
    <3>1. CASE g = h
      BY <2>5, <3>1, NoCallIsSound DEF Sound, NoCall, InTx
    <3>2. CASE g # h
      <4>1. Sound(receiving[g]) /\ receiving'[g] = receiving[g]
        BY <2>5, <3>2 DEF IInv
      <4>2. receiving[g].op = "receive.counted" =>
              NotesWith(receiving[g].month)' = NotesWith(receiving[g].month)
        <5> SUFFICES ASSUME receiving[g].op = "receive.counted"
                     PROVE  NotesWith(receiving[g].month)' = NotesWith(receiving[g].month)
          OBVIOUS
        <5>1. receiving[g].month # r.month
          BY <1>1, <3>2 DEF IInv, Exclusive, Holds
        <5>2. receiving[g].month # {}
          BY <4>1 DEF Sound, InTx
        <5> QED
          BY <2>5, <2>7, <3>2, <5>1, <5>2
      <4> QED
        BY <4>1, <4>2 DEF Sound
    <3> QED
      BY <3>1, <3>2
  <2>9. Exclusive'
    BY <2>2, <2>5, NoCallIsSound DEF IInv, Exclusive, Apart
  <2>10. CreatedOnce'
    <3>1. /\ note'[k].created = r.created /\ note'[k].devices = r.devices
          /\ note'[k].override = r.override /\ note[k].created = {}
      BY <2>3, <2>4 DEF NoteOf, NoNote
    <3>2. \A g \in Grn : note[g].created \subseteq stock
      BY DEF IInv, CreatedOnce
    <3>3. stock' = UNION {note'[g].created : g \in Grn}
      BY <2>2, <2>4, <3>1 DEF IInv, CreatedOnce
    <3>4. \A g, j \in Grn : g # j => note'[g].created \cap note'[j].created = {}
      BY <2>3, <2>4, <3>1, <3>2 DEF IInv, CreatedOnce, Apart
    <3>5. ~ r.override => r.created = Elements(r.devices)
      BY <1>1, <2>3, NothingInEmpty DEF Sound, InTx
    <3>6. ASSUME NEW g \in Grn, ~ note'[g].override
          PROVE  note'[g].created = {note'[g].devices[i] : i \in DOMAIN note'[g].devices}
      <4>1. CASE g = k
        BY <3>1, <3>5, <3>6, <4>1 DEF Elements
      <4>2. CASE g # k
        BY <2>4, <3>6, <4>2 DEF IInv, CreatedOnce
      <4> QED
        BY <4>1, <4>2
    <3> QED
      BY <3>3, <3>4, <3>6 DEF CreatedOnce
  <2> QED
    BY <2>6, <2>7, <2>8, <2>9, <2>10 DEF IInv
<1> QED
  BY <1>2, <1>3

\* A call that begins has created nothing yet.
LEMMA CallBegins ==
    ASSUME IInv, UNCHANGED <<note, stock>>, NEW h \in Handler, NEW d, NEW c,
           Starts(h, d, c), IsCall(c), Sound(c), c.created = {}, ~ Holds(c)
    PROVE  IInv'
<1>1. Apart(c, stock) /\ \A g \in Handler : Apart(c, receiving[g].created)
  BY DEF Apart
<1> QED
  BY <1>1, CallGoesOn DEF Starts

LEMMA InvPreserved == ASSUME IInv, [ReceivingNext]_receivingVars PROVE IInv'
<1>0. ASSUME UNCHANGED <<note, stock, receiving>> PROVE IInv'
  <2>1. Tables' /\ Exclusive'
    BY <1>0 DEF IInv, Tables, Exclusive
  <2>2. \A h \in Handler : Sound(receiving[h])'
    <3>1. \A month : NotesWith(month)' = NotesWith(month)
      BY <1>0, NotesStay
    <3> QED
      BY <1>0, <3>1 DEF IInv, Sound
  <2> QED
    BY <1>0, <2>1, <2>2, TablesStay DEF IInv
<1>1. CASE UNCHANGED receivingVars
  BY <1>0, <1>1 DEF receivingVars
<1>2. ASSUME NEW d \in Delivery, NEW q \in Quantity, CreateExpectedDelivery(d, q) PROVE IInv'
  BY <1>0, <1>2 DEF CreateExpectedDelivery
<1>3. ASSUME NEW d \in Delivery, NEW s \in DeliveryStatus, UpdateDeliveryStatus(d, s) PROVE IInv'
  BY <1>0, <1>3 DEF UpdateDeliveryStatus
<1>4. ASSUME NEW h \in Handler, NEW d \in Delivery, NEW b \in Batch, NEW o \in BOOLEAN,
             NEW m \in Month, ReceiveDevices(h, d, b, o, m)
      PROVE  IInv'
  <2> DEFINE c == [NoCall EXCEPT !.op = "receive", !.on = {d}, !.month = {m},
                                 !.expected = delivery[d].expected,
                                 !.received = ReceivedOf(d), !.override = o,
                                 !.devices = b, !.rest = b]
           was == ReceivedOf(d)
  <2>0. c = Begun(NoCall, d, {m}, delivery[d].expected, was, o, b)
    BY DEF Begun
  <2>3. UNCHANGED <<note, stock>> /\ Starts(h, d, c)
    BY <1>4 DEF ReceiveDevices
  <2> HIDE DEF c, was
  <2>1. /\ IsCall(c) /\ c.op = "receive" /\ c.month = {m} /\ c.devices = b /\ c.rest = b
        /\ c.created = {}
    BY <2>0, CallBegun
  <2>2. Sound(c) /\ ~ Holds(c)
    BY <2>1, ReceivingAssumption DEF Sound, InTx, Holds
  <2> QED
    BY <2>1, <2>2, <2>3, CallBegins
<1>5. ASSUME NEW h \in Handler, NEW d \in Delivery, NEW q \in Quantity, UpdateDelivery(h, d, q)
      PROVE  IInv'
  <2> DEFINE c == [NoCall EXCEPT !.op = "edit", !.on = {d}, !.expected = q,
                                 !.received = ReceivedOf(d)]
           was == ReceivedOf(d)
  <2>0. c = Edited(NoCall, d, q, was)
    BY DEF Edited
  <2>3. UNCHANGED <<note, stock>> /\ Starts(h, d, c)
    BY <1>5 DEF UpdateDelivery
  <2> HIDE DEF c, was
  <2>1. IsCall(c) /\ c.op = "edit" /\ c.created = {}
    BY <2>0, EditBegun
  <2>2. Sound(c) /\ ~ Holds(c)
    BY <2>1 DEF Sound, InTx, Holds
  <2> QED
    BY <2>1, <2>2, <2>3, CallBegins
<1>6. ASSUME NEW h \in Handler,
             UpdateDeliveryCommit(h) \/ ReceiveDeadlock(h) \/ ReceivingFail(h)
      PROVE  IInv'
  BY <1>6, CallEnds DEF UpdateDeliveryCommit, ReceiveDeadlock, ReceivingFail
<1> QED
  BY <1>1, <1>2, <1>3, <1>4, <1>5, <1>6, LookUpStep, InsertStep, LockStep, CountStep, CommitStep
  DEF ReceivingNext

------------------------------------------------------------------------------
\* The invariant of the numbers and the assets.
THEOREM ReceivingInvariant == ReceivingSpec => []IInv
<1>1. IInv /\ [ReceivingNext]_receivingVars => IInv'
  BY InvPreserved
<1> QED
  BY StartsRight, <1>1, PTL DEF ReceivingSpec

\* Receipts that run at once or fail leave neither a gap nor a double in the numbers of a month.
THEOREM NotesNumbered == ReceivingSpec => []NumbersInSequence
<1>1. IInv => NumbersInSequence
  BY DEF IInv
<1> QED
  BY ReceivingInvariant, <1>1, PTL

\* Two receipts never create one asset, and a receipt without the override creates all it lists.
THEOREM AssetsCreatedOnce == ReceivingSpec => []CreatedOnce
<1>1. IInv => CreatedOnce
  BY DEF IInv
<1> QED
  BY ReceivingInvariant, <1>1, PTL

(***************************************************************************)
(* The types                                                               *)
(***************************************************************************)
DevicesOf(g) == {g} \X DOMAIN note[g].devices

Listed(d) == UNION {DevicesOf(g) : g \in NotesOn(d)}

LEMMA PairsCounted ==
    ASSUME NEW g, NEW s \in Seq(Serial)
    PROVE  /\ IsFiniteSet({g} \X DOMAIN s) /\ Cardinality({g} \X DOMAIN s) = Len(s)
           /\ Len(s) \in Nat
<1>1. DOMAIN s = 1..Len(s) /\ Len(s) \in Nat
  OBVIOUS
<1>2. IsFiniteSet(DOMAIN s) /\ Cardinality(DOMAIN s) = Len(s)
  BY <1>1, FS_Interval
<1>3. IsFiniteSet({g}) /\ Cardinality({g}) = 1
  BY FS_Singleton
<1>4. IsFiniteSet({g} \X DOMAIN s) /\ Cardinality({g} \X DOMAIN s) = 1 * Len(s)
  BY <1>2, <1>3, FS_Product
<1>5. \A n \in Nat : 1 * n = n
  OBVIOUS
<1> QED
  BY <1>1, <1>4, <1>5, Zenon

LEMMA DevicesFinite ==
    ASSUME note \in [Grn -> NoteRow], NEW g \in Grn
    PROVE  /\ IsFiniteSet(DevicesOf(g))
           /\ Cardinality(DevicesOf(g)) = Len(note[g].devices)
           /\ Len(note[g].devices) \in Nat
<1>1. note[g].devices \in Seq(Serial)
  BY DEF NoteRow
<1> QED
  BY <1>1, PairsCounted DEF DevicesOf

LEMMA ListedFinite ==
    ASSUME note \in [Grn -> NoteRow], NEW d
    PROVE  IsFiniteSet(Listed(d)) /\ ReceivedOf(d) = Cardinality(Listed(d)) /\ ReceivedOf(d) \in Nat
<1> DEFINE parts == {DevicesOf(g) : g \in NotesOn(d)}
           part  == [g \in NotesOn(d) |-> DevicesOf(g)]
<1>1. IsFiniteSet(NotesOn(d)) /\ NotesOn(d) \subseteq Grn
  BY ReceivingAssumption, FS_Subset DEF NotesOn
<1>2. IsFiniteSet(parts)
  <2>1. part \in Surjection(NotesOn(d), parts)
    BY DEF Surjection
  <2> QED
    BY <1>1, <2>1, FS_Surjection
<1>3. \A p \in parts : IsFiniteSet(p)
  BY <1>1, DevicesFinite
<1>4. IsFiniteSet(UNION parts)
  BY <1>2, <1>3, FS_UNION
<1>5. ReceivedOf(d) = Cardinality(Listed(d))
  BY DEF ReceivedOf, Listed, DevicesOf
<1> QED
  BY <1>4, <1>5, FS_CardinalityType DEF Listed

LEMMA NoCallTyped == NoCall \in ReceivingCall /\ NoCall.op = "idle" /\ NoCall.on = {}
BY DEF NoCall, ReceivingCall

LEMMA CallsTyped ==
    ASSUME ReceivingTypeOK, NEW h \in Handler, NEW c \in ReceivingCall,
           receiving' = [receiving EXCEPT ![h] = c]
    PROVE  /\ receiving' \in [Handler -> ReceivingCall]
           /\ receiving'[h] = c /\ \A g \in Handler : g # h => receiving'[g] = receiving[g]
BY DEF ReceivingTypeOK

\* A call whose work goes on keeps what it read.
Continues(r, c) ==
    /\ c \in ReceivingCall
    /\ c.on = r.on /\ c.expected = r.expected /\ c.received = r.received
    /\ r.op \in InTx /\ c.op \in InTx

\* r with another op, insertions, rest and number.
GoneOn(r, o, c, t, n) ==
    [op |-> o, on |-> r.on, month |-> r.month, expected |-> r.expected, received |-> r.received,
     override |-> r.override, devices |-> r.devices, rest |-> t, created |-> c, number |-> n]

LEMMA FieldsWritten ==
    ASSUME NEW r, IsCall(r), NEW o, NEW c, NEW t, NEW n
    PROVE  /\ [r EXCEPT !.op = o] = GoneOn(r, o, r.created, r.rest, r.number)
           /\ [r EXCEPT !.rest = t] = GoneOn(r, r.op, r.created, t, r.number)
           /\ Counted(r, n) = GoneOn(r, "receive.counted", r.created, r.rest, n)
           /\ Inserted(r, c, t) = GoneOn(r, "receive", c, t, r.number)
<1>1. [r EXCEPT !.op = o] = GoneOn(r, o, r.created, r.rest, r.number)
  BY DEF IsCall, GoneOn
<1>2. [r EXCEPT !.rest = t] = GoneOn(r, r.op, r.created, t, r.number)
  BY DEF IsCall, GoneOn
<1>3. Counted(r, n) = GoneOn(r, "receive.counted", r.created, r.rest, n)
  BY CallCounted DEF IsCall, GoneOn
<1>4. Inserted(r, c, t) = GoneOn(r, "receive", c, t, r.number)
  BY CallInserted DEF IsCall, GoneOn
<1> QED
  BY <1>1, <1>2, <1>3, <1>4

LEMMA CallFields ==
    ASSUME NEW r \in ReceivingCall
    PROVE  /\ IsCall(r) /\ r.on \subseteq Delivery /\ r.month \subseteq Month /\ r.expected \in Nat
           /\ r.received \in Nat /\ r.override \in BOOLEAN /\ r.devices \in Seq(Serial)
           /\ r.rest \in Seq(Serial) /\ r.created \subseteq Serial /\ r.number \in Nat
BY DEF ReceivingCall, IsCall

LEMMA CallContinues ==
    ASSUME NEW r \in ReceivingCall, r.op \in InTx, NEW o \in InTx, NEW c, c \subseteq Serial,
           NEW t \in Seq(Serial), NEW n \in Nat
    PROVE  Continues(r, GoneOn(r, o, c, t, n))
<1>1. GoneOn(r, o, c, t, n) \in ReceivingCall
  BY CallFields DEF ReceivingCall, InTx, GoneOn
<1>2. /\ GoneOn(r, o, c, t, n).on = r.on /\ GoneOn(r, o, c, t, n).expected = r.expected
      /\ GoneOn(r, o, c, t, n).received = r.received /\ GoneOn(r, o, c, t, n).op = o
  BY DEF GoneOn
<1> QED
  BY <1>1, <1>2 DEF Continues

(***************************************************************************)
(* The status of a delivery                                                *)
(***************************************************************************)
\* A call on a delivery that no other has crossed is the only one, and what it
\* read is still so.
CallsFollow ==
    /\ \A h \in Handler : receiving[h].op \in InTx \cup {"edit"} =>
         \E d \in Delivery : receiving[h].on = {d}
    /\ \A h \in Handler : receiving[h].op = "edit" => receiving[h].expected > 0
    /\ \A d \in Delivery \ crossed : \A h \in Handler : receiving[h].on = {d} =>
         /\ \A g \in Handler : receiving[g].on = {d} => g = h
         /\ receiving[h].received = ReceivedOf(d)
         /\ receiving[h].op \in InTx => receiving[h].expected = delivery[d].expected

\* Nothing is received, or under way, on a delivery that is not there.
NothingBefore ==
    \A d \in Delivery : delivery[d].status = NoDelivery =>
      NotesOn(d) = {} /\ \A h \in Handler : receiving[h].on # {d}

Follows == CallsFollow /\ NothingBefore /\ StatusFollowsReceipts

StatusIInv == IInv /\ ReceivingTypeOK /\ Follows

LEMMA ReceiptsStay ==
    ASSUME UNCHANGED note
    PROVE  \A d : NotesOn(d)' = NotesOn(d) /\ ReceivedOf(d)' = ReceivedOf(d)
BY DEF NotesOn, ReceivedOf

LEMMA DerivedIsAStatus ==
    ASSUME NEW n, NEW q
    PROVE  /\ AfterReceipt(n, q) \in DeliveryStatus /\ AfterReceipt(n, q) # NoDelivery
           /\ Derived(n, q) \in DeliveryStatus /\ Derived(n, q) # NoDelivery
BY DEF Derived, AfterReceipt, DeliveryStatus, NoDelivery

\* The status tells the receipts when a delivery begins, after a receipt, and after
\* an edit of the items.
LEMMA NewTells == ASSUME NEW q PROVE Tells("pending", {}, 0, q)
BY DEF Tells

LEMMA ReceiptTells ==
    ASSUME NEW notes, notes # {}, NEW n \in Nat, NEW q \in Nat
    PROVE  Tells(AfterReceipt(n, q), notes, n, q)
BY DEF Tells, AfterReceipt

LEMMA EditTells ==
    ASSUME NEW notes, NEW n \in Nat, n > 0 => notes # {}, NEW q \in Nat, q > 0
    PROVE  Tells(Derived(n, q), notes, n, q)
BY DEF Tells, Derived, AfterReceipt

LEMMA NothingReceived == ASSUME NEW d, NotesOn(d) = {} PROVE ReceivedOf(d) = 0
<1>1. {{g} \X DOMAIN note[g].devices : g \in NotesOn(d)} = {}
  OBVIOUS
<1>2. UNION {} = {}
  OBVIOUS
<1> QED
  BY <1>1, <1>2, FS_EmptySet DEF ReceivedOf

LEMMA StatusStartsRight == ReceivingInit => StatusIInv
<1> SUFFICES ASSUME ReceivingInit PROVE StatusIInv
  OBVIOUS
<1>1. \A g \in Grn : note[g] = NoNote
  BY DEF ReceivingInit
<1>2. \A h \in Handler : receiving[h].op = "idle" /\ receiving[h].on = {}
  BY NoCallTyped DEF ReceivingInit
<1>3. \A d \in Delivery : delivery[d].status = NoDelivery
  BY DEF ReceivingInit
<1>4. NoNote \in NoteRow /\ NoNote.on = {}
  BY DEF NoNote, NoteRow
<1>5. ReceivingTypeOK
  <2>1. note \in [Grn -> NoteRow]
    BY <1>4 DEF ReceivingInit
  <2>2. receiving \in [Handler -> ReceivingCall]
    BY NoCallTyped DEF ReceivingInit
  <2>3. delivery \in [Delivery -> DeliveryRow]
    BY DEF ReceivingInit, DeliveryRow
  <2>4. broken \in 0..MaxFailures
    BY BackendAssumption DEF ReceivingInit
  <2> QED
    BY <2>1, <2>2, <2>3, <2>4 DEF ReceivingInit, ReceivingTypeOK
<1>6. CallsFollow
  BY <1>2 DEF CallsFollow, InTx
<1>7. NothingBefore
  BY <1>1, <1>2, <1>4 DEF NothingBefore, NotesOn
<1>8. StatusFollowsReceipts
  BY <1>3 DEF StatusFollowsReceipts
<1> QED
  BY <1>5, <1>6, <1>7, <1>8, StartsRight DEF StatusIInv, Follows

\* A call goes on with what it read.
LEMMA FollowsOn ==
    ASSUME StatusIInv, UNCHANGED <<delivery, note, byManager, crossed>>, NEW h \in Handler,
           NEW c, Continues(receiving[h], c), receiving' = [receiving EXCEPT ![h] = c]
    PROVE  receiving' \in [Handler -> ReceivingCall] /\ Follows'
<1> USE DEF StatusIInv, Follows
<1>1. /\ receiving' \in [Handler -> ReceivingCall]
      /\ receiving'[h] = c /\ \A g \in Handler : g # h => receiving'[g] = receiving[g]
  BY CallsTyped DEF Continues
<1>2. \A g \in Handler : /\ receiving'[g].on = receiving[g].on
                         /\ receiving'[g].received = receiving[g].received
                         /\ receiving'[g].expected = receiving[g].expected
                         /\ receiving'[g].op \in InTx <=> receiving[g].op \in InTx
                         /\ receiving'[g].op = "edit" => receiving[g].op = "edit"
  BY <1>1 DEF Continues, InTx
<1>3. CallsFollow'
  BY <1>2, ReceiptsStay DEF CallsFollow
<1>4. NothingBefore' /\ StatusFollowsReceipts'
  BY <1>2, ReceiptsStay DEF NothingBefore, StatusFollowsReceipts
<1> QED
  BY <1>1, <1>3, <1>4

LEMMA FollowsEnd ==
    ASSUME StatusIInv, UNCHANGED <<delivery, note, byManager, crossed>>, NEW h \in Handler, Done(h)
    PROVE  receiving' \in [Handler -> ReceivingCall] /\ Follows'
<1> USE DEF StatusIInv, Follows
<1>1. /\ receiving' \in [Handler -> ReceivingCall]
      /\ receiving'[h] = NoCall /\ \A g \in Handler : g # h => receiving'[g] = receiving[g]
  BY CallsTyped, NoCallTyped DEF Done
<1>2. \A g \in Handler : receiving'[g] = receiving[g] \/
                         (receiving'[g].on = {} /\ receiving'[g].op = "idle")
  BY <1>1, NoCallTyped
<1>3. CallsFollow'
  BY <1>2, ReceiptsStay DEF CallsFollow, InTx
<1>4. NothingBefore' /\ StatusFollowsReceipts'
  BY <1>2, ReceiptsStay DEF NothingBefore, StatusFollowsReceipts
<1> QED
  BY <1>1, <1>3, <1>4

LEMMA FollowsStart ==
    ASSUME StatusIInv, UNCHANGED <<delivery, note, byManager>>, NEW h \in Handler,
           NEW d \in Delivery, delivery[d].status # NoDelivery,
           NEW c \in ReceivingCall, Starts(h, d, c), c.on = {d}, c.received = ReceivedOf(d),
           c.op \in InTx => c.expected = delivery[d].expected, c.op = "edit" => c.expected > 0
    PROVE  /\ receiving' \in [Handler -> ReceivingCall] /\ crossed' \subseteq Delivery
           /\ Follows'
<1> USE DEF StatusIInv, Follows
<1>1. /\ receiving' \in [Handler -> ReceivingCall]
      /\ receiving'[h] = c /\ \A g \in Handler : g # h => receiving'[g] = receiving[g]
  BY CallsTyped DEF Starts
<1>2. /\ crossed \subseteq crossed' /\ crossed' \subseteq Delivery
      /\ d \notin crossed' => \A g \in Handler : receiving[g].on # {d}
  BY DEF Starts, ReceivingTypeOK
<1>3. CallsFollow'
  <2>1. ASSUME NEW g \in Handler, receiving'[g].op \in InTx \cup {"edit"}
        PROVE  \E e \in Delivery : receiving'[g].on = {e}
    BY <1>1, <2>1 DEF CallsFollow
  <2>3. \A g \in Handler : receiving'[g].op = "edit" => receiving'[g].expected > 0
    BY <1>1 DEF CallsFollow
  <2>2. ASSUME NEW e \in Delivery \ crossed', NEW g \in Handler, receiving'[g].on = {e}
        PROVE  /\ \A f \in Handler : receiving'[f].on = {e} => f = g
               /\ receiving'[g].received = ReceivedOf(e)'
               /\ receiving'[g].op \in InTx => receiving'[g].expected = delivery'[e].expected
    <3>1. ReceivedOf(e)' = ReceivedOf(e) /\ delivery' = delivery
      BY ReceiptsStay
    <3>2. CASE e = d
      <4>1. \A f \in Handler : f # h => receiving'[f].on # {d}
        BY <1>1, <1>2, <2>2, <3>2
      <4>2. g = h
        BY <4>1, <2>2, <3>2
      <4> QED
        BY <1>1, <3>1, <3>2, <4>1, <4>2
    <3>3. CASE e # d
      <4>1. \A f \in Handler : receiving'[f].on = {e} => f # h /\ receiving[f].on = {e}
        BY <1>1, <3>3
      <4>2. g # h /\ receiving'[g] = receiving[g] /\ receiving[g].on = {e}
        BY <1>1, <2>2, <4>1
      <4>3. e \in Delivery \ crossed
        BY <1>2, <2>2
      <4> QED
        BY <3>1, <4>1, <4>2, <4>3 DEF CallsFollow
    <3> QED
      BY <3>2, <3>3
  <2> QED
    BY <2>1, <2>2, <2>3 DEF CallsFollow
<1>4. NothingBefore' /\ StatusFollowsReceipts'
  BY <1>1, <1>2, ReceiptsStay DEF NothingBefore, StatusFollowsReceipts
<1> QED
  BY <1>1, <1>2, <1>3, <1>4

\* The devices of a note that is stored come on top of those of the notes before.
LEMMA ReceivedGrows ==
    ASSUME note \in [Grn -> NoteRow], note' \in [Grn -> NoteRow], NEW k \in Grn, note[k] = NoNote,
           \A g \in Grn : g # k => note'[g] = note[g], NEW d, note'[k].on = {d}
    PROVE  /\ ReceivedOf(d)' = ReceivedOf(d) + Len(note'[k].devices) /\ NotesOn(d)' # {}
           /\ \A e : e # d => NotesOn(e)' = NotesOn(e) /\ ReceivedOf(e)' = ReceivedOf(e)
<1>1. note[k].on = {}
  BY DEF NoNote
<1>2. NotesOn(d)' = NotesOn(d) \cup {k} /\ k \notin NotesOn(d)
  BY <1>1 DEF NotesOn
<1>3. \A g \in NotesOn(d) : DevicesOf(g)' = DevicesOf(g)
  BY <1>2 DEF DevicesOf, NotesOn
<1>4. Listed(d)' = Listed(d) \cup DevicesOf(k)'
  <2>1. Listed(d)' = UNION {DevicesOf(g)' : g \in NotesOn(d)'}
    BY DEF Listed
  <2> QED
    BY <1>2, <1>3, <2>1 DEF Listed
<1>5. Listed(d) \cap DevicesOf(k)' = {}
  BY <1>2 DEF Listed, DevicesOf
<1>6. /\ IsFiniteSet(Listed(d)) /\ ReceivedOf(d) = Cardinality(Listed(d)) /\ ReceivedOf(d) \in Nat
  BY ListedFinite
<1>7. /\ IsFiniteSet(DevicesOf(k)') /\ Cardinality(DevicesOf(k)') = Len(note'[k].devices)
      /\ Len(note'[k].devices) \in Nat
  <2>1. note'[k].devices \in Seq(Serial)
    BY DEF NoteRow
  <2> QED
    BY <2>1, PairsCounted DEF DevicesOf
<1>8. Cardinality(Listed(d) \cup DevicesOf(k)') =
        Cardinality(Listed(d)) + Cardinality(DevicesOf(k)') - Cardinality({})
  BY <1>5, <1>6, <1>7, FS_Union
<1>9. ReceivedOf(d)' = Cardinality(Listed(d)')
  BY DEF ReceivedOf, Listed, DevicesOf
<1>10. ASSUME NEW e, e # d PROVE NotesOn(e)' = NotesOn(e) /\ ReceivedOf(e)' = ReceivedOf(e)
  <2>1. NotesOn(e)' = NotesOn(e) /\ k \notin NotesOn(e)
    BY <1>1, <1>10 DEF NotesOn
  <2>2. \A g \in NotesOn(e) : note'[g] = note[g]
    BY <2>1 DEF NotesOn
  <2>3. {{g} \X DOMAIN note'[g].devices : g \in NotesOn(e)'} =
          {{g} \X DOMAIN note[g].devices : g \in NotesOn(e)}
    BY <2>1, <2>2
  <2> QED
    BY <2>1, <2>3 DEF ReceivedOf
<1> QED
  BY <1>2, <1>4, <1>6, <1>7, <1>8, <1>9, <1>10, FS_EmptySet

LEMMA NoteTyped ==
    ASSUME ReceivingTypeOK, NEW h \in Handler
    PROVE  NoteOf(h) \in NoteRow /\ NoteOf(h).on = receiving[h].on
                                 /\ NoteOf(h).devices = receiving[h].devices
<1>1. receiving[h] \in ReceivingCall
  BY DEF ReceivingTypeOK
<1> QED
  BY <1>1, CallFields DEF NoteOf, NoteRow

\* A receipt commits its note, and what it has read and received makes the status.
LEMMA ReceiptFollows ==
    ASSUME StatusIInv, NEW h \in Handler, ReceiveCommit(h)
    PROVE  ReceivingTypeOK' /\ Follows'
<1> USE DEF StatusIInv, Follows
<1> DEFINE r == receiving[h]
<1>1. r.op = "receive.counted" /\ Done(h) /\ UNCHANGED <<broken, crossed>>
  BY DEF ReceiveCommit
<1>2. CASE Repeats(r.devices)
  <2>1. UNCHANGED <<delivery, note, stock, byManager>>
    BY <1>2 DEF ReceiveCommit
  <2> QED
    BY <1>1, <2>1, FollowsEnd DEF ReceivingTypeOK
<1>3. CASE ~ Repeats(r.devices)
  <2> DEFINE made == AfterReceipt(r.received + Len(r.devices), r.expected)
  <2>1. PICK k \in Grn : ~ Stored(k) /\ note' = [note EXCEPT ![k] = NoteOf(h)]
    BY <1>3 DEF ReceiveCommit
  <2>2. /\ stock' = stock \cup r.created
        /\ delivery' = [d \in Delivery |->
              IF d \in r.on THEN [delivery[d] EXCEPT !.status = made] ELSE delivery[d]]
        /\ byManager' = byManager \ r.on
    BY <1>3 DEF ReceiveCommit
  <2>3. PICK d \in Delivery : r.on = {d}
    BY <1>1 DEF CallsFollow, InTx
  <2>4. /\ note \in [Grn -> NoteRow] /\ note' \in [Grn -> NoteRow]
        /\ note[k] = NoNote /\ note'[k] = NoteOf(h) /\ \A g \in Grn : g # k => note'[g] = note[g]
    BY <2>1, NoteTyped DEF ReceivingTypeOK, Stored
  <2>5. made \in DeliveryStatus /\ made # NoDelivery
    BY DerivedIsAStatus
  <2>6. delivery \in [Delivery -> DeliveryRow] /\ r \in ReceivingCall
    BY DEF ReceivingTypeOK
  <2> HIDE DEF made
  <2>7. /\ delivery' \in [Delivery -> DeliveryRow]
        /\ \A e \in Delivery : e # d => delivery'[e] = delivery[e]
        /\ delivery'[d].status = made /\ delivery'[d].expected = delivery[d].expected
    BY <2>2, <2>3, <2>5, <2>6 DEF DeliveryRow
  <2>8. stock' \subseteq Serial
    BY <2>2, <2>6, CallFields DEF ReceivingTypeOK
  <2>9. /\ receiving' \in [Handler -> ReceivingCall]
        /\ receiving'[h] = NoCall /\ \A g \in Handler : g # h => receiving'[g] = receiving[g]
    BY <1>1, CallsTyped, NoCallTyped DEF Done
  <2>10. ReceivingTypeOK'
    BY <1>1, <2>2, <2>4, <2>7, <2>8, <2>9 DEF ReceivingTypeOK
  <2>11. /\ ReceivedOf(d)' = ReceivedOf(d) + Len(r.devices) /\ NotesOn(d)' # {}
         /\ \A e : e # d => NotesOn(e)' = NotesOn(e) /\ ReceivedOf(e)' = ReceivedOf(e)
    BY <2>3, <2>4, ReceivedGrows, NoteTyped
  <2>12. CallsFollow'
    <3>1. ASSUME NEW g \in Handler, receiving'[g].op \in InTx \cup {"edit"}
          PROVE  \E e \in Delivery : receiving'[g].on = {e}
      BY <2>9, <3>1, NoCallTyped DEF CallsFollow, InTx
    <3>3. \A g \in Handler : receiving'[g].op = "edit" => receiving'[g].expected > 0
      BY <2>9, NoCallTyped DEF CallsFollow
    <3>2. ASSUME NEW e \in Delivery \ crossed', NEW g \in Handler, receiving'[g].on = {e}
          PROVE  /\ \A f \in Handler : receiving'[f].on = {e} => f = g
                 /\ receiving'[g].received = ReceivedOf(e)'
                 /\ receiving'[g].op \in InTx => receiving'[g].expected = delivery'[e].expected
      <4>1. \A f \in Handler : receiving'[f].on = {e} => f # h /\ receiving[f].on = {e}
        BY <2>9, NoCallTyped
      <4>2. g # h /\ receiving'[g] = receiving[g] /\ receiving[g].on = {e}
        BY <2>9, <3>2, <4>1
      <4>3. e \in Delivery \ crossed
        BY <1>1, <3>2
      <4>4. e # d
        BY <2>3, <4>2, <4>3 DEF CallsFollow
      <4> QED
        BY <2>7, <2>11, <4>1, <4>2, <4>3, <4>4 DEF CallsFollow
    <3> QED
      BY <3>1, <3>2, <3>3 DEF CallsFollow
  <2>13. NothingBefore'
    <3> SUFFICES ASSUME NEW e \in Delivery, delivery'[e].status = NoDelivery
                 PROVE  NotesOn(e)' = {} /\ \A g \in Handler : receiving'[g].on # {e}
      BY DEF NothingBefore
    <3>1. e # d
      BY <2>5, <2>7
    <3>2. NotesOn(e) = {} /\ \A g \in Handler : receiving[g].on # {e}
      BY <2>7, <3>1 DEF NothingBefore
    <3> QED
      BY <2>9, <2>11, <3>1, <3>2, NoCallTyped
  <2>14. StatusFollowsReceipts'
    <3> SUFFICES ASSUME NEW e \in Delivery \ (byManager' \cup crossed'),
                        delivery'[e].status # NoDelivery
                 PROVE  Tells(delivery'[e].status, NotesOn(e)', ReceivedOf(e)',
                              delivery'[e].expected)
      BY DEF StatusFollowsReceipts, Tells
    <3>1. CASE e = d
      <4>1. r.received = ReceivedOf(d) /\ r.expected = delivery[d].expected
        BY <1>1, <2>3, <3>1 DEF CallsFollow, InTx
      <4>2. ReceivedOf(d)' \in Nat /\ delivery[d].expected \in Nat
        <5>1. ReceivedOf(d) \in Nat
          BY <2>4, ListedFinite
        <5>2. r.devices \in Seq(Serial)
          BY <2>6, CallFields
        <5> QED
          BY <2>6, <2>11, <5>1, <5>2 DEF DeliveryRow
      <4>3. made = AfterReceipt(ReceivedOf(d)', delivery[d].expected)
        BY <2>11, <4>1 DEF made
      <4> QED
        BY <2>7, <2>11, <3>1, <4>2, <4>3, ReceiptTells
    <3>2. CASE e # d
      BY <1>1, <2>2, <2>3, <2>7, <2>11, <3>2 DEF StatusFollowsReceipts
    <3> QED
      BY <3>1, <3>2
  <2> QED
    BY <2>10, <2>12, <2>13, <2>14
<1> QED
  BY <1>2, <1>3

\* An edit writes what it was asked for and the status that what it has read gives.
LEMMA EditFollows ==
    ASSUME StatusIInv, NEW h \in Handler, UpdateDeliveryCommit(h)
    PROVE  ReceivingTypeOK' /\ Follows'
<1> USE DEF StatusIInv, Follows
<1> DEFINE r == receiving[h]
           made == [status |-> Derived(r.received, r.expected), expected |-> r.expected]
<1>1. /\ r.op = "edit" /\ Done(h) /\ UNCHANGED <<note, stock, broken, crossed>>
      /\ byManager' = byManager \ r.on
      /\ delivery' = [d \in Delivery |-> IF d \in r.on THEN made ELSE delivery[d]]
  BY DEF UpdateDeliveryCommit
<1>2. PICK d \in Delivery : r.on = {d}
  BY <1>1 DEF CallsFollow
<1>3. made \in DeliveryRow /\ made.status # NoDelivery
  <2>1. r \in ReceivingCall
    BY DEF ReceivingTypeOK
  <2> QED
    BY <2>1, CallFields, DerivedIsAStatus DEF DeliveryRow
<1>4. made.status = Derived(r.received, r.expected) /\ made.expected = r.expected
  OBVIOUS
<1> HIDE DEF made
<1>5. /\ delivery' \in [Delivery -> DeliveryRow]
      /\ delivery'[d] = made /\ \A e \in Delivery : e # d => delivery'[e] = delivery[e]
  BY <1>1, <1>2, <1>3 DEF ReceivingTypeOK
<1>6. /\ receiving' \in [Handler -> ReceivingCall]
      /\ receiving'[h] = NoCall /\ \A g \in Handler : g # h => receiving'[g] = receiving[g]
  BY <1>1, CallsTyped, NoCallTyped DEF Done
<1>7. \A e : NotesOn(e)' = NotesOn(e) /\ ReceivedOf(e)' = ReceivedOf(e)
  BY <1>1, ReceiptsStay
<1>8. ReceivingTypeOK'
  BY <1>1, <1>5, <1>6 DEF ReceivingTypeOK
<1>9. CallsFollow'
  <2>1. ASSUME NEW g \in Handler, receiving'[g].op \in InTx \cup {"edit"}
        PROVE  \E e \in Delivery : receiving'[g].on = {e}
    BY <1>6, <2>1, NoCallTyped DEF CallsFollow, InTx
  <2>3. \A g \in Handler : receiving'[g].op = "edit" => receiving'[g].expected > 0
    BY <1>6, NoCallTyped DEF CallsFollow
  <2>2. ASSUME NEW e \in Delivery \ crossed', NEW g \in Handler, receiving'[g].on = {e}
        PROVE  /\ \A f \in Handler : receiving'[f].on = {e} => f = g
               /\ receiving'[g].received = ReceivedOf(e)'
               /\ receiving'[g].op \in InTx => receiving'[g].expected = delivery'[e].expected
    <3>1. \A f \in Handler : receiving'[f].on = {e} => f # h /\ receiving[f].on = {e}
      BY <1>6, NoCallTyped
    <3>2. g # h /\ receiving'[g] = receiving[g] /\ receiving[g].on = {e}
      BY <1>6, <2>2, <3>1
    <3>3. e \in Delivery \ crossed
      BY <1>1, <2>2
    <3>4. e # d
      BY <1>2, <3>2, <3>3 DEF CallsFollow
    <3> QED
      BY <1>5, <1>7, <3>1, <3>2, <3>3, <3>4 DEF CallsFollow
  <2> QED
    BY <2>1, <2>2, <2>3 DEF CallsFollow
<1>10. NothingBefore'
  BY <1>3, <1>5, <1>6, <1>7, NoCallTyped DEF NothingBefore
<1>11. StatusFollowsReceipts'
  <2> SUFFICES ASSUME NEW e \in Delivery \ (byManager' \cup crossed'),
                      delivery'[e].status # NoDelivery
               PROVE  Tells(delivery'[e].status, NotesOn(e)', ReceivedOf(e)',
                            delivery'[e].expected)
    BY DEF StatusFollowsReceipts, Tells
  <2>1. CASE e = d
    <3>1. r.received = ReceivedOf(d) /\ r.expected > 0
      BY <1>1, <1>2, <2>1 DEF CallsFollow
    <3>2. ReceivedOf(d) \in Nat /\ r.expected \in Nat
      BY CallFields, ListedFinite DEF ReceivingTypeOK
    <3>3. ReceivedOf(d) > 0 => NotesOn(d) # {}
      BY NothingReceived
    <3> QED
      BY <1>4, <1>5, <1>7, <2>1, <3>1, <3>2, <3>3, EditTells
  <2>2. CASE e # d
    BY <1>1, <1>2, <1>5, <1>7, <2>2 DEF StatusFollowsReceipts
  <2> QED
    BY <2>1, <2>2
<1> QED
  BY <1>8, <1>9, <1>10, <1>11

\* A delivery begins with nothing received.
LEMMA ExpectedFollows ==
    ASSUME StatusIInv, NEW d \in Delivery, NEW q \in Quantity, CreateExpectedDelivery(d, q)
    PROVE  ReceivingTypeOK' /\ Follows'
<1> USE DEF StatusIInv, Follows
<1>1. /\ delivery[d].status = NoDelivery
      /\ delivery' = [delivery EXCEPT ![d] = [status |-> "pending", expected |-> q]]
      /\ UNCHANGED <<note, stock, receiving, broken, byManager, crossed>>
  BY DEF CreateExpectedDelivery
<1>2. q \in Nat
  BY ReceivingAssumption
<1>3. /\ delivery' \in [Delivery -> DeliveryRow]
      /\ delivery'[d] = [status |-> "pending", expected |-> q]
      /\ \A e \in Delivery : e # d => delivery'[e] = delivery[e]
  BY <1>1, <1>2 DEF ReceivingTypeOK, DeliveryRow, DeliveryStatus
<1>4. \A e : NotesOn(e)' = NotesOn(e) /\ ReceivedOf(e)' = ReceivedOf(e)
  BY <1>1, ReceiptsStay
<1>5. NotesOn(d) = {} /\ \A h \in Handler : receiving[h].on # {d}
  BY <1>1 DEF NothingBefore
<1>6. ReceivingTypeOK'
  BY <1>1, <1>3 DEF ReceivingTypeOK
<1>7. CallsFollow'
  BY <1>1, <1>3, <1>4, <1>5 DEF CallsFollow
<1>8. NothingBefore'
  BY <1>1, <1>3, <1>4, <1>5 DEF NothingBefore
<1>9. StatusFollowsReceipts'
  <2> SUFFICES ASSUME NEW e \in Delivery \ (byManager' \cup crossed'),
                      delivery'[e].status # NoDelivery
               PROVE  Tells(delivery'[e].status, NotesOn(e)', ReceivedOf(e)',
                            delivery'[e].expected)
    BY DEF StatusFollowsReceipts, Tells
  <2>1. CASE e = d
    <3>1. ReceivedOf(d) = 0
      BY <1>5, NothingReceived
    <3>2. Tells("pending", NotesOn(d), ReceivedOf(d), q)
      BY <1>5, <3>1, NewTells
    <3> QED
      BY <1>3, <1>4, <2>1, <3>2
  <2>2. CASE e # d
    BY <1>1, <1>3, <1>4, <2>2 DEF StatusFollowsReceipts
  <2> QED
    BY <2>1, <2>2
<1> QED
  BY <1>6, <1>7, <1>8, <1>9

\* A status written by hand is a status.
LEMMA ByHandFollows ==
    ASSUME StatusIInv, NEW d \in Delivery, NEW s \in DeliveryStatus, UpdateDeliveryStatus(d, s)
    PROVE  ReceivingTypeOK' /\ Follows'
<1> USE DEF StatusIInv, Follows
<1>1. /\ delivery[d].status # NoDelivery
      /\ delivery' = [delivery EXCEPT ![d].status = s]
      /\ byManager' = byManager \cup {d}
      /\ UNCHANGED <<note, stock, receiving, broken, crossed>>
  BY DEF UpdateDeliveryStatus
<1>2. s # NoDelivery
  BY DEF DeliveryStatus, NoDelivery
<1>3. delivery \in [Delivery -> DeliveryRow]
  BY DEF ReceivingTypeOK
<1>4. /\ delivery' \in [Delivery -> DeliveryRow]
      /\ delivery'[d].status = s /\ delivery'[d].expected = delivery[d].expected
      /\ \A e \in Delivery : e # d => delivery'[e] = delivery[e]
  BY <1>1, <1>3 DEF DeliveryRow
<1>5. \A e : NotesOn(e)' = NotesOn(e) /\ ReceivedOf(e)' = ReceivedOf(e)
  BY <1>1, ReceiptsStay
<1>6. \A e \in Delivery : delivery'[e].expected = delivery[e].expected
  BY <1>4
<1>7. \A e \in Delivery : delivery'[e].status = NoDelivery => delivery[e].status = NoDelivery
  BY <1>2, <1>4
<1>8. ReceivingTypeOK'
  BY <1>1, <1>4 DEF ReceivingTypeOK
<1>9. CallsFollow' /\ NothingBefore'
  BY <1>1, <1>5, <1>6, <1>7 DEF CallsFollow, NothingBefore
<1>10. StatusFollowsReceipts'
  BY <1>1, <1>4, <1>5 DEF StatusFollowsReceipts
<1> QED
  BY <1>8, <1>9, <1>10

\* A step of a call's own: it goes on or ends.
LEMMA CallFollows ==
    ASSUME StatusIInv, NEW h \in Handler,
           \/ ReceiveLookUp(h) \/ ReceiveInsert(h) \/ ReceiveLock(h) \/ ReceiveCount(h)
           \/ ReceiveDeadlock(h) \/ ReceivingFail(h)
    PROVE  ReceivingTypeOK' /\ Follows'
<1> DEFINE r == receiving[h]
           Goes(c) == Continues(r, c) /\ receiving' = [receiving EXCEPT ![h] = c]
<1>1. UNCHANGED <<delivery, note, byManager, crossed>>
  BY DEF ReceiveLookUp, ReceiveInsert, ReceiveLock, ReceiveCount, ReceiveDeadlock, ReceivingFail
<1>2. stock' = stock /\ broken' \in 0..MaxFailures
  BY BackendAssumption DEF ReceiveLookUp, ReceiveInsert, ReceiveLock, ReceiveCount, ReceiveDeadlock,
       ReceivingFail, StatusIInv, ReceivingTypeOK
<1>3. r \in ReceivingCall /\ Sound(r)
  BY DEF StatusIInv, ReceivingTypeOK, IInv
<1>4. /\ IsCall(r) /\ r.created \subseteq Serial /\ r.rest \in Seq(Serial) /\ r.number \in Nat
  BY <1>3, CallFields
<1>5. Done(h) \/ \E c : Goes(c)
  <2>1. CASE ReceiveLookUp(h)
    <3>1. r.op \in InTx /\ r.rest # <<>> /\ "receive.insert" \in InTx
      BY <2>1 DEF ReceiveLookUp, InTx
    <3>2. Tail(r.rest) \in Seq(Serial)
      BY <1>4, <3>1, HeadAndTail
    <3> DEFINE c == [r EXCEPT !.op = "receive.insert"]
               d == [r EXCEPT !.rest = Tail(r.rest)]
    <3>3. Done(h) \/ receiving' = [receiving EXCEPT ![h] = c]
                  \/ receiving' = [receiving EXCEPT ![h] = d]
      BY <2>1 DEF ReceiveLookUp
    <3>4. /\ c = GoneOn(r, "receive.insert", r.created, r.rest, r.number)
          /\ d = GoneOn(r, r.op, r.created, Tail(r.rest), r.number)
      BY <1>4, FieldsWritten
    <3> HIDE DEF c, d
    <3>5. Continues(r, c) /\ Continues(r, d)
      BY <1>3, <1>4, <3>1, <3>2, <3>4, CallContinues
    <3> QED
      BY <3>3, <3>5
  <2>2. CASE ReceiveInsert(h)
    <3>1. r.op \in InTx /\ r.rest # <<>> /\ "receive" \in InTx
      BY <1>3, <2>2 DEF ReceiveInsert, InTx, Sound
    <3>2. Head(r.rest) \in Serial /\ Tail(r.rest) \in Seq(Serial)
      BY <1>4, <3>1, HeadAndTail
    <3> DEFINE c == Inserted(r, r.created \cup {Head(r.rest)}, Tail(r.rest))
    <3>3. Done(h) \/ receiving' = [receiving EXCEPT ![h] = c]
      BY <2>2 DEF ReceiveInsert, Inserted
    <3>4. c = GoneOn(r, "receive", r.created \cup {Head(r.rest)}, Tail(r.rest), r.number)
      BY <1>4, FieldsWritten
    <3> HIDE DEF c
    <3>5. Continues(r, c)
      BY <1>3, <1>4, <3>1, <3>2, <3>4, CallContinues
    <3> QED
      BY <3>3, <3>5
  <2>3. CASE ReceiveLock(h)
    <3> DEFINE c == [r EXCEPT !.op = "receive.locked"]
    <3>1. r.op \in InTx /\ "receive.locked" \in InTx /\ receiving' = [receiving EXCEPT ![h] = c]
      BY <2>3 DEF ReceiveLock, InTx
    <3>2. c = GoneOn(r, "receive.locked", r.created, r.rest, r.number)
      BY <1>4, FieldsWritten
    <3> HIDE DEF c
    <3>3. Continues(r, c)
      BY <1>3, <1>4, <3>1, <3>2, CallContinues
    <3> QED
      BY <3>1, <3>3
  <2>4. CASE ReceiveCount(h)
    <3> DEFINE n == Cardinality({g \in Grn : note[g].month = r.month}) + 1
               c == Counted(r, n)
    <3>1. /\ r.op \in InTx /\ "receive.counted" \in InTx
          /\ receiving' = [receiving EXCEPT ![h] = c]
      BY <2>4 DEF ReceiveCount, InTx, Counted
    <3>2. n \in Nat
      <4>1. n = Cardinality(NotesWith(r.month)) + 1
        BY DEF NotesWith
      <4>2. Cardinality(NotesWith(r.month)) \in Nat
        BY NotesAreFinite
      <4> HIDE DEF n
      <4> QED
        BY <4>1, <4>2
    <3> HIDE DEF n
    <3>3. c = GoneOn(r, "receive.counted", r.created, r.rest, n)
      BY <1>4, FieldsWritten
    <3> HIDE DEF c
    <3>4. Continues(r, c)
      BY <1>3, <1>4, <3>1, <3>2, <3>3, CallContinues
    <3> QED
      BY <3>1, <3>4
  <2>5. CASE ReceiveDeadlock(h) \/ ReceivingFail(h)
    BY <2>5 DEF ReceiveDeadlock, ReceivingFail
  <2> QED
    BY <2>1, <2>2, <2>3, <2>4, <2>5
<1>6. receiving' \in [Handler -> ReceivingCall] /\ Follows'
  BY <1>1, <1>5, FollowsOn, FollowsEnd
<1> QED
  BY <1>1, <1>2, <1>6 DEF StatusIInv, ReceivingTypeOK

LEMMA CallMade ==
    ASSUME NEW c, IsCall(c), c.op \in InTx \cup {"idle", "edit"}, c.on \subseteq Delivery,
           c.month \subseteq Month, c.expected \in Nat, c.received \in Nat, c.override \in BOOLEAN,
           c.devices \in Seq(Serial), c.rest \in Seq(Serial), c.created \subseteq Serial,
           c.number \in Nat
    PROVE  c \in ReceivingCall
BY DEF IsCall, ReceivingCall, InTx

\* What a call reads when it begins is so.
LEMMA ReceiveBegins ==
    ASSUME StatusIInv, NEW h \in Handler, NEW d \in Delivery, NEW b \in Batch, NEW o \in BOOLEAN,
           NEW m \in Month, ReceiveDevices(h, d, b, o, m)
    PROVE  ReceivingTypeOK' /\ Follows'
<1> DEFINE c == Begun(NoCall, d, {m}, delivery[d].expected, ReceivedOf(d), o, b)
<1>1. Starts(h, d, c) /\ UNCHANGED <<delivery, note, stock, broken, byManager>>
  BY DEF ReceiveDevices, Begun
<1>2. delivery[d].status # NoDelivery /\ delivery[d].expected \in Nat /\ ReceivedOf(d) \in Nat
  BY ListedFinite DEF ReceiveDevices, StatusIInv, ReceivingTypeOK, DeliveryRow
<1>3. b \in Seq(Serial)
  BY ReceivingAssumption
<1>4. /\ IsCall(c) /\ c.op = "receive" /\ c.on = {d} /\ c.month = {m}
      /\ c.expected = delivery[d].expected /\ c.received = ReceivedOf(d) /\ c.override = o
      /\ c.devices = b /\ c.rest = b /\ c.created = {} /\ c.number = 0
  <2> HIDE DEF c
  <2>1. c = Begun(NoCall, d, {m}, delivery[d].expected, ReceivedOf(d), o, b)
    BY DEF c
  <2> QED
    BY <2>1, CallBegun
<1> HIDE DEF c
<1>5. /\ c \in ReceivingCall /\ c.on = {d} /\ c.received = ReceivedOf(d)
      /\ c.expected = delivery[d].expected /\ c.op # "edit"
  <2>1. {d} \subseteq Delivery /\ {m} \subseteq Month /\ {} \subseteq Serial /\ 0 \in Nat
        /\ "receive" \in InTx
    BY DEF InTx
  <2>2. c \in ReceivingCall
    BY <1>2, <1>3, <1>4, <2>1, CallMade
  <2> QED
    BY <1>4, <2>2
<1>6. receiving' \in [Handler -> ReceivingCall] /\ crossed' \subseteq Delivery /\ Follows'
  BY <1>1, <1>2, <1>5, FollowsStart
<1> QED
  BY <1>1, <1>6 DEF StatusIInv, ReceivingTypeOK

LEMMA EditReads ==
    ASSUME NEW d \in Delivery, NEW q \in Nat, NEW x \in Nat, NEW c, c = Edited(NoCall, d, q, x)
    PROVE  c \in ReceivingCall /\ c.on = {d} /\ c.received = x /\ c.expected = q /\ c.op \notin InTx
<1>1. /\ IsCall(NoCall) /\ NoCall.month = {} /\ NoCall.override = FALSE /\ NoCall.devices = <<>>
      /\ NoCall.rest = <<>> /\ NoCall.created = {} /\ NoCall.number = 0
  BY DEF IsCall, NoCall
<1>2. c = [op |-> "edit", on |-> {d}, month |-> NoCall.month, expected |-> q, received |-> x,
           override |-> NoCall.override, devices |-> NoCall.devices, rest |-> NoCall.rest,
           created |-> NoCall.created, number |-> NoCall.number]
  BY <1>1 DEF IsCall, Edited
<1>3. c = [op |-> "edit", on |-> {d}, month |-> {}, expected |-> q, received |-> x,
           override |-> FALSE, devices |-> <<>>, rest |-> <<>>, created |-> {}, number |-> 0]
  BY <1>1, <1>2
<1> QED
  BY <1>3 DEF ReceivingCall, InTx

LEMMA EditBegins ==
    ASSUME StatusIInv, NEW h \in Handler, NEW d \in Delivery, NEW q \in Quantity,
           UpdateDelivery(h, d, q)
    PROVE  ReceivingTypeOK' /\ Follows'
<1> DEFINE c == Edited(NoCall, d, q, ReceivedOf(d))
<1>1. Starts(h, d, c) /\ UNCHANGED <<delivery, note, stock, broken, byManager>>
  BY DEF UpdateDelivery, Edited
<1>2. delivery[d].status # NoDelivery /\ q \in Nat /\ q > 0 /\ ReceivedOf(d) \in Nat
  BY ListedFinite, ReceivingAssumption DEF UpdateDelivery, StatusIInv, ReceivingTypeOK
<1>3. /\ c \in ReceivingCall /\ c.on = {d} /\ c.received = ReceivedOf(d) /\ c.op \notin InTx
      /\ c.expected > 0
  BY <1>2, EditReads
<1> HIDE DEF c
<1>4. receiving' \in [Handler -> ReceivingCall] /\ crossed' \subseteq Delivery /\ Follows'
  BY <1>1, <1>2, <1>3, FollowsStart
<1> QED
  BY <1>1, <1>4 DEF StatusIInv, ReceivingTypeOK

LEMMA StatusKept == ASSUME StatusIInv, [ReceivingNext]_receivingVars PROVE StatusIInv'
<1>1. IInv'
  BY InvPreserved DEF StatusIInv
<1>2. CASE UNCHANGED receivingVars
  <2>1. ReceivingTypeOK'
    BY <1>2 DEF receivingVars, StatusIInv, ReceivingTypeOK
  <2>2. Follows'
    BY <1>2, ReceiptsStay DEF receivingVars, StatusIInv, Follows, CallsFollow, NothingBefore,
         StatusFollowsReceipts
  <2> QED
    BY <1>1, <2>1, <2>2 DEF StatusIInv
<1>3. CASE ReceivingNext
  BY <1>1, <1>3, ExpectedFollows, ByHandFollows, ReceiveBegins, CallFollows, ReceiptFollows,
     EditBegins, EditFollows DEF ReceivingNext, StatusIInv
<1> QED
  BY <1>2, <1>3

\* The inductive invariant of the status, types among it.
THEOREM StatusInvariant == ReceivingSpec => []StatusIInv
<1>1. StatusIInv /\ [ReceivingNext]_receivingVars => StatusIInv'
  BY StatusKept
<1> QED
  BY StatusStartsRight, <1>1, PTL DEF ReceivingSpec

\* Deliveries, notes and calls are what their columns and handlers can hold.
THEOREM ReceivingTyped == ReceivingSpec => []ReceivingTypeOK
<1>1. StatusIInv => ReceivingTypeOK
  BY DEF StatusIInv
<1> QED
  BY StatusInvariant, <1>1, PTL

\* The status of a delivery is the one its receipts and its items tell, as long as calls on it do
\* not overlap, unless it was written by hand last.
THEOREM StatusTellsReceipts == ReceivingSpec => []StatusFollowsReceipts
<1>1. StatusIInv => StatusFollowsReceipts
  BY DEF StatusIInv, Follows
<1> QED
  BY StatusInvariant, <1>1, PTL
================================================================================

----------------------------- MODULE AccountsProofs -----------------------------
(***************************************************************************)
(* A role that belongs to a client keeps its client, and the owner of an   *)
(* account keeps a way in, for any number of calls and failed sign-ins.    *)
(***************************************************************************)
EXTENDS Accounts, TLAPS

\* The one edit in flight was checked on the row as it still is.
OneEdit ==
    /\ \A g, h \in Handler : serving[g].op = "update" /\ serving[h].op = "update" => g = h
    /\ user.scoped => user.client
    /\ \A h \in Handler : serving[h].op = "update" =>
         (Patched(user.scoped, serving[h].scoped) => Patched(user.client, serving[h].client))

\* The one sign-in in flight counts on from the row, and the row counts no more than failed.
OneSignIn ==
    /\ \A g, h \in Handler : serving[g].op = "signIn" /\ serving[h].op = "signIn" => g = h
    /\ user.failed <= misses
    /\ \A h \in Handler : serving[h].op = "signIn" =>
         /\ serving[h].count = user.failed + 1
         /\ ~ serving[h].right => misses < MaxMisses

\* A call is only in flight for an account that exists.
Known == /\ user.status = "none" => user = NoUser
         /\ \A h \in Handler : serving[h].op \in {"signIn", "register", "update"} =>
              user.status # "none"
         /\ \A h \in Handler : serving[h].op = "create" => (serving[h].scoped => serving[h].client)

\* The lock counts, and no failure counts beyond the bound.
LockCounts ==
    /\ user.locked => user.failed >= MaxFailed
    /\ \A h \in Handler : serving[h].op = "signIn" =>
         serving[h].right \/ serving[h].count <= MaxMisses

HasKey == /\ user.status = "active" => user.password
          /\ user.status = "invited" => user.invite # "none" \/ user.password

IInv == /\ AccountTypeOK
        /\ Known
        /\ LockCounts
        /\ ~ parted => OneEdit
        /\ ~ mingled => OneSignIn
        /\ ~ switched => HasKey

LEMMA StartsRight == AccountInit => IInv
<1> SUFFICES ASSUME AccountInit PROVE IInv
  OBVIOUS
<1>1. AccountTypeOK
  <2>1. user \in UserRow /\ misses \in 0..MaxMisses
    BY AccountAssumption DEF AccountInit, NoUser, UserRow
  <2>2. serving = [h \in Handler |-> NotServing]
    BY DEF AccountInit
  <2> QED
    BY <2>1, <2>2 DEF AccountInit, AccountTypeOK
<1>2. \A h \in Handler : serving[h].op = "none"
  BY DEF AccountInit, NotServing
<1>3. Known /\ LockCounts
  BY <1>2 DEF AccountInit, Known, LockCounts, NoUser
<1>4. OneEdit
  BY <1>2 DEF AccountInit, OneEdit, NoUser
<1>6. OneSignIn
  <2>1. user.failed = 0 /\ misses = 0
    BY DEF AccountInit, NoUser
  <2> QED
    BY <1>2, <2>1 DEF OneSignIn
<1>5. HasKey
  BY DEF AccountInit, HasKey, NoUser
<1> QED
  BY <1>1, <1>3, <1>4, <1>5, <1>6 DEF IInv

Calls == {NotServing} \cup [op : {"create"}, scoped : BOOLEAN, client : BOOLEAN]
           \cup [op : {"signIn"}, right : BOOLEAN, count : 1..MaxMisses + 1]
           \cup [op : {"register"}]
           \cup [op : {"update"}, scoped : Patch, client : Patch, password : BOOLEAN]

\* What a call knows, by its kind.
LEMMA KindOfCall ==
    ASSUME AccountTypeOK, NEW h \in Handler
    PROVE  /\ serving[h] \in Calls
           /\ serving[h].op = "create" => serving[h].scoped \in BOOLEAN /\ serving[h].client \in BOOLEAN
           /\ serving[h].op = "signIn" => serving[h].right \in BOOLEAN
                                        /\ serving[h].count \in 1..MaxMisses + 1
           /\ serving[h].op = "update" => serving[h].scoped \in Patch /\ serving[h].client \in Patch
                                        /\ serving[h].password \in BOOLEAN
BY DEF AccountTypeOK, NotServing, Calls

\* A call that begins is in flight, and all others are as they were.
LEMMA OtherCalls ==
    ASSUME AccountTypeOK, NEW h \in Handler, NEW c,
           serving' = [serving EXCEPT ![h] = c]
    PROVE  serving'[h] = c /\ \A g \in Handler : g # h => serving'[g] = serving[g]
BY DEF AccountTypeOK

LEMMA CallEnds ==
    ASSUME AccountTypeOK, NEW h \in Handler, Served(h)
    PROVE  /\ serving'[h].op = "none"
           /\ \A g \in Handler : g # h => serving'[g] = serving[g]
<1>1. serving' = [serving EXCEPT ![h] = NotServing]
  BY DEF Served
<1>2. NotServing.op = "none"
  BY DEF NotServing
<1> QED
  BY <1>1, <1>2, OtherCalls

\* What the calls write keeps a row a row.
LEMMA Counted ==
    ASSUME user \in UserRow, NEW count \in 0..MaxMisses, NEW lock \in BOOLEAN
    PROVE  [user EXCEPT !.failed = count, !.locked = lock] \in UserRow
BY DEF UserRow

LEMMA Edited ==
    ASSUME user \in UserRow, NEW scoped \in BOOLEAN, NEW client \in BOOLEAN,
           NEW password \in BOOLEAN
    PROVE  [user EXCEPT !.scoped = scoped, !.client = client, !.password = password] \in UserRow
BY DEF UserRow

LEMMA TypePreserved ==
    ASSUME AccountTypeOK, LockCounts, [AccountNext]_accountVars
    PROVE  AccountTypeOK'
<1> USE AccountAssumption DEF AccountTypeOK
<1>t. \A h \in Handler : NotServing \in Calls /\ serving[h] \in Calls
  BY DEF Calls
<1>s. ASSUME NEW h \in Handler, NEW c \in Calls, serving' = [serving EXCEPT ![h] = c]
      PROVE  serving' \in [Handler -> Calls]
  BY <1>s, <1>t DEF Calls
<1>p. ASSUME serving' \in [Handler -> Calls], user' \in UserRow, misses' \in 0..MaxMisses,
             mingled' \in BOOLEAN, parted' \in BOOLEAN, switched' \in BOOLEAN
      PROVE  AccountTypeOK'
  BY <1>p DEF Calls
<1>u. serving \in [Handler -> Calls]
  BY DEF Calls
<1>1. CASE UNCHANGED accountVars
  BY <1>1 DEF accountVars
<1>2. CASE LockEnds
  BY <1>2, <1>p, <1>u DEF LockEnds, UserRow
<1>3. CASE InviteEnds
  BY <1>3, <1>p, <1>u DEF InviteEnds, UserRow
<1>4. ASSUME NEW status \in {"active", "suspended"}, SetStatus(status) PROVE AccountTypeOK'
  BY <1>4, <1>p, <1>u DEF SetStatus, UserRow
<1>5. ASSUME NEW h \in Handler, NEW scoped \in BOOLEAN, NEW client \in BOOLEAN,
             CreateUser(h, scoped, client)
      PROVE  AccountTypeOK'
  <2>1. [op |-> "create", scoped |-> scoped, client |-> client] \in Calls
    BY DEF Calls
  <2> QED
    BY <1>5, <1>s, <1>p, <2>1 DEF CreateUser
<1>6. ASSUME NEW h \in Handler, CreateUserInsert(h) PROVE AccountTypeOK'
  <2>1. serving[h].scoped \in BOOLEAN /\ serving[h].client \in BOOLEAN
    BY <1>6, KindOfCall DEF CreateUserInsert
  <2>2. user' \in UserRow
    BY <1>6, <2>1 DEF CreateUserInsert, UserRow, NoUser
  <2> QED
    BY <1>6, <1>s, <1>t, <1>p, <2>2 DEF CreateUserInsert, Served
<1>7. ASSUME NEW h \in Handler, NEW right \in BOOLEAN, SignInRead(h, right) PROVE AccountTypeOK'
  <2>1. [op |-> "signIn", right |-> right, count |-> user.failed + 1] \in Calls
    BY DEF Calls, UserRow
  <2> QED
    BY <1>7, <1>s, <1>p, <2>1 DEF SignInRead, Busy
<1>8. ASSUME NEW h \in Handler, SignInFails(h) PROVE AccountTypeOK'
  <2>1. serving[h].count \in 0..MaxMisses
    BY <1>8, KindOfCall DEF SignInFails, LockCounts
  <2>2. user' \in UserRow
    <3>1. user' = [user EXCEPT !.failed = serving[h].count, !.locked = serving[h].count >= MaxFailed]
      BY <1>8 DEF SignInFails
    <3>2. (serving[h].count >= MaxFailed) \in BOOLEAN
      OBVIOUS
    <3> QED
      BY <2>1, <3>1, <3>2, Counted
  <2>3. misses' \in 0..MaxMisses
    BY <1>8 DEF SignInFails
  <2> QED
    BY <1>8, <1>s, <1>t, <1>p, <2>2, <2>3 DEF SignInFails, Served
<1>9. ASSUME NEW h \in Handler, SignInSucceeds(h) PROVE AccountTypeOK'
  <2>2. user' \in UserRow
    <3>1. 0 \in 0..MaxMisses /\ FALSE \in BOOLEAN
      OBVIOUS
    <3>2. user' = [user EXCEPT !.failed = 0, !.locked = FALSE]
      BY <1>9 DEF SignInSucceeds
    <3> QED
      BY <3>1, <3>2, Counted
  <2> QED
    BY <1>9, <1>s, <1>t, <1>p, <2>2 DEF SignInSucceeds, Served
<1>10. ASSUME NEW h \in Handler, RegisterRead(h) PROVE AccountTypeOK'
  <2>1. [op |-> "register"] \in Calls
    BY DEF Calls
  <2> QED
    BY <1>10, <1>s, <1>p, <2>1 DEF RegisterRead
<1>11. ASSUME NEW h \in Handler, RegisterWrite(h) PROVE AccountTypeOK'
  <2>1. user' \in UserRow
    BY <1>11 DEF RegisterWrite, UserRow
  <2> QED
    BY <1>11, <1>s, <1>t, <1>p, <2>1 DEF RegisterWrite, Served
<1>12. ASSUME NEW h \in Handler, NEW scoped \in Patch, NEW client \in Patch,
              NEW password \in BOOLEAN, UpdateRead(h, scoped, client, password)
       PROVE  AccountTypeOK'
  <2>1. [op |-> "update", scoped |-> scoped, client |-> client, password |-> password] \in Calls
    BY DEF Calls
  <2> QED
    BY <1>12, <1>s, <1>p, <2>1 DEF UpdateRead, Busy
<1>13. ASSUME NEW h \in Handler, UpdateWrite(h) PROVE AccountTypeOK'
  <2>1. user' \in UserRow
    <3> DEFINE scoped   == Patched(user.scoped, serving[h].scoped)
               client   == Patched(user.client, serving[h].client)
               password == user.password \/ serving[h].password
    <3>1. user.scoped \in BOOLEAN /\ user.client \in BOOLEAN /\ user.password \in BOOLEAN
      BY DEF UserRow
    <3>2. scoped \in BOOLEAN /\ client \in BOOLEAN
      BY <3>1 DEF Patched
    <3>3. password \in BOOLEAN
      OBVIOUS
    <3>4. user' = [user EXCEPT !.scoped = scoped, !.client = client, !.password = password]
      BY <1>13 DEF UpdateWrite
    <3> HIDE DEF scoped, client, password
    <3> QED
      BY <3>2, <3>3, <3>4, Edited
  <2> QED
    BY <1>13, <1>s, <1>t, <1>p, <2>1 DEF UpdateWrite, Served
<1>14. ASSUME NEW h \in Handler, AccountFail(h) PROVE AccountTypeOK'
  BY <1>14, <1>s, <1>t, <1>p DEF AccountFail, Served
<1> QED
  BY <1>1, <1>2, <1>3, <1>4, <1>5, <1>6, <1>7, <1>8, <1>9, <1>10, <1>11, <1>12, <1>13, <1>14
  DEF AccountNext

\* The rest of the invariant.
Promises == /\ Known
            /\ LockCounts
            /\ ~ parted => OneEdit
            /\ ~ mingled => OneSignIn
            /\ ~ switched => HasKey

\* A call that ends, whatever it was, disturbs nothing by it.
LEMMA EndingKeeps ==
    ASSUME AccountTypeOK, Promises, NEW h \in Handler, Served(h),
           UNCHANGED <<user, misses, mingled, parted, switched>>
    PROVE  Promises'
<1>1. /\ serving'[h].op = "none"
      /\ \A g \in Handler : g # h => serving'[g] = serving[g]
  BY CallEnds
<1> QED
  BY <1>1 DEF Promises, Known, LockCounts, OneEdit, OneSignIn, HasKey

LEMMA PromisesKept ==
    ASSUME IInv, [AccountNext]_accountVars
    PROVE  Promises'
<1>t. AccountTypeOK /\ Promises
  BY DEF IInv, Promises
<1>u. user \in UserRow /\ misses \in Nat /\ MaxFailed \in Nat /\ MaxMisses \in Nat
  BY <1>t, AccountAssumption DEF AccountTypeOK
<1>1. CASE UNCHANGED accountVars
  BY <1>1, <1>t DEF accountVars, Promises, Known, LockCounts, OneEdit, OneSignIn, HasKey
<1>2. CASE LockEnds \/ InviteEnds
  <2>1. /\ UNCHANGED <<serving, misses, mingled, parted, switched>>
        /\ user' \in UserRow
        /\ user'.status = user.status /\ user'.password = user.password
        /\ user'.scoped = user.scoped /\ user'.client = user.client
        /\ user'.failed = user.failed /\ (user'.locked => user.locked)
        /\ user.invite # "none" => user'.invite # "none"
    BY <1>2, <1>u DEF LockEnds, InviteEnds, UserRow
  <2>2. user # NoUser
    BY <1>2 DEF LockEnds, InviteEnds, NoUser
  <2> QED
    BY <1>t, <2>1, <2>2 DEF Promises, Known, LockCounts, OneEdit, OneSignIn, HasKey
<1>3. ASSUME NEW status \in {"active", "suspended"}, SetStatus(status) PROVE Promises'
  <2>1. /\ UNCHANGED <<serving, misses, mingled, parted>>
        /\ user'.status = status /\ user'.password = user.password
        /\ user'.scoped = user.scoped /\ user'.client = user.client
        /\ user'.failed = user.failed /\ user'.locked = user.locked
        /\ ~ switched' => user.password
    BY <1>3, <1>t, <1>u DEF SetStatus, UserRow, AccountTypeOK
  <2> QED
    BY <1>t, <2>1 DEF Promises, Known, LockCounts, OneEdit, OneSignIn, HasKey
<1>4. ASSUME NEW h \in Handler, NEW scoped \in BOOLEAN, NEW client \in BOOLEAN,
             CreateUser(h, scoped, client)
      PROVE  Promises'
  <2>1. /\ serving'[h] = [op |-> "create", scoped |-> scoped, client |-> client]
        /\ \A g \in Handler : g # h => serving'[g] = serving[g]
    BY <1>4, <1>t, OtherCalls DEF CreateUser
  <2>2. UNCHANGED <<user, misses, mingled, parted, switched>> /\ (scoped => client)
    BY <1>4 DEF CreateUser
  <2> QED
    BY <1>t, <2>1, <2>2 DEF Promises, Known, LockCounts, OneEdit, OneSignIn, HasKey
<1>5. ASSUME NEW h \in Handler, CreateUserInsert(h) PROVE Promises'
  <2>1. CASE user # NoUser
    BY <1>5, <1>t, <2>1, EndingKeeps DEF CreateUserInsert
  <2>2. CASE user = NoUser
    <3>1. /\ serving'[h].op = "none"
          /\ \A g \in Handler : g # h => serving'[g] = serving[g]
      BY <1>5, <1>t, CallEnds DEF CreateUserInsert
    <3>2. \A g \in Handler : serving[g].op \notin {"signIn", "register", "update"}
      BY <1>t, <2>2 DEF Promises, Known, NoUser
    <3>3. serving[h].scoped => serving[h].client
      BY <1>5, <1>t DEF CreateUserInsert, Promises, Known
    <3>4. serving[h].scoped \in BOOLEAN /\ serving[h].client \in BOOLEAN
      BY <1>5, <1>t, KindOfCall DEF CreateUserInsert
    <3>5. /\ user'.status = (IF serving[h].scoped THEN "invited" ELSE "active")
          /\ user'.password = ~ serving[h].scoped
          /\ user'.invite = (IF serving[h].scoped THEN "live" ELSE "none")
          /\ user'.scoped = serving[h].scoped /\ user'.client = serving[h].client
          /\ user'.failed = 0 /\ user'.locked = FALSE
      BY <1>5, <2>2 DEF CreateUserInsert, NoUser
    <3>6. UNCHANGED <<misses, mingled, parted, switched>>
      BY <1>5 DEF CreateUserInsert
    <3>7. Known' /\ LockCounts'
      BY <1>t, <3>1, <3>2, <3>5 DEF Promises, Known, LockCounts
    <3>8. OneEdit' /\ OneSignIn'
      BY <1>u, <3>1, <3>2, <3>3, <3>5, <3>6 DEF OneEdit, OneSignIn
    <3>9. HasKey'
      BY <3>4, <3>5 DEF HasKey
    <3> QED
      BY <3>7, <3>8, <3>9 DEF Promises
  <2> QED
    BY <2>1, <2>2
<1>6. ASSUME NEW h \in Handler, NEW right \in BOOLEAN, SignInRead(h, right) PROVE Promises'
  <2>1. /\ serving'[h] = [op |-> "signIn", right |-> right, count |-> user.failed + 1]
        /\ \A g \in Handler : g # h => serving'[g] = serving[g]
    BY <1>6, <1>t, OtherCalls DEF SignInRead
  <2>2. /\ UNCHANGED <<user, misses, parted, switched>> /\ user.status # "none"
        /\ ~ right => misses < MaxMisses /\ user.failed < MaxMisses
    BY <1>6 DEF SignInRead
  <2>3. ~ mingled' => ~ mingled /\ \A g \in Handler : serving[g].op # "signIn"
    BY <1>6, <1>t DEF SignInRead, Busy, AccountTypeOK
  <2>4. Known' /\ LockCounts'
    BY <1>t, <1>u, <2>1, <2>2 DEF Promises, Known, LockCounts, UserRow
  <2>5. ~ parted' => OneEdit'
    BY <1>t, <2>1, <2>2 DEF Promises, OneEdit
  <2>6. ~ mingled' => OneSignIn'
    BY <1>t, <2>1, <2>2, <2>3 DEF Promises, OneSignIn
  <2> QED
    BY <1>t, <2>2, <2>4, <2>5, <2>6 DEF Promises, HasKey
<1>7. ASSUME NEW h \in Handler, SignInFails(h) PROVE Promises'
  <2>1. /\ serving'[h].op = "none"
        /\ \A g \in Handler : g # h => serving'[g] = serving[g]
    BY <1>7, <1>t, CallEnds DEF SignInFails
  <2>2. /\ user'.status = user.status /\ user'.password = user.password
        /\ user'.invite = user.invite
        /\ user'.scoped = user.scoped /\ user'.client = user.client
        /\ user'.failed = serving[h].count
        /\ user'.locked => serving[h].count >= MaxFailed
        /\ UNCHANGED <<mingled, parted, switched>>
    BY <1>7, <1>u DEF SignInFails, UserRow
  <2>3. user.status # "none" /\ serving[h].op = "signIn" /\ ~ serving[h].right
    BY <1>7, <1>t DEF SignInFails, Promises, Known
  <2>4. Known' /\ LockCounts'
    BY <1>t, <2>1, <2>2, <2>3 DEF Promises, Known, LockCounts
  <2>5. ASSUME ~ mingled' PROVE OneSignIn'
    <3>1. /\ serving[h].count = user.failed + 1 /\ misses < MaxMisses
          /\ user.failed <= misses
          /\ \A g \in Handler : g # h => serving[g].op # "signIn"
      BY <1>t, <2>2, <2>3, <2>5 DEF Promises, OneSignIn
    <3>2. misses' = misses + 1
      BY <1>7, <3>1 DEF SignInFails
    <3> QED
      BY <1>u, <2>1, <2>2, <3>1, <3>2 DEF OneSignIn, UserRow
  <2>6. ~ parted' => OneEdit'
    BY <1>t, <2>1, <2>2 DEF Promises, OneEdit
  <2>7. ~ switched' => HasKey'
    BY <1>t, <2>2 DEF Promises, HasKey
  <2> QED
    BY <2>4, <2>5, <2>6, <2>7 DEF Promises
<1>8. ASSUME NEW h \in Handler, SignInSucceeds(h) PROVE Promises'
  <2>1. /\ serving'[h].op = "none"
        /\ \A g \in Handler : g # h => serving'[g] = serving[g]
    BY <1>8, <1>t, CallEnds DEF SignInSucceeds
  <2>2. /\ user'.status = user.status /\ user'.password = user.password
        /\ user'.invite = user.invite
        /\ user'.scoped = user.scoped /\ user'.client = user.client
        /\ user'.failed = 0 /\ user'.locked = FALSE /\ misses' = 0
        /\ UNCHANGED <<mingled, parted, switched>>
    BY <1>8, <1>u DEF SignInSucceeds, UserRow
  <2>3. user.status # "none" /\ serving[h].op = "signIn"
    BY <1>8, <1>t DEF SignInSucceeds, Promises, Known
  <2>4. Known' /\ LockCounts'
    BY <1>t, <2>1, <2>2, <2>3 DEF Promises, Known, LockCounts
  <2>5. ~ mingled' => OneSignIn'
    BY <1>t, <2>1, <2>2, <2>3 DEF Promises, OneSignIn
  <2>6. ~ parted' => OneEdit'
    BY <1>t, <2>1, <2>2 DEF Promises, OneEdit
  <2>7. ~ switched' => HasKey'
    BY <1>t, <2>2 DEF Promises, HasKey
  <2> QED
    BY <2>4, <2>5, <2>6, <2>7 DEF Promises
<1>9. ASSUME NEW h \in Handler, RegisterRead(h) PROVE Promises'
  <2>1. /\ serving'[h] = [op |-> "register"]
        /\ \A g \in Handler : g # h => serving'[g] = serving[g]
    BY <1>9, <1>t, OtherCalls DEF RegisterRead
  <2>2. UNCHANGED <<user, misses, mingled, parted, switched>> /\ user.status = "invited"
    BY <1>9 DEF RegisterRead
  <2> QED
    BY <1>t, <2>1, <2>2 DEF Promises, Known, LockCounts, OneEdit, OneSignIn, HasKey
<1>10. ASSUME NEW h \in Handler, RegisterWrite(h) PROVE Promises'
  <2>1. /\ serving'[h].op = "none"
        /\ \A g \in Handler : g # h => serving'[g] = serving[g]
    BY <1>10, <1>t, CallEnds DEF RegisterWrite
  <2>2. /\ user'.status = "active" /\ user'.password
        /\ user'.scoped = user.scoped /\ user'.client = user.client
        /\ user'.failed = user.failed /\ user'.locked = user.locked
        /\ UNCHANGED <<misses, mingled, parted, switched>>
    BY <1>10, <1>u DEF RegisterWrite, UserRow
  <2> QED
    BY <1>t, <2>1, <2>2 DEF Promises, Known, LockCounts, OneEdit, OneSignIn, HasKey
<1>11. ASSUME NEW h \in Handler, NEW scoped \in Patch, NEW client \in Patch,
              NEW password \in BOOLEAN, UpdateRead(h, scoped, client, password)
       PROVE  Promises'
  <2> DEFINE c == [op |-> "update", scoped |-> scoped, client |-> client, password |-> password]
  <2>0. serving'[h] = c /\ \A g \in Handler : g # h => serving'[g] = serving[g]
    <3>1. serving' = [serving EXCEPT ![h] = c]
      BY <1>11 DEF UpdateRead
    <3> QED
      BY <1>t, <3>1, OtherCalls
  <2>1. /\ serving'[h].op = "update"
        /\ serving'[h].scoped = scoped /\ serving'[h].client = client
        /\ \A g \in Handler : g # h => serving'[g] = serving[g]
    BY <2>0
  <2>2. /\ UNCHANGED <<user, misses, mingled, switched>> /\ user # NoUser
        /\ Patched(user.scoped, scoped) => Patched(user.client, client)
    BY <1>11 DEF UpdateRead
  <2>3. ~ parted' => ~ parted /\ \A g \in Handler : serving[g].op # "update"
    BY <1>11, <1>t DEF UpdateRead, Busy, AccountTypeOK
  <2>4. Known' /\ LockCounts'
    BY <1>t, <2>1, <2>2 DEF Promises, Known, LockCounts
  <2>5. ~ parted' => OneEdit'
    BY <1>t, <2>1, <2>2, <2>3 DEF Promises, OneEdit
  <2>6. ~ mingled' => OneSignIn'
    BY <1>t, <2>1, <2>2 DEF Promises, OneSignIn
  <2> QED
    BY <1>t, <2>2, <2>4, <2>5, <2>6 DEF Promises, HasKey
<1>12. ASSUME NEW h \in Handler, UpdateWrite(h) PROVE Promises'
  <2>1. /\ serving'[h].op = "none"
        /\ \A g \in Handler : g # h => serving'[g] = serving[g]
    BY <1>12, <1>t, CallEnds DEF UpdateWrite
  <2>2. /\ user'.status = user.status /\ (user.password => user'.password)
        /\ user'.invite = user.invite
        /\ user'.scoped = Patched(user.scoped, serving[h].scoped)
        /\ user'.client = Patched(user.client, serving[h].client)
        /\ user'.failed = user.failed /\ user'.locked = user.locked
        /\ UNCHANGED <<misses, mingled, parted, switched>>
    BY <1>12, <1>u DEF UpdateWrite, UserRow
  <2>3. user.status # "none" /\ serving[h].op = "update"
    BY <1>12, <1>t DEF UpdateWrite, Promises, Known
  <2>4. Known' /\ LockCounts'
    BY <1>t, <2>1, <2>2, <2>3 DEF Promises, Known, LockCounts
  <2>5. ~ parted' => OneEdit'
    BY <1>t, <2>1, <2>2, <2>3 DEF Promises, OneEdit
  <2>6. ~ mingled' => OneSignIn'
    BY <1>t, <2>1, <2>2 DEF Promises, OneSignIn
  <2>7. ~ switched' => HasKey'
    BY <1>t, <2>2 DEF Promises, HasKey
  <2> QED
    BY <2>4, <2>5, <2>6, <2>7 DEF Promises
<1>13. ASSUME NEW h \in Handler, AccountFail(h) PROVE Promises'
  BY <1>13, <1>t, EndingKeeps DEF AccountFail
<1> QED
  BY <1>1, <1>2, <1>3, <1>4, <1>5, <1>6, <1>7, <1>8, <1>9, <1>10, <1>11, <1>12, <1>13
  DEF AccountNext

\* The invariant the two theorems below rest on.
THEOREM AccountInvariant == AccountSpec => []IInv
<1>1. IInv /\ [AccountNext]_accountVars => IInv'
  BY TypePreserved, PromisesKept DEF IInv, Promises
<1> QED
  BY StartsRight, <1>1, PTL DEF AccountSpec

\* An edit is checked on the row it read; unless two of them overlap, the row that comes of it
\* has a client if its role needs one.
THEOREM ScopeKept == AccountSpec => []ScopedHasClient
<1>1. IInv => ScopedHasClient
  BY DEF IInv, OneEdit, ScopedHasClient
<1> QED
  BY AccountInvariant, <1>1, PTL

\* No sequence of invitations, sign-ins, edits and suspensions locks the owner out for good.
THEOREM NeverLockedOut == AccountSpec => []WayIn
<1>1. ASSUME IInv PROVE WayIn
  <2>1. user \in UserRow /\ misses \in Nat /\ MaxFailed \in Nat
    BY <1>1, AccountAssumption DEF IInv, AccountTypeOK
  <2>2. user.locked => misses >= MaxFailed \/ mingled
    BY <1>1, <2>1 DEF IInv, LockCounts, OneSignIn, UserRow
  <2> QED
    BY <1>1, <2>2 DEF IInv, HasKey, WayIn
<1> QED
  BY AccountInvariant, <1>1, PTL
================================================================================

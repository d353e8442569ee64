-------------------------------- MODULE Accounts --------------------------------
(***************************************************************************)
(* AuthService and UsersService: one account, from its creation - with a   *)
(* password, or by an invitation whose link lets its owner choose one - to *)
(* the sign-ins, the edits and the suspensions.  Every call reads the row, *)
(* hashes or checks a password, and writes the row by its id: what others  *)
(* write in between is not looked at again.                                *)
(***************************************************************************)
EXTENDS Backend

CONSTANTS MaxFailed,    \* failed sign-ins that lock the account
          MaxMisses     \* bound: failed sign-ins in a row

ASSUME AccountAssumption ==
    /\ MaxFailed \in Nat \ {0}
    /\ MaxMisses \in Nat
    /\ MaxFailed <= MaxMisses

VARIABLES user,         \* the row
          serving,      \* handler -> the call it is serving
          misses,       \* ghost: failed sign-ins since the last that succeeded
          mingled,      \* ghost: two sign-ins were in flight at once
          parted,      \* ghost: two edits were in flight at once
          switched        \* ghost: the status was set while there was no password

accountVars == <<user, serving, misses, mingled, parted, switched>>

UserRow == [status   : {"none", "invited", "active", "suspended"},
            password : BOOLEAN,                     \* passwordHash is set
            invite   : {"none", "live", "expired"},
            scoped   : BOOLEAN,                     \* the role belongs to a client
            client   : BOOLEAN,                     \* clientId is set
            failed   : 0..MaxMisses,
            locked   : BOOLEAN]                     \* lockedUntil is in the future

NoUser == [status |-> "none", password |-> FALSE, invite |-> "none", scoped |-> FALSE,
           client |-> FALSE, failed |-> 0, locked |-> FALSE]

NotServing == [op |-> "none"]

Busy(op) == \E h \in Handler : serving[h].op = op

AccountInit ==
    /\ user = NoUser
    /\ serving = [h \in Handler |-> NotServing]
    /\ misses = 0
    /\ mingled = FALSE /\ parted = FALSE /\ switched = FALSE

Served(h) == serving' = [serving EXCEPT ![h] = NotServing]

-----------------------------------------------------------------------------
(* UsersService.create                                                     *)

\* The address is not taken; a role of a client comes with the client, others may have one.
CreateUser(h, scoped, client) ==
    /\ serving[h] = NotServing
    /\ user = NoUser
    /\ scoped => client
    /\ serving' = [serving EXCEPT ![h] = [op |-> "create", scoped |-> scoped, client |-> client]]
    /\ UNCHANGED <<user, misses, mingled, parted, switched>>

\* By now it may be: the column is unique and the insert fails.
CreateUserInsert(h) ==
    /\ serving[h].op = "create"
    /\ user' = IF user # NoUser THEN user
               ELSE [NoUser EXCEPT !.status   = IF serving[h].scoped THEN "invited" ELSE "active",
                                   !.password = ~serving[h].scoped,
                                   !.invite   = IF serving[h].scoped THEN "live" ELSE "none",
                                   !.scoped   = serving[h].scoped,
                                   !.client   = serving[h].client]
    /\ Served(h)
    /\ UNCHANGED <<misses, mingled, parted, switched>>

-----------------------------------------------------------------------------
(* AuthService.validateUser and login                                      *)

\* Whether the password is right is known after the row was read and before it is written.
SignInRead(h, right) ==
    /\ serving[h] = NotServing
    /\ user.status \notin {"none", "suspended"}
    /\ ~user.locked
    /\ user.password
    /\ ~right => misses < MaxMisses /\ user.failed < MaxMisses
    /\ serving' = [serving EXCEPT ![h] =
         [op |-> "signIn", right |-> right, count |-> user.failed + 1]]
    /\ mingled' = (mingled \/ Busy("signIn"))
    /\ UNCHANGED <<user, misses, parted, switched>>

SignInFails(h) ==
    /\ serving[h].op = "signIn" /\ ~serving[h].right
    /\ user' = [user EXCEPT !.failed = serving[h].count,
                            !.locked = serving[h].count >= MaxFailed]
    /\ misses' = IF misses < MaxMisses THEN misses + 1 ELSE misses
    /\ Served(h)
    /\ UNCHANGED <<mingled, parted, switched>>

\* Mutant: a success leaves the count.
SignInSucceedsKeepsCount(h) ==
    /\ serving[h].op = "signIn" /\ serving[h].right
    /\ user' = [user EXCEPT !.locked = FALSE]
    /\ misses' = 0
    /\ Served(h)
    /\ UNCHANGED <<mingled, parted, switched>>

SignInSucceeds(h) ==
    /\ serving[h].op = "signIn" /\ serving[h].right
    /\ user' = [user EXCEPT !.failed = 0, !.locked = FALSE]
    /\ misses' = 0
    /\ Served(h)
    /\ UNCHANGED <<mingled, parted, switched>>

\* LOCK_DURATION_MS later; the count stays, so that the next failure locks again.
LockEnds ==
    /\ user.locked
    /\ user' = [user EXCEPT !.locked = FALSE]
    /\ UNCHANGED <<serving, misses, mingled, parted, switched>>

-----------------------------------------------------------------------------
(* AuthService.register                                                    *)

RegisterRead(h) ==
    /\ serving[h] = NotServing
    /\ user.status = "invited"
    /\ user.invite = "live"
    /\ serving' = [serving EXCEPT ![h] = [op |-> "register"]]
    /\ UNCHANGED <<user, misses, mingled, parted, switched>>

RegisterWrite(h) ==
    /\ serving[h].op = "register"
    /\ user' = [user EXCEPT !.password = TRUE, !.status = "active", !.invite = "none"]
    /\ Served(h)
    /\ UNCHANGED <<misses, mingled, parted, switched>>

InviteEnds ==
    /\ user.invite = "live"
    /\ user' = [user EXCEPT !.invite = "expired"]
    /\ UNCHANGED <<serving, misses, mingled, parted, switched>>

-----------------------------------------------------------------------------
(* UsersService.setStatus and update                                       *)

\* An edit may name the status too.
SetStatus(status) ==
    /\ user # NoUser
    /\ user' = [user EXCEPT !.status = status]
    /\ switched' = (switched \/ ~user.password)
    /\ UNCHANGED <<serving, misses, mingled, parted>>

\* A field an edit does not name is left as it is.
Patched(old, new) == IF new = "same" THEN old ELSE new = "yes"

\* Mutant: what the request names is checked, and not what the row will be.
UpdateReadNamed(h, scoped, client, password) ==
    /\ serving[h] = NotServing
    /\ user # NoUser
    /\ scoped = "yes" => client # "no"
    /\ serving' = [serving EXCEPT ![h] =
         [op |-> "update", scoped |-> scoped, client |-> client, password |-> password]]
    /\ parted' = (parted \/ Busy("update"))
    /\ UNCHANGED <<user, misses, mingled, switched>>

\* The role and the client are checked as they would be after the edit.
UpdateRead(h, scoped, client, password) ==
    /\ serving[h] = NotServing
    /\ user # NoUser
    /\ Patched(user.scoped, scoped) => Patched(user.client, client)
    /\ serving' = [serving EXCEPT ![h] =
         [op |-> "update", scoped |-> scoped, client |-> client, password |-> password]]
    /\ parted' = (parted \/ Busy("update"))
    /\ UNCHANGED <<user, misses, mingled, switched>>

UpdateWrite(h) ==
    /\ serving[h].op = "update"
    /\ user' = [user EXCEPT !.scoped   = Patched(user.scoped, serving[h].scoped),
                            !.client   = Patched(user.client, serving[h].client),
                            !.password = user.password \/ serving[h].password]
    /\ Served(h)
    /\ UNCHANGED <<misses, mingled, parted, switched>>

\* A statement fails, or the process: every call writes once, or not at all.
AccountFail(h) ==
    /\ serving[h] # NotServing
    /\ Served(h)
    /\ UNCHANGED <<user, misses, mingled, parted, switched>>

Patch == {"same", "yes", "no"}

AccountNext ==
    \/ LockEnds
    \/ InviteEnds
    \/ \E status \in {"active", "suspended"} : SetStatus(status)
    \/ \E h \in Handler :
         \/ \E scoped, client \in BOOLEAN : CreateUser(h, scoped, client)
         \/ CreateUserInsert(h)
         \/ \E right \in BOOLEAN : SignInRead(h, right)
         \/ SignInFails(h)
         \/ SignInSucceeds(h)
         \/ RegisterRead(h)
         \/ RegisterWrite(h)
         \/ \E scoped, client \in Patch, password \in BOOLEAN :
              UpdateRead(h, scoped, client, password)
         \/ UpdateWrite(h)
         \/ AccountFail(h)

AccountSpec == AccountInit /\ [][AccountNext]_accountVars

-----------------------------------------------------------------------------
AccountTypeOK ==
    /\ user \in UserRow
    /\ serving \in [Handler ->
         {NotServing} \cup [op : {"create"}, scoped : BOOLEAN, client : BOOLEAN]
           \cup [op : {"signIn"}, right : BOOLEAN, count : 1..MaxMisses + 1]
           \cup [op : {"register"}]
           \cup [op : {"update"}, scoped : Patch, client : Patch, password : BOOLEAN]]
    /\ misses \in 0..MaxMisses
    /\ mingled \in BOOLEAN /\ parted \in BOOLEAN /\ switched \in BOOLEAN

\* A role that belongs to a client has its client, although update is sent any part of the two;
\* only edits that overlap, each checked on the row before the other, can part them.
ScopedHasClient == (user.scoped => user.client) \/ parted

\* The owner of an account that is not suspended has a way in: the invitation, or the password
\* unless the last sign-ins, as many as lock it, all failed.  A status set before the owner
\* registered spends the invitation, and sign-ins that overlap write back old counts.
WayIn ==
    user.status \in {"invited", "active"} =>
        \/ user.password /\ (user.locked => misses >= MaxFailed \/ mingled)
        \/ user.status = "invited" /\ user.invite # "none"
        \/ switched
================================================================================

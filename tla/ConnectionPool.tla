----------------------------- MODULE ConnectionPool -----------------------------
(***************************************************************************)
(* Prisma's connection pool under the handlers that post charges.  An      *)
(* interactive transaction holds a connection until it ends; the ledger    *)
(* and the audit log are not given the transaction, so that every row they *)
(* write takes a second connection for a moment.                           *)
(***************************************************************************)
EXTENDS Backend, FiniteSetsExt

CONSTANTS PoolSizes,    \* connection_limit of the database URL: what it may be
          Posts,        \* rows a handler posts inside its transaction
          MaxRequests   \* bound: requests begun

ASSUME PoolAssumption ==
    /\ PoolSizes \subseteq Nat \ {0}
    /\ Posts \in Nat
    /\ MaxRequests \in Nat

VARIABLES poolSize,     \* connection_limit, from PoolSizes; never changes
          request,      \* handler -> what it is doing
          begun,        \* requests begun
          timedOut      \* requests that gave up waiting

poolVars == <<poolSize, request, begun, timedOut>>

\* "begin": waits for the transaction's connection; "open": has it; "borrow": waits
\* for a second one; "post": writes a row on the second. held: the connections it has.
RequestRecord == [at : {"idle", "begin", "open", "borrow", "post"}, todo : 0..Posts,
                  held : Nat]

NoRequest == [at |-> "idle", todo |-> 0, held |-> 0]

InUse == MapThenSumSet(LAMBDA h : request[h].held, Handler)

Spare == InUse < poolSize

PoolInit ==
    /\ poolSize \in PoolSizes
    /\ request = [h \in Handler |-> NoRequest]
    /\ begun = 0
    /\ timedOut = 0

BeginRequest(h) ==
    /\ request[h] = NoRequest
    /\ begun < MaxRequests
    /\ begun' = begun + 1
    /\ request' = [request EXCEPT ![h] = [at |-> "begin", todo |-> Posts, held |-> 0]]
    /\ UNCHANGED <<poolSize, timedOut>>

BeginTransaction(h) ==
    /\ request[h].at = "begin"
    /\ Spare
    /\ request' = [request EXCEPT ![h].at = "open", ![h].held = 1]
    /\ UNCHANGED <<poolSize, begun, timedOut>>

AskForConnection(h) ==
    /\ request[h].at = "open"
    /\ request[h].todo > 0
    /\ request' = [request EXCEPT ![h].at = "borrow"]
    /\ UNCHANGED <<poolSize, begun, timedOut>>

PostOnSecond(h) ==
    /\ request[h].at = "borrow"
    /\ Spare
    /\ request' = [request EXCEPT ![h].at = "post", ![h].held = request[h].held + 1]
    /\ UNCHANGED <<poolSize, begun, timedOut>>

\* Mutant: the row is written in a transaction of its own, whose connection is kept until the
\* transaction of the request ends.
GiveBackLate(h) ==
    /\ request[h].at = "post"
    /\ request' = [request EXCEPT ![h].at = "open", ![h].todo = request[h].todo - 1]
    /\ UNCHANGED <<poolSize, begun, timedOut>>

GiveBack(h) ==
    /\ request[h].at = "post"
    /\ request' = [request EXCEPT ![h].at = "open", ![h].todo = request[h].todo - 1,
                                  ![h].held = request[h].held - 1]
    /\ UNCHANGED <<poolSize, begun, timedOut>>

CommitAll(h) ==
    /\ request[h].at = "open"
    /\ request[h].todo = 0
    /\ request' = [request EXCEPT ![h] = NoRequest]
    /\ UNCHANGED <<poolSize, begun, timedOut>>

\* A request that finds no connection gives up (maxWait, the transaction's timeout,
\* the pool's) and its transaction is rolled back.
TimeOut(h) ==
    /\ request[h].at \in {"begin", "borrow"}
    /\ ~ Spare
    /\ request' = [request EXCEPT ![h] = NoRequest]
    /\ timedOut' = timedOut + 1
    /\ UNCHANGED <<poolSize, begun>>

PoolNext ==
    \E h \in Handler : \/ BeginRequest(h)
                       \/ BeginTransaction(h)
                       \/ AskForConnection(h)
                       \/ PostOnSecond(h)
                       \/ GiveBack(h)
                       \/ CommitAll(h)
                       \/ TimeOut(h)

\* A handler that can go on does.  Nothing makes a wait end in a timeout: what the timeouts would
\* clear up is not taken for progress.
PoolFairness ==
    \A h \in Handler :
      WF_poolVars(BeginTransaction(h) \/ AskForConnection(h) \/ PostOnSecond(h)
                    \/ GiveBack(h) \/ CommitAll(h))

PoolSpec == PoolInit /\ [][PoolNext]_poolVars /\ PoolFairness

(***************************************************************************)
(* Properties                                                              *)
(***************************************************************************)
PoolTypeOK ==
    /\ poolSize \in PoolSizes
    /\ request \in [Handler -> RequestRecord]
    /\ begun \in 0..MaxRequests
    /\ timedOut \in 0..begun
    /\ InUse <= poolSize

\* One connection more than there are requests at a time is enough: whatever connections they
\* hold and wait for, every request ends without the help of a timeout, because a row gives its
\* connection back before the next one asks.  With a smaller pool each may hold the connection
\* another waits for.
PoolSuffices ==
    poolSize > Cardinality(Handler) =>
        \A h \in Handler : (request[h] # NoRequest) ~> (request[h] = NoRequest)
================================================================================

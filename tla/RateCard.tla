-------------------------------- MODULE RateCard --------------------------------
(***************************************************************************)
(* RateCardService: the versions of one rate code.  create looks for an    *)
(* open version, ends it where the new one begins and inserts the new one, *)
(* in three statements; findEffectiveAt answers what a service charges.    *)
(***************************************************************************)
EXTENDS Backend

CONSTANTS FirstDay,     \* days are numbers; the seed's version begins here
          LastDay,      \* bound: the last day a version may begin
          Version,      \* ids the rate_card_items table may hand out
          Seeded,       \* the version the seed installs
          NoVersion

ASSUME RateCardAssumption ==
    /\ FirstDay \in Nat
    /\ LastDay \in Nat
    /\ FirstDay <= LastDay
    /\ Seeded \in Version
    /\ NoVersion \notin Version

Day == FirstDay..LastDay

Open == LastDay + 1     \* effectiveTo = null: later than every day

VARIABLES card,         \* rate_card_items, by id
          creating,     \* handler -> the create it is serving
          lost          \* creates that failed

rateVars == <<card, creating, lost>>

Row == [stored : BOOLEAN, from : Day, to : Day \cup {Open}]

Absent == [stored |-> FALSE, from |-> FirstDay, to |-> FirstDay]

OpenFrom(d) == [stored |-> TRUE, from |-> d, to |-> Open]

CreateCall == [at : {"idle", "close", "insert"}, from : Day, previous : Version \cup {NoVersion}]

NotCreating == [at |-> "idle", from |-> FirstDay, previous |-> NoVersion]

OpenVersions == {v \in Version : card[v].to = Open}

RateInit ==
    /\ card = [v \in Version |-> IF v = Seeded THEN OpenFrom(FirstDay) ELSE Absent]
    /\ creating = [h \in Handler |-> NotCreating]
    /\ lost = 0

(***************************************************************************)
(* findEffectiveAt: of the versions in force on that day the one that      *)
(* begins last; none makes the caller charge nothing.                      *)
(***************************************************************************)
Covers(v, d) == card[v].stored /\ card[v].from <= d /\ d < card[v].to

EffectiveAt(d) ==
    {v \in Version : /\ Covers(v, d)
                     /\ \A w \in Version : Covers(w, d) => card[w].from <= card[v].from}

(***************************************************************************)
(* create                                                                  *)
(***************************************************************************)
\* findFirst returns any open version, or none.
RateFind(h, d) ==
    /\ creating[h] = NotCreating
    /\ Cardinality({v \in Version : card[v] = Absent})
         > Cardinality({g \in Handler : creating[g] # NotCreating})
    /\ IF OpenVersions = {}
       THEN creating' = [creating EXCEPT ![h] =
              [at |-> "insert", from |-> d, previous |-> NoVersion]]
       ELSE \E v \in OpenVersions :
              creating' = [creating EXCEPT ![h] = [at |-> "close", from |-> d, previous |-> v]]
    /\ UNCHANGED <<card, lost>>

\* Mutant: the previous version ends the day before.
RateCloseEarly(h) ==
    /\ creating[h].at = "close"
    /\ card' = [card EXCEPT ![creating[h].previous].to = creating[h].from - 1]
    /\ creating' = [creating EXCEPT ![h].at = "insert"]
    /\ UNCHANGED lost

\* The version found ends where the new one begins, wherever it ends by now.
RateClose(h) ==
    /\ creating[h].at = "close"
    /\ card' = [card EXCEPT ![creating[h].previous].to = creating[h].from]
    /\ creating' = [creating EXCEPT ![h].at = "insert"]
    /\ UNCHANGED lost

RateInsert(h) ==
    /\ creating[h].at = "insert"
    /\ \E v \in Version :
         /\ card[v] = Absent
         /\ card' = [card EXCEPT ![v] = OpenFrom(creating[h].from)]
    /\ creating' = [creating EXCEPT ![h] = NotCreating]
    /\ UNCHANGED lost

RateFail(h) ==
    /\ creating[h] # NotCreating
    /\ lost < MaxFailures
    /\ lost' = lost + 1
    /\ creating' = [creating EXCEPT ![h] = NotCreating]
    /\ UNCHANGED card

RateNext ==
    \E h \in Handler : \/ \E d \in Day : RateFind(h, d)
                       \/ RateClose(h)
                       \/ RateInsert(h)
                       \/ RateFail(h)

RateSpec == RateInit /\ [][RateNext]_rateVars

(***************************************************************************)
(* Properties                                                              *)
(***************************************************************************)
RateTypeOK ==
    /\ card \in [Version -> Row]
    /\ creating \in [Handler -> CreateCall]
    /\ lost \in 0..MaxFailures

NoneCreating == \A h \in Handler : creating[h] = NotCreating

\* When no create is under way and none has failed, every day since the first has
\* a rate, even if creates overlapped and versions were entered for the past.
AlwaysARate == NoneCreating /\ lost = 0 => \A d \in Day : EffectiveAt(d) # {}
================================================================================

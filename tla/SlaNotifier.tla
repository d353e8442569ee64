------------------------------- MODULE SlaNotifier -------------------------------
(***************************************************************************)
(* InspectionsScheduler and findAndNotifyBreachedInspections: every fifteen*)
(* minutes a sweep looks for inspections past their SLA target that nobody *)
(* was told of, mails every recipient and then marks the inspection.  A    *)
(* sweep does not wait for the one before it; mail.send never throws, so a *)
(* mail that is refused is lost.                                           *)
(***************************************************************************)
EXTENDS Backend

CONSTANTS Inspection,
          Recipient,    \* SLA_BREACH_RECIPIENTS
          MaxMails,     \* bound: mails sent about one inspection to one recipient
          MaxLost       \* bound: mails refused by the mail service

ASSUME SlaAssumption == MaxMails \in Nat /\ MaxLost \in Nat

VARIABLES running,      \* inspections in progress
          overdue,      \* those whose SLA target has passed
          notified,     \* those with slaBreachNotifiedAt set
          mails,        \* inspection -> recipient -> mails handed to the service
          refused,      \* mails the service refused
          sweep,        \* handler -> the sweep in progress
          stopped       \* sweeps that ended in an error

slaVars == <<running, overdue, notified, mails, refused, sweep, stopped>>

\* left: inspections found and not yet marked; on: the one being mailed, at most
\* one; to: the recipients that have not been mailed about it.
SweepRecord == [at : {"idle", "next", "mail"}, left : SUBSET Inspection,
                on : SUBSET Inspection, to : SUBSET Recipient]

Asleep == [at |-> "idle", left |-> {}, on |-> {}, to |-> {}]

SlaInit ==
    /\ running = Inspection
    /\ overdue = {}
    /\ notified = {}
    /\ mails = [i \in Inspection |-> [r \in Recipient |-> 0]]
    /\ refused = 0
    /\ sweep = [h \in Handler |-> Asleep]
    /\ stopped = 0

Breach(i) ==
    /\ i \notin overdue
    /\ overdue' = overdue \cup {i}
    /\ UNCHANGED <<running, notified, mails, refused, sweep, stopped>>

\* complete or cancel
Close(i) ==
    /\ i \in running
    /\ running' = running \ {i}
    /\ UNCHANGED <<overdue, notified, mails, refused, sweep, stopped>>

Due == (running \cap overdue) \ notified

SweepStart(h) ==
    /\ sweep[h] = Asleep
    /\ Due # {}
    /\ sweep' = [sweep EXCEPT ![h] = [Asleep EXCEPT !.at = "next", !.left = Due]]
    /\ UNCHANGED <<running, overdue, notified, mails, refused, stopped>>

SweepNext(h) ==
    /\ sweep[h].at = "next"
    /\ IF sweep[h].left = {}
       THEN sweep' = [sweep EXCEPT ![h] = Asleep]
       ELSE \E i \in sweep[h].left :
              sweep' = [sweep EXCEPT ![h] =
                [at |-> "mail", left |-> sweep[h].left \ {i}, on |-> {i}, to |-> Recipient]]
    /\ UNCHANGED <<running, overdue, notified, mails, refused, stopped>>

SweepMail(h, r) ==
    /\ sweep[h].at = "mail"
    /\ r \in sweep[h].to
    /\ \E i \in sweep[h].on :
         /\ mails[i][r] < MaxMails
         /\ mails' = [mails EXCEPT ![i][r] = mails[i][r] + 1]
    /\ sweep' = [sweep EXCEPT ![h].to = sweep[h].to \ {r}]
    /\ UNCHANGED <<running, overdue, notified, refused, stopped>>

\* The mail service answers with an error: send logs it and returns.
SweepMailRefused(h, r) ==
    /\ sweep[h].at = "mail"
    /\ r \in sweep[h].to
    /\ refused < MaxLost
    /\ refused' = refused + 1
    /\ sweep' = [sweep EXCEPT ![h].to = sweep[h].to \ {r}]
    /\ UNCHANGED <<running, overdue, notified, mails, stopped>>

\* Mutant: the inspection is marked before everybody has been mailed.
SweepMarkFirst(h) ==
    /\ sweep[h].at = "mail"
    /\ notified' = notified \cup sweep[h].on
    /\ sweep' = [sweep EXCEPT ![h].at = "next", ![h].on = {}, ![h].to = {}]
    /\ UNCHANGED <<running, overdue, mails, refused, stopped>>

\* Mutant: the mark is written to the inspections of the next sweep only.
SweepMarkNever(h) ==
    /\ sweep[h].at = "mail"
    /\ sweep[h].to = {}
    /\ sweep' = [sweep EXCEPT ![h].at = "next", ![h].on = {}]
    /\ UNCHANGED <<running, overdue, notified, mails, refused, stopped>>

\* The mark is written by id, whatever became of the inspection meanwhile.
SweepMark(h) ==
    /\ sweep[h].at = "mail"
    /\ sweep[h].to = {}
    /\ notified' = notified \cup sweep[h].on
    /\ sweep' = [sweep EXCEPT ![h].at = "next", ![h].on = {}]
    /\ UNCHANGED <<running, overdue, mails, refused, stopped>>

\* A query fails or the process dies: the next tick starts over.
SweepFail(h) ==
    /\ sweep[h] # Asleep
    /\ stopped < MaxFailures
    /\ stopped' = stopped + 1
    /\ sweep' = [sweep EXCEPT ![h] = Asleep]
    /\ UNCHANGED <<running, overdue, notified, mails, refused>>

SlaNext ==
    \/ \E i \in Inspection : Breach(i) \/ Close(i)
    \/ \E h \in Handler :
         \/ SweepStart(h)
         \/ SweepNext(h)
         \/ \E r \in Recipient : SweepMail(h, r) \/ SweepMailRefused(h, r)
         \/ SweepMark(h)
         \/ SweepFail(h)

\* The cron job keeps ticking, and a sweep that has started goes on.
SlaFairness ==
    \A h \in Handler :
      WF_slaVars(SweepStart(h) \/ SweepNext(h) \/ (\E r \in Recipient : SweepMail(h, r))
                   \/ SweepMark(h))

SlaSpec == SlaInit /\ [][SlaNext]_slaVars /\ SlaFairness

(***************************************************************************)
(* Properties                                                              *)
(***************************************************************************)
SlaTypeOK ==
    /\ running \subseteq Inspection
    /\ overdue \subseteq Inspection
    /\ notified \subseteq Inspection
    /\ mails \in [Inspection -> [Recipient -> 0..MaxMails]]
    /\ refused \in 0..MaxLost
    /\ sweep \in [Handler -> SweepRecord]
    /\ stopped \in 0..MaxFailures

\* An inspection is only marked when its mails have gone out, refused ones apart:
\* however sweeps overlap or fail, no breach is passed over in silence.
MarkedMeansMailed ==
    refused = 0 => \A i \in notified, r \in Recipient : mails[i][r] >= 1

\* A breach is reported sooner or later, unless the inspection ends before.
BreachIsReported == \A i \in Inspection : (i \in Due) ~> (i \notin Due)
================================================================================

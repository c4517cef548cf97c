----------------------------- MODULE UsageReporter -----------------------------
(***************************************************************************)
(* apps/api billing/usage-reporter.ts: the usage of one user in one month, *)
(* pushed to Stripe.                                                       *)
(*                                                                         *)
(* A report reads the totals of all types, then goes through the types: it *)
(* reads the quantity reported so far, pushes the difference and writes    *)
(* the total it read.  Nothing keeps the nightly run and an                *)
(* administrator's apart, and the push and the write are two calls.        *)
(***************************************************************************)
EXTENDS Naturals, Sequences

CONSTANTS Reporters,
          Types,    \* USAGE_EVENT_TYPES with a price on the subscription
          MaxUsage, \* bound: units of usage of a type
          MaxReportFaults  \* bound: lost answers, failed writes and crashes

ASSUME ReporterAssumption ==
  /\ Types \in Seq(STRING) \ {<<>>}
  /\ MaxUsage \in Nat /\ MaxReportFaults \in Nat

VARIABLES
  billable, \* the subscription's row is there and not canceled
  usage,    \* usage_events: the sum of each type
  reported, \* usage_reports: the quantity of each type's row, or NoRow
  pushed,   \* Stripe: the sum of the usage records of each type
  reports,  \* the reports that run
  reportFaults, \* faults that happened
  doubtful  \* history: types that two reports worked on at a time, or whose
            \* push was not written down

reporterVars == <<billable, usage, reported, pushed, reports, reportFaults, doubtful>>

-------------------------------------------------------------------------------
Priced == {Types[i] : i \in DOMAIN Types}

NoRow == MaxUsage + 1

Quantity(row) == IF row = NoRow THEN 0 ELSE row

(* type: the place in Types; read: the row found before the push. *)
Waiting ==
  [stage |-> "idle", type |-> 0, totals |-> [t \in Priced |-> 0], read |-> 0]

ReporterInit ==
  /\ billable = FALSE
  /\ usage = [t \in Priced |-> 0]
  /\ reported = [t \in Priced |-> NoRow]
  /\ pushed = [t \in Priced |-> 0]
  /\ reports = [r \in Reporters |-> Waiting]
  /\ reportFaults = 0
  /\ doubtful = {}

Type(r) == Types[reports[r].type]

Total(r) == reports[r].totals[Type(r)]

(* The next type's turn, or the end of the report. *)
Proceed(r) ==
  reports' = [reports EXCEPT ![r] =
    IF reports[r].type = Len(Types) THEN Waiting
      ELSE [reports[r] EXCEPT !.stage = "read", !.type = @ + 1, !.read = 0]]

-------------------------------------------------------------------------------
(* A webhook creates, cancels or revives the subscription's row. *)
SubscriptionChanges ==
  /\ billable' = ~billable
  /\ UNCHANGED <<usage, reported, pushed, reports, reportFaults, doubtful>>

RecordUsage(t) ==
  /\ usage[t] < MaxUsage
  /\ usage' = [usage EXCEPT ![t] = @ + 1]
  /\ UNCHANGED <<billable, reported, pushed, reports, reportFaults, doubtful>>

(* resolveSubscription and getLocalMonthTotals. *)
Report(r) ==
  /\ reports[r].stage = "idle"
  /\ billable
  /\ reports' = [reports EXCEPT ![r] =
                   [stage |-> "read", type |-> 1, totals |-> usage, read |-> 0]]
  /\ doubtful' = IF \E q \in Reporters : reports[q].stage # "idle"
                   THEN Priced ELSE doubtful
  /\ UNCHANGED <<billable, usage, reported, pushed, reportFaults>>

(* getReportedRow: without a positive delta there is nothing to push. *)
ReadReported(r) ==
  /\ reports[r].stage = "read"
  /\ IF Total(r) > Quantity(reported[Type(r)])
       THEN reports' = [reports EXCEPT ![r].stage = "push",
                                       ![r].read = reported[Type(r)]]
       ELSE Proceed(r)
  /\ UNCHANGED <<billable, usage, reported, pushed, reportFaults, doubtful>>

(* Mutant: the total is pushed as if it were the increment. *)
DeltaIsTotal(r) == Total(r)

Delta(r) == Total(r) - Quantity(reports[r].read)

Push(r) ==
  /\ reports[r].stage = "push"
  /\ pushed' = [pushed EXCEPT ![Type(r)] = @ + Delta(r)]
  /\ reports' = [reports EXCEPT ![r].stage = "write"]
  /\ UNCHANGED <<billable, usage, reported, reportFaults, doubtful>>

(* Mutant: a push that was refused is written down all the same. *)
PushRefusedUnseen(r) ==
  /\ reports[r].stage = "push"
  /\ reports' = [reports EXCEPT ![r].stage = "write"]
  /\ UNCHANGED <<billable, usage, reported, pushed, reportFaults, doubtful>>

PushRefused(r) ==
  /\ reports[r].stage = "push"
  /\ Proceed(r)
  /\ UNCHANGED <<billable, usage, reported, pushed, reportFaults, doubtful>>

(* The row found before the push is updated; where none was found one is    *)
(* inserted, which the unique index of the table refuses if there is one by *)
(* now.                                                                     *)
WriteReported(r) ==
  /\ reports[r].stage = "write"
  /\ reported' = IF reports[r].read = NoRow /\ reported[Type(r)] # NoRow
                   THEN reported
                   ELSE [reported EXCEPT ![Type(r)] = Total(r)]
  /\ Proceed(r)
  /\ UNCHANGED <<billable, usage, pushed, reportFaults, doubtful>>

ReportFault == reportFaults < MaxReportFaults /\ reportFaults' = reportFaults + 1

(* A push is applied and its answer lost, or its total cannot be written.   *)
Unwritten(r) ==
  /\ ReportFault
  /\ reports[r].stage \in {"push", "write"}
  /\ pushed' = IF reports[r].stage = "push"
                 THEN [pushed EXCEPT ![Type(r)] = @ + Delta(r)] ELSE pushed
  /\ doubtful' = doubtful \cup {Type(r)}
  /\ Proceed(r)
  /\ UNCHANGED <<billable, usage, reported>>

(* The row cannot be read, which ends the report: only the push and the     *)
(* write are guarded.                                                       *)
ReadFails(r) ==
  /\ ReportFault
  /\ reports[r].stage = "read"
  /\ reports' = [reports EXCEPT ![r] = Waiting]
  /\ UNCHANGED <<billable, usage, reported, pushed, doubtful>>

(* The process ends, and with it every report. *)
Crash ==
  /\ ReportFault
  /\ reports' = [r \in Reporters |-> Waiting]
  /\ doubtful' = doubtful \cup {Type(r) : r \in {q \in Reporters :
                                                   reports[q].stage = "write"}}
  /\ UNCHANGED <<billable, usage, reported, pushed>>

ReportStep(r) ==
  \/ ReadReported(r) \/ Push(r) \/ PushRefused(r) \/ WriteReported(r)

ReporterNext ==
  \/ SubscriptionChanges \/ Crash
  \/ \E t \in Priced : RecordUsage(t)
  \/ \E r \in Reporters : Report(r) \/ ReportStep(r) \/ Unwritten(r) \/ ReadFails(r)

ReporterSpec == ReporterInit /\ [][ReporterNext]_reporterVars

-------------------------------------------------------------------------------
ReporterTypeOK ==
  /\ billable \in BOOLEAN
  /\ usage \in [Priced -> 0..MaxUsage]
  /\ reported \in [Priced -> 0..NoRow]
  /\ pushed \in [Priced -> Nat]
  /\ reports \in [Reporters ->
       [stage: {"idle", "read", "push", "write"}, type: 0..Len(Types),
        totals: [Priced -> 0..MaxUsage], read: 0..NoRow]]
  /\ reportFaults \in 0..MaxReportFaults
  /\ doubtful \subseteq Priced

(* What is marked as reported was pushed, through overlaps that write back  *)
(* an older total, refused pushes, lost answers and crashes: the reporter   *)
(* may count usage twice, it never drops any (usage-reporter.ts 238-305).   *)
NothingUnpushed == \A t \in Priced : Quantity(reported[t]) <= pushed[t]

(* Stripe is told of no more usage than there was, and nothing is pushed    *)
(* twice, unless two reports overlapped or a push could not be written down *)
(* (usage-reporter.ts 11-22, 238-305).                                      *)
NeverOvercounted == \A t \in Priced : pushed[t] <= usage[t] \/ t \in doubtful
===============================================================================

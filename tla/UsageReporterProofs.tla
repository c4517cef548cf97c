-------------------------- MODULE UsageReporterProofs --------------------------
(***************************************************************************)
(* What holds of UsageReporter for every number of reports, list of types, *)
(* amount of usage and number of faults.                                   *)
(***************************************************************************)
EXTENDS UsageReporter, SequenceTheorems, TLAPS

-------------------------------------------------------------------------------
(* A report that runs is at one of the types. *)
AtAType ==
  \A r \in Reporters : reports[r].stage # "idle" => reports[r].type \in DOMAIN Types

(***************************************************************************)
(* The strengthening: what a report is about to write down was pushed.     *)
(* Before its push it only knows that the row it found was, which is what  *)
(* makes the increment reach the total whatever was pushed meanwhile.      *)
(***************************************************************************)
Backed(r) ==
  LET q == reports[r] IN
  /\ q.stage = "push" =>
       /\ Total(r) > Quantity(q.read)
       /\ Quantity(q.read) <= pushed[Type(r)]
  /\ q.stage = "write" => Total(r) <= pushed[Type(r)]

IInv == ReporterTypeOK /\ AtAType /\ NothingUnpushed /\ \A r \in Reporters : Backed(r)

-------------------------------------------------------------------------------
LEMMA Bounds ==
  /\ Len(Types) \in Nat /\ Len(Types) > 0 /\ DOMAIN Types = 1..Len(Types)
  /\ MaxUsage \in Nat /\ MaxReportFaults \in Nat
  /\ NoRow \in Nat /\ NoRow = MaxUsage + 1
  /\ \A i \in DOMAIN Types : Types[i] \in Priced
<1>1. Types \in Seq(STRING) /\ Types # <<>> /\ MaxUsage \in Nat /\ MaxReportFaults \in Nat
  BY ReporterAssumption
<1>2. Len(Types) \in Nat /\ Len(Types) > 0 /\ DOMAIN Types = 1..Len(Types)
  BY <1>1, EmptySeq, LenProperties
<1> QED BY <1>1, <1>2 DEF NoRow, Priced

LEMMA QuantityBound ==
  ASSUME NEW row \in 0..NoRow
  PROVE  Quantity(row) \in 0..MaxUsage
BY Bounds DEF Quantity

Records ==
  [stage: {"idle", "read", "push", "write"}, type: 0..Len(Types),
   totals: [Priced -> 0..MaxUsage], read: 0..NoRow]

LEMMA WaitingType == Waiting \in Records /\ Waiting.stage = "idle"
BY Bounds DEF Waiting, Records

LEMMA NextTurn ==
  ASSUME NEW q \in Records, q.type + 1 \in 0..Len(Types), 0 \in 0..NoRow
  PROVE  LET next == [q EXCEPT !.stage = "read", !.type = @ + 1, !.read = 0]
         IN  next \in Records /\ next.stage = "read" /\ next.type = q.type + 1
BY DEF Records

(* The next turn: the report waits, or reads at a type of the list. *)
LEMMA ProceedProperties ==
  ASSUME IInv, NEW r \in Reporters, reports[r].stage # "idle", Proceed(r)
  PROVE  /\ reports' \in [Reporters -> Records]
         /\ \A q \in Reporters \ {r} : reports'[q] = reports[q]
         /\ reports'[r].stage \in {"idle", "read"}
         /\ reports'[r].stage # "idle" => reports'[r].type \in DOMAIN Types
<1>1. reports \in [Reporters -> Records] /\ reports[r] \in Records
  BY DEF IInv, ReporterTypeOK, Records
<1>2. CASE reports[r].type = Len(Types)
  BY <1>1, <1>2, WaitingType DEF Proceed
<1>3. CASE reports[r].type # Len(Types)
  <2> DEFINE next == [reports[r] EXCEPT !.stage = "read", !.type = @ + 1, !.read = 0]
  <2>1. reports[r].type \in 1..Len(Types) /\ reports[r].type < Len(Types)
    BY <1>3, Bounds DEF IInv, AtAType
  <2>2. next \in Records /\ next.stage = "read" /\ next.type \in DOMAIN Types
    <3>1. /\ reports[r].type + 1 \in 0..Len(Types) /\ reports[r].type + 1 \in DOMAIN Types
          /\ 0 \in 0..NoRow
      BY <2>1, Bounds
    <3> QED BY <1>1, <3>1, NextTurn
  <2>3. reports' = [reports EXCEPT ![r] = next]
    BY <1>3 DEF Proceed
  <2> HIDE DEF next
  <2> QED BY <1>1, <2>2, <2>3
<1> QED BY <1>2, <1>3

(* Where a report stands: its total, its type and what it read. *)
LEMMA ReportFacts ==
  ASSUME IInv, NEW r \in Reporters
  PROVE  /\ reports \in [Reporters -> Records] /\ reports[r] \in Records
         /\ Quantity(reports[r].read) \in 0..MaxUsage
         /\ reports[r].stage # "idle" =>
              /\ Type(r) \in Priced
              /\ Total(r) \in 0..MaxUsage
              /\ pushed[Type(r)] \in Nat
              /\ reported[Type(r)] \in 0..NoRow
              /\ Quantity(reported[Type(r)]) \in 0..MaxUsage
<1>1. reports \in [Reporters -> Records] /\ reports[r] \in Records
  BY DEF IInv, ReporterTypeOK, Records
<1>2. Quantity(reports[r].read) \in 0..MaxUsage
  BY <1>1, QuantityBound DEF Records
<1>3. ASSUME reports[r].stage # "idle"
      PROVE  /\ Type(r) \in Priced
             /\ Total(r) \in 0..MaxUsage
             /\ pushed[Type(r)] \in Nat
             /\ reported[Type(r)] \in 0..NoRow
  BY <1>1, <1>3, Bounds DEF IInv, ReporterTypeOK, AtAType, Type, Total, Records
<1> QED BY <1>1, <1>2, <1>3, QuantityBound

(***************************************************************************)
(* A step that takes no push back and leaves a report as it was leaves it  *)
(* backed.                                                                 *)
(***************************************************************************)
LEMMA StillBacked ==
  ASSUME IInv, NEW r \in Reporters, reports'[r] = reports[r],
         pushed' \in [Priced -> Nat], \A t \in Priced : pushed'[t] >= pushed[t]
  PROVE  Backed(r)'
<1>1. CASE reports[r].stage \in {"push", "write"}
  <2>1. /\ Type(r) \in Priced /\ Total(r) \in 0..MaxUsage /\ pushed[Type(r)] \in Nat
        /\ Quantity(reports[r].read) \in 0..MaxUsage
    BY <1>1, ReportFacts
  <2>2. Type(r)' = Type(r) /\ Total(r)' = Total(r)
    BY DEF Type, Total
  <2>3. /\ pushed'[Type(r)] >= pushed[Type(r)] /\ pushed'[Type(r)] \in Nat
        /\ pushed[Type(r)]' = pushed'[Type(r)]
    BY <2>1, <2>2
  <2>4. Backed(r) /\ Quantity(reports[r].read)' = Quantity(reports[r].read)
    BY DEF IInv, Quantity, NoRow
  <2> QED BY <2>1, <2>2, <2>3, <2>4 DEF Backed
<1>2. CASE reports[r].stage \notin {"push", "write"}
  BY <1>2 DEF Backed
<1> QED BY <1>1, <1>2

LEMMA IdleIsBacked ==
  ASSUME NEW r \in Reporters, reports'[r].stage \in {"idle", "read"}
  PROVE  Backed(r)'
BY DEF Backed
-------------------------------------------------------------------------------
LEMMA InitIInv == ReporterInit => IInv
<1> SUFFICES ASSUME ReporterInit PROVE IInv
  OBVIOUS
<1>1. 0 \in 0..MaxUsage /\ 0 \in 0..MaxReportFaults /\ NoRow \in 0..NoRow
  BY Bounds
<1>2. ReporterTypeOK
  BY <1>1, WaitingType DEF ReporterInit, ReporterTypeOK, Records
<1>3. NothingUnpushed
  BY Bounds DEF ReporterInit, NothingUnpushed, Quantity
<1> QED BY <1>2, <1>3, WaitingType DEF ReporterInit, IInv, AtAType, Backed

(***************************************************************************)
(* What a step of one report r owes: the others are as they were, nothing  *)
(* is taken back from Stripe, and r and what is written down are backed.   *)
(***************************************************************************)
LEMMA OneReportSteps ==
  ASSUME IInv, NEW r \in Reporters,
         billable' = billable, usage' = usage,
         reported' \in [Priced -> 0..NoRow], pushed' \in [Priced -> Nat],
         reportFaults' \in 0..MaxReportFaults, doubtful' \subseteq Priced,
         \A t \in Priced : pushed'[t] >= pushed[t],
         \A t \in Priced :
           reported'[t] = reported[t] \/ Quantity(reported'[t]) <= pushed'[t],
         reports' \in [Reporters -> Records],
         \A q \in Reporters \ {r} : reports'[q] = reports[q],
         reports'[r].stage # "idle" => reports'[r].type \in DOMAIN Types,
         Backed(r)'
  PROVE  IInv'
<1>1. ReporterTypeOK'
  BY DEF IInv, ReporterTypeOK, Records
<1>2. AtAType'
  BY DEF IInv, AtAType
<1>3. \A q \in Reporters : Backed(q)'
  BY StillBacked
<1>4. NothingUnpushed'
  <2> SUFFICES ASSUME NEW t \in Priced PROVE Quantity(reported'[t]) <= pushed'[t]
    BY DEF NothingUnpushed, Quantity, NoRow
  <2>1. CASE reported'[t] = reported[t]
    <3>1. Quantity(reported[t]) <= pushed[t] /\ pushed'[t] >= pushed[t]
      BY DEF IInv, NothingUnpushed
    <3>2. /\ Quantity(reported[t]) \in 0..MaxUsage /\ pushed[t] \in Nat
          /\ pushed'[t] \in Nat
      BY QuantityBound DEF IInv, ReporterTypeOK
    <3> QED BY <2>1, <3>1, <3>2, Bounds
  <2> QED BY <2>1
<1> QED BY <1>1, <1>2, <1>3, <1>4 DEF IInv

-------------------------------------------------------------------------------
LEMMA SubscriptionKeeps == IInv /\ SubscriptionChanges => IInv'
<1> SUFFICES ASSUME IInv, SubscriptionChanges PROVE IInv'
  OBVIOUS
<1>1. ReporterTypeOK' /\ AtAType' /\ NothingUnpushed'
  BY DEF IInv, SubscriptionChanges, ReporterTypeOK, AtAType, NothingUnpushed, Quantity, NoRow
<1>2. /\ reports' = reports /\ pushed' \in [Priced -> Nat]
      /\ \A t \in Priced : pushed'[t] >= pushed[t]
  BY DEF SubscriptionChanges, IInv, ReporterTypeOK
<1>3. ASSUME NEW r \in Reporters PROVE Backed(r)'
  BY <1>2, StillBacked
<1> QED BY <1>1, <1>3 DEF IInv

LEMMA UsageKeeps ==
  ASSUME IInv, NEW t \in Priced, RecordUsage(t)
  PROVE  IInv'
<1>1. usage' \in [Priced -> 0..MaxUsage]
  BY Bounds DEF RecordUsage, IInv, ReporterTypeOK
<1>2. ReporterTypeOK' /\ AtAType' /\ NothingUnpushed'
  BY <1>1 DEF IInv, RecordUsage, ReporterTypeOK, AtAType, NothingUnpushed, Quantity, NoRow
<1>3. ASSUME NEW r \in Reporters PROVE Backed(r)'
  BY StillBacked DEF RecordUsage, IInv, ReporterTypeOK
<1> QED BY <1>2, <1>3 DEF IInv

LEMMA CrashKeeps == IInv /\ Crash => IInv'
<1> SUFFICES ASSUME IInv, Crash PROVE IInv'
  OBVIOUS
<1>1. reports' \in [Reporters -> Records] /\ \A r \in Reporters : reports'[r] = Waiting
  BY WaitingType DEF Crash
<1>2. reportFaults' \in 0..MaxReportFaults
  BY Bounds DEF Crash, ReportFault, IInv, ReporterTypeOK
<1>3. \A r \in Reporters : reports[r].stage = "write" => Type(r) \in Priced
  BY ReportFacts
<1>4. doubtful' \subseteq Priced
  BY <1>3 DEF Crash, IInv, ReporterTypeOK
<1>5. ReporterTypeOK'
  BY <1>1, <1>2, <1>4 DEF Crash, IInv, ReporterTypeOK, Records
<1>6. AtAType' /\ \A r \in Reporters : Backed(r)'
  BY <1>1, WaitingType, IdleIsBacked DEF AtAType
<1>7. NothingUnpushed'
  BY DEF Crash, IInv, NothingUnpushed, Quantity, NoRow
<1> QED BY <1>5, <1>6, <1>7 DEF IInv

LEMMA ReportKeeps ==
  ASSUME IInv, NEW r \in Reporters, Report(r)
  PROVE  IInv'
<1> DEFINE begun == [stage |-> "read", type |-> 1, totals |-> usage, read |-> 0]
<1>1. begun \in Records /\ begun.stage = "read" /\ begun.type \in DOMAIN Types
  BY Bounds DEF IInv, ReporterTypeOK, Records
<1>2. reports' = [reports EXCEPT ![r] = begun]
  BY DEF Report
<1> HIDE DEF begun
<1>3. /\ reports' \in [Reporters -> Records] /\ reports'[r] = begun
      /\ \A q \in Reporters \ {r} : reports'[q] = reports[q]
  BY <1>1, <1>2, ReportFacts
<1>4. Backed(r)'
  BY <1>1, <1>3, IdleIsBacked
<1>5. doubtful' \subseteq Priced
  BY DEF Report, IInv, ReporterTypeOK
<1>6. \A t \in Priced : pushed'[t] >= pushed[t]
  BY DEF Report, IInv, ReporterTypeOK
<1> QED BY <1>1, <1>3, <1>4, <1>5, <1>6, OneReportSteps DEF Report, IInv, ReporterTypeOK

(* Whatever ends a type's turn without writing its row. *)
LEMMA ProceedKeeps ==
  ASSUME IInv, NEW r \in Reporters, reports[r].stage # "idle", Proceed(r),
         billable' = billable, usage' = usage, reported' = reported,
         pushed' \in [Priced -> Nat], \A t \in Priced : pushed'[t] >= pushed[t],
         reportFaults' \in 0..MaxReportFaults, doubtful' \subseteq Priced
  PROVE  IInv'
<1>1. /\ reports' \in [Reporters -> Records]
      /\ \A q \in Reporters \ {r} : reports'[q] = reports[q]
      /\ reports'[r].stage \in {"idle", "read"}
      /\ reports'[r].stage # "idle" => reports'[r].type \in DOMAIN Types
  BY ProceedProperties
<1>2. Backed(r)'
  BY <1>1, IdleIsBacked
<1>3. reported' \in [Priced -> 0..NoRow] /\ \A t \in Priced : reported'[t] = reported[t]
  BY DEF IInv, ReporterTypeOK
<1> QED BY <1>1, <1>2, <1>3, OneReportSteps

LEMMA ReadKeeps ==
  ASSUME IInv, NEW r \in Reporters, ReadReported(r)
  PROVE  IInv'
<1>1. reports[r].stage = "read" /\ \A t \in Priced : pushed'[t] >= pushed[t]
  BY DEF ReadReported, IInv, ReporterTypeOK
<1>2. CASE Total(r) > Quantity(reported[Type(r)])
  <2> DEFINE found == [reports[r] EXCEPT !.stage = "push", !.read = reported[Type(r)]]
  <2>1. /\ found \in Records /\ found.stage = "push" /\ found.type = reports[r].type
        /\ found.totals = reports[r].totals /\ found.read = reported[Type(r)]
    BY <1>1, ReportFacts DEF Records
  <2>2. reports' = [reports EXCEPT ![r] = found]
    BY <1>2, ReportFacts DEF ReadReported, Records
  <2> HIDE DEF found
  <2>3. /\ reports' \in [Reporters -> Records] /\ reports'[r] = found
        /\ \A q \in Reporters \ {r} : reports'[q] = reports[q]
    BY <2>1, <2>2, ReportFacts
  <2>4. Type(r)' = Type(r) /\ Total(r)' = Total(r)
    BY <2>1, <2>3 DEF Type, Total
  <2>5. Quantity(reports[r].read)' = Quantity(reported[Type(r)])
    BY <2>1, <2>3 DEF Quantity, NoRow
  <2>6. pushed[Type(r)]' = pushed[Type(r)] /\ Quantity(reported[Type(r)]) <= pushed[Type(r)]
    BY <1>1, <2>4, ReportFacts DEF ReadReported, IInv, NothingUnpushed
  <2>7. Backed(r)'
    BY <1>2, <2>1, <2>3, <2>4, <2>5, <2>6 DEF Backed
  <2>8. reports'[r].type \in DOMAIN Types
    BY <1>1, <2>1, <2>3 DEF IInv, AtAType
  <2> QED BY <1>1, <2>3, <2>7, <2>8, OneReportSteps DEF ReadReported, IInv, ReporterTypeOK
<1>3. CASE ~(Total(r) > Quantity(reported[Type(r)]))
  BY <1>1, <1>3, ProceedKeeps DEF ReadReported, IInv, ReporterTypeOK
<1> QED BY <1>2, <1>3

(***************************************************************************)
(* What the push adds, to a sum that already holds what the report read,   *)
(* reaches the report's total.                                             *)
(***************************************************************************)
LEMMA PushReaches ==
  ASSUME IInv, NEW r \in Reporters, reports[r].stage = "push",
         pushed' = [pushed EXCEPT ![Type(r)] = @ + Delta(r)]
  PROVE  /\ pushed' \in [Priced -> Nat]
         /\ \A t \in Priced : pushed'[t] >= pushed[t]
         /\ Total(r) <= pushed'[Type(r)]
<1>1. /\ Type(r) \in Priced /\ Total(r) \in 0..MaxUsage /\ pushed[Type(r)] \in Nat
      /\ Quantity(reports[r].read) \in 0..MaxUsage
      /\ Total(r) > Quantity(reports[r].read)
      /\ Quantity(reports[r].read) <= pushed[Type(r)]
  BY ReportFacts DEF IInv, Backed
<1>2. Delta(r) \in Nat /\ Total(r) <= pushed[Type(r)] + Delta(r)
  BY <1>1, Bounds DEF Delta
<1>3. pushed \in [Priced -> Nat]
  BY DEF IInv, ReporterTypeOK
<1> QED BY <1>1, <1>2, <1>3, Bounds

LEMMA PushKeeps ==
  ASSUME IInv, NEW r \in Reporters, Push(r)
  PROVE  IInv'
<1> DEFINE next == [reports[r] EXCEPT !.stage = "write"]
<1>1. reports[r].stage = "push" /\ pushed' = [pushed EXCEPT ![Type(r)] = @ + Delta(r)]
  BY DEF Push
<1>2. /\ next \in Records /\ next.stage = "write" /\ next.type = reports[r].type
      /\ next.totals = reports[r].totals
  BY ReportFacts DEF Records
<1>3. reports' = [reports EXCEPT ![r] = next]
  BY DEF Push
<1> HIDE DEF next
<1>4. /\ reports' \in [Reporters -> Records] /\ reports'[r] = next
      /\ \A q \in Reporters \ {r} : reports'[q] = reports[q]
  BY <1>2, <1>3, ReportFacts
<1>5. Type(r)' = Type(r) /\ Total(r)' = Total(r)
  BY <1>2, <1>4 DEF Type, Total
<1>6. /\ pushed' \in [Priced -> Nat] /\ \A t \in Priced : pushed'[t] >= pushed[t]
      /\ Total(r) <= pushed'[Type(r)]
  BY <1>1, PushReaches
<1>7. pushed[Type(r)]' = pushed'[Type(r)]
  BY <1>5
<1>8. Backed(r)'
  BY <1>2, <1>4, <1>5, <1>6, <1>7 DEF Backed
<1>9. reports'[r].type \in DOMAIN Types
  BY <1>1, <1>2, <1>4 DEF IInv, AtAType
<1> QED BY <1>4, <1>6, <1>8, <1>9, OneReportSteps DEF Push, IInv, ReporterTypeOK

LEMMA WriteKeeps ==
  ASSUME IInv, NEW r \in Reporters, WriteReported(r)
  PROVE  IInv'
<1>1. /\ reports[r].stage = "write" /\ Proceed(r)
      /\ reported' = reported \/ reported' = [reported EXCEPT ![Type(r)] = Total(r)]
  BY DEF WriteReported
<1>2. /\ Type(r) \in Priced /\ Total(r) \in 0..MaxUsage /\ Total(r) <= pushed[Type(r)]
  BY <1>1, ReportFacts DEF IInv, Backed
<1>3. Total(r) \in 0..NoRow /\ Quantity(Total(r)) = Total(r)
  BY <1>2, Bounds DEF Quantity
<1>4. /\ reported' \in [Priced -> 0..NoRow]
      /\ \A t \in Priced : reported'[t] = reported[t] \/ Quantity(reported'[t]) <= pushed[t]
  BY <1>1, <1>2, <1>3 DEF IInv, ReporterTypeOK
<1>5. /\ reports' \in [Reporters -> Records]
      /\ \A q \in Reporters \ {r} : reports'[q] = reports[q]
      /\ reports'[r].stage \in {"idle", "read"}
      /\ reports'[r].stage # "idle" => reports'[r].type \in DOMAIN Types
  BY <1>1, ProceedProperties
<1>6. Backed(r)'
  BY <1>5, IdleIsBacked
<1>7. /\ pushed' = pushed /\ \A t \in Priced : pushed'[t] >= pushed[t]
      /\ billable' = billable /\ usage' = usage
      /\ reportFaults' \in 0..MaxReportFaults /\ doubtful' \subseteq Priced
      /\ pushed' \in [Priced -> Nat]
  BY DEF WriteReported, IInv, ReporterTypeOK
<1> QED BY <1>4, <1>5, <1>6, <1>7, OneReportSteps

LEMMA FailureKeeps ==
  ASSUME IInv, NEW r \in Reporters, PushRefused(r) \/ Unwritten(r)
  PROVE  IInv'
<1>1. /\ reports[r].stage \in {"push", "write"} /\ Proceed(r)
      /\ billable' = billable /\ usage' = usage /\ reported' = reported
  BY DEF PushRefused, Unwritten
<1>2. Type(r) \in Priced
  BY <1>1, ReportFacts
<1>3. reportFaults' \in 0..MaxReportFaults /\ doubtful' \subseteq Priced
  BY <1>2, Bounds DEF PushRefused, Unwritten, ReportFault, IInv, ReporterTypeOK
<1>4. pushed' \in [Priced -> Nat] /\ \A t \in Priced : pushed'[t] >= pushed[t]
  <2>1. CASE pushed' = pushed
    BY <2>1 DEF IInv, ReporterTypeOK
  <2>2. CASE reports[r].stage = "push" /\ pushed' = [pushed EXCEPT ![Type(r)] = @ + Delta(r)]
    BY <2>2, PushReaches
  <2> QED BY <2>1, <2>2 DEF PushRefused, Unwritten
<1> QED BY <1>1, <1>3, <1>4, ProceedKeeps

LEMMA ReadFailureKeeps ==
  ASSUME IInv, NEW r \in Reporters, ReadFails(r)
  PROVE  IInv'
<1>1. /\ reports' \in [Reporters -> Records] /\ reports'[r] = Waiting
      /\ \A q \in Reporters \ {r} : reports'[q] = reports[q]
  BY WaitingType, ReportFacts DEF ReadFails
<1>2. Backed(r)'
  BY <1>1, WaitingType, IdleIsBacked
<1>3. reportFaults' \in 0..MaxReportFaults /\ \A t \in Priced : pushed'[t] >= pushed[t]
  BY Bounds DEF ReadFails, ReportFault, IInv, ReporterTypeOK
<1> QED BY <1>1, <1>2, <1>3, WaitingType, OneReportSteps DEF ReadFails, IInv, ReporterTypeOK

-------------------------------------------------------------------------------
LEMMA NextKeeps == IInv /\ [ReporterNext]_reporterVars => IInv'
<1> SUFFICES ASSUME IInv, [ReporterNext]_reporterVars PROVE IInv'
  OBVIOUS
<1>1. CASE UNCHANGED reporterVars
  <2>1. ReporterTypeOK' /\ AtAType' /\ NothingUnpushed'
    BY <1>1 DEF IInv, reporterVars, ReporterTypeOK, AtAType, NothingUnpushed, Quantity, NoRow
  <2>2. /\ reports' = reports /\ pushed' \in [Priced -> Nat]
        /\ \A t \in Priced : pushed'[t] >= pushed[t]
    BY <1>1 DEF reporterVars, IInv, ReporterTypeOK
  <2>3. ASSUME NEW r \in Reporters PROVE Backed(r)'
    BY <2>2, StillBacked
  <2> QED BY <2>1, <2>3 DEF IInv
<1>2. CASE SubscriptionChanges \/ Crash
  BY <1>2, SubscriptionKeeps, CrashKeeps
<1>3. ASSUME NEW t \in Priced, RecordUsage(t) PROVE IInv'
  BY <1>3, UsageKeeps
<1>4. ASSUME NEW r \in Reporters,
             Report(r) \/ ReportStep(r) \/ Unwritten(r) \/ ReadFails(r)
      PROVE  IInv'
  BY <1>4, ReportKeeps, ReadKeeps, PushKeeps, WriteKeeps, FailureKeeps,
     ReadFailureKeeps DEF ReportStep
<1> QED BY <1>1, <1>2, <1>3, <1>4 DEF ReporterNext

(* Every reachable state satisfies the strengthened invariant. *)
THEOREM Strengthened == ReporterSpec => []IInv
BY InitIInv, NextKeeps, PTL DEF ReporterSpec

(* The variables keep their types, the place in the list of types among     *)
(* them (usage-reporter.ts 189-335).                                        *)
THEOREM TypeCorrect == ReporterSpec => []ReporterTypeOK
<1>1. IInv => ReporterTypeOK
  BY DEF IInv
<1> QED BY <1>1, Strengthened, PTL

(* Nothing is written down as reported that was not pushed, for every       *)
(* number of reports at a time, faults and types (usage-reporter.ts         *)
(* 238-305).                                                                *)
THEOREM ReportedWasPushed == ReporterSpec => []NothingUnpushed
<1>1. IInv => NothingUnpushed
  BY DEF IInv
<1> QED BY <1>1, Strengthened, PTL

-------------------------------------------------------------------------------
(***************************************************************************)
(* What is pushed, exactly.  As long as a type is not doubtful one report  *)
(* runs at a time, on totals there have been; what it read of the type is  *)
(* still what the row says; and what was pushed is what the row says, or   *)
(* the total the report is about to write there.                           *)
(***************************************************************************)
Running(r) == reports[r].stage # "idle"

At(r, stages, t) == reports[r].stage \in stages /\ Type(r) = t

Exact(t) ==
  /\ \A r, q \in Reporters : Running(r) /\ Running(q) => r = q
  /\ \A r \in Reporters : Running(r) => reports[r].totals[t] <= usage[t]
  /\ \A r \in Reporters : At(r, {"push", "write"}, t) => reports[r].read = reported[t]
  /\ \A r \in Reporters : At(r, {"write"}, t) => pushed[t] = Total(r)
  /\ (\A r \in Reporters : ~At(r, {"write"}, t)) => pushed[t] = Quantity(reported[t])
  /\ pushed[t] <= usage[t]

AllExact == \A t \in Priced \ doubtful : Exact(t)

LEMMA InitExact == ReporterInit => AllExact
<1> SUFFICES ASSUME ReporterInit, NEW t \in Priced PROVE Exact(t)
  BY DEF AllExact
<1>1. \A r \in Reporters : reports[r].stage = "idle"
  BY WaitingType DEF ReporterInit
<1> QED BY <1>1, Bounds DEF ReporterInit, Exact, Running, At, Quantity

(***************************************************************************)
(* What a step of the one report that runs owes.                           *)
(***************************************************************************)
LEMMA ReportStaysExact ==
  ASSUME IInv, NEW r \in Reporters, NEW t \in Priced, Exact(t), Running(r),
         usage' = usage,
         \A q \in Reporters \ {r} : reports'[q] = reports[q],
         Running(r)' => reports'[r].totals = reports[r].totals,
         At(r, {"push", "write"}, t)' => reports'[r].read = reported'[t],
         At(r, {"write"}, t)' => pushed'[t] = Total(r)',
         ~At(r, {"write"}, t)' => pushed'[t] = Quantity(reported'[t]),
         pushed'[t] <= usage[t]
  PROVE  Exact(t)'
<1>1. \A q \in Reporters \ {r} : reports[q].stage = "idle"
  BY DEF Exact, Running
<1>2. \A q \in Reporters \ {r} : reports'[q].stage = "idle"
  BY <1>1
<1>3. \A q \in Reporters \ {r} : /\ ~Running(q)' /\ ~At(q, {"write"}, t)'
                                 /\ ~At(q, {"push", "write"}, t)'
  BY <1>2 DEF Running, At
<1>4. Running(r)' => reports'[r].totals[t] <= usage'[t]
  BY DEF Exact
<1> QED BY <1>3, <1>4 DEF Exact, Quantity, NoRow

(* The end of a turn: nothing of type t was left half done. *)
LEMMA TurnEndsExact ==
  ASSUME IInv, NEW r \in Reporters, NEW t \in Priced, Exact(t), Running(r),
         usage' = usage, Proceed(r),
         pushed'[t] = Quantity(reported'[t]), pushed'[t] <= usage[t]
  PROVE  Exact(t)'
<1>1. /\ \A q \in Reporters \ {r} : reports'[q] = reports[q]
      /\ reports'[r].stage \in {"idle", "read"}
  BY ProceedProperties DEF Running
<1>2. Running(r)' => reports'[r].totals = reports[r].totals
  <2>1. CASE reports[r].type = Len(Types)
    BY <2>1, WaitingType, ReportFacts DEF Proceed, Running
  <2>2. CASE reports[r].type # Len(Types)
    BY <2>2, ReportFacts DEF Proceed, Records
  <2> QED BY <2>1, <2>2
<1>3. ~At(r, {"push", "write"}, t)' /\ ~At(r, {"write"}, t)'
  BY <1>1 DEF At
<1> QED BY <1>1, <1>2, <1>3, ReportStaysExact

(* A step that leaves the reports alone. *)
LEMMA UsageStaysExact ==
  ASSUME IInv, NEW t \in Priced, Exact(t), NEW u \in Priced, RecordUsage(u)
  PROVE  Exact(t)'
<1>1. /\ usage[t] \in Nat /\ usage'[t] \in Nat /\ usage'[t] >= usage[t]
      /\ pushed[t] \in Nat
  BY Bounds DEF RecordUsage, IInv, ReporterTypeOK
<1>2. ASSUME NEW r \in Reporters PROVE reports[r].totals[t] \in Nat
  <2>1. reports[r].totals \in [Priced -> 0..MaxUsage]
    BY ReportFacts DEF Records
  <2> QED BY <2>1, Bounds
<1>3. /\ reports' = reports /\ pushed' = pushed /\ reported' = reported
      /\ \A r \in Reporters, stages \in SUBSET STRING : At(r, stages, t)' <=> At(r, stages, t)
  BY DEF RecordUsage, At, Type
<1> QED BY <1>1, <1>2, <1>3 DEF Exact, Running, At, Type, Total, Quantity, NoRow

LEMMA OthersIdle ==
  ASSUME NEW t \in Priced, t \notin doubtful', NEW r \in Reporters, Report(r)
  PROVE  doubtful' = doubtful /\ \A q \in Reporters : reports[q].stage = "idle"
BY DEF Report

LEMMA ReportStartsExact ==
  ASSUME IInv, NEW t \in Priced, Exact(t), t \notin doubtful',
         NEW r \in Reporters, Report(r)
  PROVE  Exact(t)'
<1>1. \A q \in Reporters : reports[q].stage = "idle"
  BY OthersIdle
<1>2. /\ reports'[r].stage = "read" /\ reports'[r].totals = usage
      /\ \A q \in Reporters \ {r} : reports'[q].stage = "idle"
  BY <1>1, ReportFacts DEF Report
<1>3. \A q \in Reporters : /\ ~At(q, {"push", "write"}, t)' /\ ~At(q, {"write"}, t)'
                           /\ ~At(q, {"write"}, t)
  BY <1>1, <1>2 DEF At
<1>4. usage' = usage /\ pushed' = pushed /\ reported' = reported /\ usage[t] \in Nat
  BY DEF Report, IInv, ReporterTypeOK
<1> QED BY <1>2, <1>3, <1>4 DEF Exact, Running, Quantity, NoRow

LEMMA ReadStaysExact ==
  ASSUME IInv, NEW t \in Priced, Exact(t), NEW r \in Reporters, ReadReported(r)
  PROVE  Exact(t)'
<1>1. /\ reports[r].stage = "read" /\ usage' = usage
      /\ pushed' = pushed /\ reported' = reported
  BY DEF ReadReported
<1>2. \A q \in Reporters : ~At(q, {"write"}, t)
  BY <1>1 DEF At, Exact, Running
<1>3. pushed'[t] = Quantity(reported'[t]) /\ pushed'[t] <= usage[t]
  BY <1>1, <1>2 DEF Exact
<1>4. CASE Total(r) > Quantity(reported[Type(r)])
  <2>1. /\ reports'[r].stage = "push" /\ reports'[r].read = reported[Type(r)]
        /\ reports'[r].totals = reports[r].totals /\ reports'[r].type = reports[r].type
        /\ \A q \in Reporters \ {r} : reports'[q] = reports[q]
    <3>1. reports' = [reports EXCEPT ![r].stage = "push",
                                     ![r].read = reported[Type(r)]]
      BY <1>4 DEF ReadReported
    <3>2. reports[r] \in Records /\ reports \in [Reporters -> Records]
      BY ReportFacts DEF IInv, ReporterTypeOK
    <3>3. reports'[r] = [reports[r] EXCEPT !.stage = "push",
                                           !.read = reported[Type(r)]]
      BY <3>1, <3>2
    <3>4. \A q \in Reporters \ {r} : reports'[q] = reports[q]
      BY <3>1, <3>2
    <3> QED BY <3>2, <3>3, <3>4 DEF Records
  <2>2. Type(r)' = Type(r)
    BY <2>1 DEF Type
  <2>3. At(r, {"push", "write"}, t)' => reports'[r].read = reported'[t]
    BY <1>1, <2>1, <2>2 DEF At
  <2>4. ~At(r, {"write"}, t)'
    BY <2>1 DEF At
  <2> QED BY <1>1, <1>3, <2>1, <2>3, <2>4, ReportStaysExact DEF Running
<1>5. CASE ~(Total(r) > Quantity(reported[Type(r)]))
  BY <1>1, <1>3, <1>5, TurnEndsExact DEF ReadReported, Running
<1> QED BY <1>4, <1>5

LEMMA PushStaysExact ==
  ASSUME IInv, NEW t \in Priced, Exact(t), NEW r \in Reporters, Push(r)
  PROVE  Exact(t)'
<1>1. /\ reports[r].stage = "push" /\ usage' = usage /\ reported' = reported
      /\ pushed' = [pushed EXCEPT ![Type(r)] = @ + Delta(r)]
      /\ \A q \in Reporters : ~At(q, {"write"}, t)
  BY DEF Push, At, Exact, Running
<1>2. /\ reports'[r].stage = "write" /\ reports'[r].read = reports[r].read
      /\ reports'[r].totals = reports[r].totals /\ reports'[r].type = reports[r].type
      /\ \A q \in Reporters \ {r} : reports'[q] = reports[q]
  BY ReportFacts DEF Push, Records
<1>3. Type(r)' = Type(r) /\ Total(r)' = Total(r)
  BY <1>2 DEF Type, Total
<1>4. pushed[t] = Quantity(reported[t]) /\ pushed[t] <= usage[t]
  BY <1>1 DEF Exact
<1>5. CASE Type(r) = t
  <2>1. reports[r].read = reported[t] /\ Total(r) <= usage[t]
    BY <1>1, <1>5 DEF Exact, At, Running, Total
  <2>2. Total(r) \in Nat /\ Quantity(reports[r].read) \in Nat
    BY <1>1, ReportFacts, Bounds
  <2>3. pushed'[t] = Total(r)
    BY <1>1, <1>4, <1>5, <2>1, <2>2 DEF Delta, IInv, ReporterTypeOK
  <2>4. /\ At(r, {"push", "write"}, t)' => reports'[r].read = reported'[t]
        /\ At(r, {"write"}, t)'
    BY <1>1, <1>2, <1>3, <1>5, <2>1 DEF At
  <2> QED BY <1>1, <1>2, <1>3, <2>1, <2>3, <2>4, ReportStaysExact DEF Running
<1>6. CASE Type(r) # t
  <2>1. pushed'[t] = pushed[t]
    BY <1>1, <1>6 DEF IInv, ReporterTypeOK
  <2>2. ~At(r, {"push", "write"}, t)' /\ ~At(r, {"write"}, t)'
    BY <1>3, <1>6 DEF At
  <2> QED BY <1>1, <1>2, <1>4, <2>1, <2>2, ReportStaysExact DEF Running
<1> QED BY <1>5, <1>6

LEMMA WriteStaysExact ==
  ASSUME IInv, NEW t \in Priced, Exact(t), NEW r \in Reporters, WriteReported(r)
  PROVE  Exact(t)'
<1>1. /\ reports[r].stage = "write" /\ usage' = usage /\ pushed' = pushed /\ Proceed(r)
      /\ \A q \in Reporters \ {r} : ~At(q, {"write"}, t)
  BY DEF WriteReported, At, Exact, Running
<1>2. pushed[t] <= usage[t]
  BY DEF Exact
<1>3. CASE Type(r) = t
  <2>1. reports[r].read = reported[t] /\ pushed[t] = Total(r)
    BY <1>1, <1>3 DEF Exact, At
  <2>2. reported' = [reported EXCEPT ![t] = Total(r)]
    BY <1>3, <2>1 DEF WriteReported
  <2>3. reported'[t] = Total(r) /\ Quantity(Total(r)) = Total(r)
    <3>1. Total(r) \in 0..MaxUsage /\ NoRow = MaxUsage + 1 /\ MaxUsage \in Nat
      BY <1>1, ReportFacts, Bounds
    <3>2. Quantity(Total(r)) = Total(r)
      BY <3>1 DEF Quantity
    <3> QED BY <2>2, <3>2 DEF IInv, ReporterTypeOK
  <2> QED BY <1>1, <1>2, <2>1, <2>3, TurnEndsExact DEF Running
<1>4. CASE Type(r) # t
  <2>1. reported'[t] = reported[t] /\ pushed[t] = Quantity(reported[t])
    BY <1>1, <1>4 DEF WriteReported, IInv, ReporterTypeOK, Exact, At
  <2> QED BY <1>1, <1>2, <2>1, TurnEndsExact DEF Running
<1> QED BY <1>3, <1>4

(* A failure leaves exact what it does not make doubtful. *)
LEMMA FailureStaysExact ==
  ASSUME IInv, NEW t \in Priced, Exact(t), t \notin doubtful',
         NEW r \in Reporters, PushRefused(r) \/ Unwritten(r)
  PROVE  Exact(t)'
<1>1. /\ reports[r].stage \in {"push", "write"} /\ Proceed(r)
      /\ usage' = usage /\ reported' = reported
  BY DEF PushRefused, Unwritten
<1>2. ~At(r, {"write"}, t) /\ pushed'[t] = pushed[t]
  BY DEF PushRefused, Unwritten, At, IInv, ReporterTypeOK
<1>3. \A q \in Reporters : ~At(q, {"write"}, t)
  BY <1>1, <1>2 DEF At, Exact, Running
<1>4. pushed'[t] = Quantity(reported'[t]) /\ pushed'[t] <= usage[t]
  BY <1>1, <1>2, <1>3 DEF Exact
<1> QED BY <1>1, <1>4, TurnEndsExact DEF Running

(* A report that is cut short before its push leaves nothing half done. *)
LEMMA CutShortStaysExact ==
  ASSUME IInv, NEW t \in Priced, Exact(t),
         \A r \in Reporters : reports'[r] \in {reports[r], Waiting},
         \A r \in Reporters : At(r, {"write"}, t) => reports'[r] = reports[r],
         UNCHANGED <<usage, reported, pushed>>
  PROVE  Exact(t)'
<1>1. \A r \in Reporters : Running(r)' => reports'[r] = reports[r] /\ Running(r)
  BY WaitingType DEF Running
<1>2. \A r \in Reporters : At(r, {"push", "write"}, t)' => reports'[r] = reports[r] /\ At(r, {"push", "write"}, t)
  BY WaitingType DEF At, Type
<1>3. \A r \in Reporters : At(r, {"write"}, t)' <=> At(r, {"write"}, t)
  BY WaitingType DEF At, Type
<1>4. \A r \in Reporters : At(r, {"write"}, t) => Total(r)' = Total(r)
  BY DEF At, Total, Type
<1> QED BY <1>1, <1>2, <1>3, <1>4 DEF Exact, Quantity, NoRow

LEMMA NextStaysExact == IInv /\ AllExact /\ [ReporterNext]_reporterVars => AllExact'
<1> SUFFICES ASSUME IInv, AllExact, [ReporterNext]_reporterVars, NEW t \in Priced, t \notin doubtful'
             PROVE  Exact(t)'
  BY DEF AllExact
<1>1. doubtful \subseteq doubtful'
  BY DEF IInv, ReporterTypeOK, ReporterNext, reporterVars, SubscriptionChanges, Crash, RecordUsage, Report,
     ReportStep, ReadReported, Push, PushRefused, WriteReported, Unwritten, ReadFails
<1>2. Exact(t)
  BY <1>1 DEF AllExact
<1>3. CASE UNCHANGED reporterVars \/ SubscriptionChanges
  BY <1>2, <1>3, CutShortStaysExact DEF reporterVars, SubscriptionChanges
<1>4. CASE Crash
  <2>1. \A r \in Reporters : ~At(r, {"write"}, t)
    BY <1>4 DEF Crash, At
  <2>2. \A r \in Reporters : reports'[r] = Waiting
    BY <1>4 DEF Crash
  <2> QED BY <1>2, <1>4, <2>1, <2>2, CutShortStaysExact DEF Crash
<1>5. ASSUME NEW u \in Priced, RecordUsage(u) PROVE Exact(t)'
  BY <1>2, <1>5, UsageStaysExact
<1>6. ASSUME NEW r \in Reporters, ReadFails(r) PROVE Exact(t)'
  <2>1. /\ \A q \in Reporters : reports'[q] \in {reports[q], Waiting}
        /\ \A q \in Reporters : At(q, {"write"}, t) => reports'[q] = reports[q]
    BY <1>6, ReportFacts DEF ReadFails, At
  <2> QED BY <1>2, <1>6, <2>1, CutShortStaysExact DEF ReadFails
<1>7. ASSUME NEW r \in Reporters, Report(r) \/ ReportStep(r) \/ Unwritten(r)
      PROVE  Exact(t)'
  BY <1>2, <1>7, ReportStartsExact, ReadStaysExact, PushStaysExact, WriteStaysExact,
     FailureStaysExact DEF ReportStep
<1> QED BY <1>3, <1>4, <1>5, <1>6, <1>7 DEF ReporterNext

(* Usage is pushed twice only where two reports overlapped on its type or a *)
(* push could not be written down, for every number of reports, types and   *)
(* faults (usage-reporter.ts 11-22, 238-305).                               *)
THEOREM PushedAtMostOnce == ReporterSpec => []NeverOvercounted
<1>1. AllExact => NeverOvercounted
  BY DEF AllExact, Exact, NeverOvercounted
<1> QED BY <1>1, Strengthened, InitExact, NextStaysExact, PTL DEF ReporterSpec
===============================================================================

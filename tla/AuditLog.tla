------------------------------ MODULE AuditLog ------------------------------
(***************************************************************************)
(* The audit records of a gateway (internal/gateway/gateway.go,            *)
(* recordAuditWithUsage) and the rows the control plane shows of them      *)
(* (internal/controlplane/server.go, collapseAuditRecords).  A gateway     *)
(* writes one record per attempt into a list of which only the newest are  *)
(* kept; requests run side by side, a record is stamped before the list is *)
(* locked, and the way some requests end is not recorded.  The control     *)
(* plane reads the list at any time and makes one row of each request.     *)
(*                                                                         *)
(* Statuses are "ok" (200 to 399) and "failed".  A step may take no time   *)
(* that the clock shows, so records may have the same stamp.               *)
(***************************************************************************)
EXTENDS Integers, Sequences, SequencesExt, FiniteSetsExt

CONSTANTS
    Callers,      \* BOUND: requests, each of one caller, all through forward
    MaxTries,     \* MaxRetries + 1
    MaxRecords,   \* of g.audits: 500
    MaxClock      \* BOUND: the clock stands still at last

ASSUME AuditAssumption ==
    MaxTries \in Nat \ {0} /\ MaxRecords \in Nat \ {0} /\ MaxClock \in Nat

VARIABLES
    audits,   \* g.audits
    call,     \* per request: its step, attempt, when that began, its record
    clock,
    told      \* HISTORY: per request: the records it made, how it was answered

auditVars == <<audits, call, clock, told>>

AuditInit ==
    /\ audits = <<>>
    /\ call = [r \in Callers |-> [at |-> "new", attempt |-> 0, began |-> 0, record |-> <<>>]]
    /\ clock = 0
    /\ told = [r \in Callers |-> [records |-> <<>>, answer |-> "none"]]

-----------------------------------------------------------------------------
(* The gateway *)

\* The clock is read; it may show the time it showed before.
Later == clock' \in {clock} \cup {t \in {clock + 1} : t <= MaxClock}

\* The next attempt of a request goes out.
Attempt(r) ==
    /\ call[r].at \in {"new", "again"} /\ call[r].attempt < MaxTries
    /\ Later
    /\ call' = [call EXCEPT ![r].at = "sent", ![r].attempt = @ + 1, ![r].began = clock']
    /\ UNCHANGED <<audits, told>>

\* An attempt ends and its record is stamped.
Stamp(r) ==
    /\ call[r].at = "sent"
    /\ Later
    /\ \E status \in {"ok", "failed"} :
         LET record == [request |-> r, attempt |-> call[r].attempt, status |-> status,
                        began |-> call[r].began, at |-> clock']
         IN  /\ call' = [call EXCEPT ![r].at = "stamped", ![r].record = record]
             /\ told' = [told EXCEPT ![r].records = Append(@, record)]
    /\ UNCHANGED audits

KeepNewest(records) ==
    SubSeq(records, IF Len(records) > MaxRecords THEN Len(records) - MaxRecords + 1 ELSE 1,
           Len(records))

\* auditMu.  A success is the answer; a failure is, or another attempt is made.
AppendRecord(r) ==
    /\ call[r].at = "stamped"
    /\ audits' = KeepNewest(Append(audits, call[r].record))
    /\ \/ /\ call[r].record.status = "failed"
          /\ call' = [call EXCEPT ![r].at = "again", ![r].record = <<>>]
          /\ UNCHANGED told
       \/ /\ call' = [call EXCEPT ![r].at = "done", ![r].record = <<>>]
          /\ told' = [told EXCEPT ![r].answer = call[r].record.status]
    /\ UNCHANGED clock

\* The client leaves, before the answer is written or between two attempts, or
\* no exit is left for another one: no record is made.
Unrecorded(r) ==
    /\ call[r].at \in {"sent", "again"}
    /\ call' = [call EXCEPT ![r].at = "done", ![r].record = <<>>]
    /\ UNCHANGED <<audits, clock, told>>

AuditNext == \E r \in Callers : Attempt(r) \/ Stamp(r) \/ AppendRecord(r) \/ Unrecorded(r)

AuditSpec == AuditInit /\ [][AuditNext]_auditVars

-----------------------------------------------------------------------------
(* The control plane *)

\* The attempts of a request, by their number and then their time.
Precedes(x, y) == x.attempt < y.attempt \/ (x.attempt = y.attempt /\ x.at < y.at)

\* Faulty variant: the first attempt.
Initial(attempts) == CHOOSE x \in attempts : \A y \in attempts \ {x} : Precedes(x, y)

Final(attempts) == CHOOSE x \in attempts : \A y \in attempts \ {x} : Precedes(y, x)

Began(attempts) == Min({x.began : x \in attempts})

Row(r, attempts) ==
    LET final == Final(attempts) IN
    [ request |-> r, at |-> final.at, status |-> final.status,
      began |-> Began(attempts),
      attempts |-> Max({x.attempt : x \in attempts}),
      recovered |-> final.status = "ok" /\ \E x \in attempts : x.status = "failed",
      history |-> IF attempts = {final} THEN <<>> ELSE SetToSortSeq(attempts, Precedes) ]

\* A row for each request that has a record.
RowsOf(records) ==
    LET made == ToSet(records) IN
    {Row(r, {x \in made : x.request = r}) : r \in {x.request : x \in made}}

\* Faulty variant: in the order in which the requests began.
CollapsedByStart(records) == SetToSortSeq(RowsOf(records), LAMBDA x, y : x.began < y.began)

\* Where the first record of a row is in the list.
FirstPlace(records, row) == Min({k \in DOMAIN records : records[k].request = row.request})

\* sort.SliceStable: by time; rows of the same time stay in the order in which
\* their groups were made.
Earlier(records, x, y) ==
    \/ x.at < y.at
    \/ x.at = y.at /\ FirstPlace(records, x) < FirstPlace(records, y)

\* collapseAuditRecords: oldest first.
Collapsed(records) ==
    LET rows == RowsOf(records)
        UpTo(row) == {x \in rows : ~Earlier(records, row, x)}
    IN  [k \in 1 .. Cardinality(rows) |-> CHOOSE row \in rows : Cardinality(UpTo(row)) = k]

Rows == Collapsed(audits)

-----------------------------------------------------------------------------
(* Properties *)

\* Every request that has a record is shown in one row, and the rows are in the
\* order in which the requests ended, whatever the order of the records; those
\* that the clock does not tell apart are in the order of their first records.
RowPerRequest ==
    /\ ToSet(Rows) = RowsOf(audits)
    /\ {Rows[k].request : k \in DOMAIN Rows} = {x.request : x \in ToSet(audits)}
    /\ Len(Rows) = Cardinality({x.request : x \in ToSet(audits)})
    /\ \A j, k \in DOMAIN Rows : j < k => Earlier(audits, Rows[j], Rows[k])

\* A row whose last record has been kept shows how the request was answered,
\* and "recovered" is never said of a request none of whose attempts failed.  As
\* long as none of its records has been dropped, the row covers the whole time
\* of the request, counts every attempt and says if it has recovered.
RowTellsAnswer ==
    \A row \in RowsOf(audits) :
        LET own == told[row.request].records
            answered == told[row.request].answer # "none"
        IN  /\ row.recovered => \E n \in DOMAIN own : own[n].status = "failed"
            /\ answered /\ Last(own) \in ToSet(audits)
               => row.status = told[row.request].answer
            /\ answered /\ ToSet(own) \subseteq ToSet(audits)
               => /\ row.began = own[1].began /\ row.at = Last(own).at
                  /\ row.attempts = Len(own)
                  /\ row.recovered <=> row.status = "ok" /\ Len(own) > 1
=============================================================================

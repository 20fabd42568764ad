---------------------------- MODULE SlowLogFilter ----------------------------
(***************************************************************************)
(* filter_slow_logs_records of slow_queries_metric.py: the records parsed  *)
(* from the slow logs are reduced to one record per (index, query) and     *)
(* then to the top_number records with the highest took_millis.            *)
(*                                                                         *)
(* took_millis is the text between the brackets of took_millis[...] in a   *)
(* log line, a string of decimal digits; the model keeps it as that        *)
(* string (a sequence of digits), so that the code's comparison of two     *)
(* such strings and its int() of one are modelled by what they do.  The   *)
(* loop over the records is one action per record, in input order.        *)
(***************************************************************************)
EXTENDS Naturals, Sequences, SequencesExt, FiniteSets

CONSTANTS
  Indices,     \* index names of the records
  Sources,     \* query sources of the records
  Millis,      \* took_millis values, as numbers
  TopNumber,   \* SLOW_QUERIES_TOP_NUMBER
  MaxRecords   \* bound on the number of records

\* str(n): the decimal digits of n.
RECURSIVE Digits(_)
Digits(n) == IF n < 10 THEN <<n>> ELSE Digits(n \div 10) \o <<n % 10>>

\* int(s) of a string of decimal digits.
ToInt(s) == FoldLeft(LAMBDA acc, d : 10 * acc + d, 0, s)

\* Python's s < t on two strings of digits: lexicographic order.
RECURSIVE StrLess(_, _)
StrLess(s, t) ==
  IF t = <<>> THEN FALSE
  ELSE IF s = <<>> THEN TRUE
  ELSE IF Head(s) # Head(t) THEN Head(s) < Head(t)
  ELSE StrLess(Tail(s), Tail(t))

Record == [index : Indices, source : Sources, took_millis : {Digits(m) : m \in Millis}]

\* f'{record.index}_{record.source}': the key of a record.
Name(r) == <<r.index, r.source>>

VARIABLES
  input,     \* the records the function was called with
  records,   \* the records the loop has still to visit
  keys,      \* the keys of records_dict in insertion order
  dict,      \* records_dict
  result,    \* the returned list
  returned   \* the function has returned

vars == <<input, records, keys, dict, result, returned>>

Init ==
  /\ input \in UNION {[1..n -> Record] : n \in 0..MaxRecords}
  /\ records = input
  /\ keys = <<>>
  /\ dict = [k \in {} |-> {}]
  /\ result = <<>>
  /\ returned = FALSE

(***************************************************************************)
(* Lines 169-172: a record replaces the one kept for its key when its      *)
(* took_millis string is greater; a new key is added at the end of the     *)
(* dict, a replaced one keeps its place.                                   *)
(***************************************************************************)
Visit ==
  /\ records # <<>>
  /\ LET r == Head(records) IN
     \/ /\ Name(r) \notin DOMAIN dict
        /\ dict' = (Name(r) :> r) @@ dict
        /\ keys' = Append(keys, Name(r))
     \/ /\ Name(r) \in DOMAIN dict
        /\ dict' = IF StrLess(dict[Name(r)].took_millis, r.took_millis)
                   THEN [dict EXCEPT ![Name(r)] = r] ELSE dict
        /\ UNCHANGED keys
  /\ records' = Tail(records)
  /\ UNCHANGED <<input, result, returned>>

\* Mutant: the sort without reverse=True.
SortedDesc_ascending(s) ==
  LET Ins(r, t) == SelectSeq(t, LAMBDA x : ToInt(x.took_millis) <= ToInt(r.took_millis))
                   \o <<r>> \o SelectSeq(t, LAMBDA x : ToInt(x.took_millis) > ToInt(r.took_millis))
  IN FoldLeft(LAMBDA acc, r : Ins(r, acc), <<>>, s)

\* sorted(..., key=int(took_millis), reverse=True): a stable sort, descending.
RECURSIVE InsertDesc(_, _)
InsertDesc(r, s) ==
  IF s = <<>> THEN <<r>>
  ELSE IF ToInt(Head(s).took_millis) < ToInt(r.took_millis) THEN <<r>> \o s
  ELSE <<Head(s)>> \o InsertDesc(r, Tail(s))

SortedDesc(s) == FoldLeft(LAMBDA acc, r : InsertDesc(r, acc), <<>>, s)

\* Mutant: the cut keeps one record more than top_number.
Return_slice_plus_one ==
  /\ records = <<>> /\ ~returned
  /\ LET sorted == SortedDesc([j \in DOMAIN keys |-> dict[keys[j]]]) IN
     result' = SubSeq(sorted, 1, IF Len(sorted) < TopNumber + 1 THEN Len(sorted) ELSE TopNumber + 1)
  /\ returned' = TRUE
  /\ UNCHANGED <<input, records, keys, dict>>

(***************************************************************************)
(* Line 173: the values in dict order, sorted by int(took_millis)          *)
(* descending, cut to the first top_number.                                *)
(***************************************************************************)
Return ==
  /\ records = <<>> /\ ~returned
  /\ LET sorted == SortedDesc([j \in DOMAIN keys |-> dict[keys[j]]]) IN
     result' = SubSeq(sorted, 1, IF Len(sorted) < TopNumber THEN Len(sorted) ELSE TopNumber)
  /\ returned' = TRUE
  /\ UNCHANGED <<input, records, keys, dict>>

Next == Visit \/ Return

Spec == Init /\ [][Next]_vars

-----------------------------------------------------------------------------
\* The largest took_millis, as a number, among the input records of key k.
Longest(k) ==
  LET ms == {ToInt(input[j].took_millis) : j \in {j \in DOMAIN input : Name(input[j]) = k}}
  IN CHOOSE m \in ms : \A x \in ms : x <= m

InputKeys == {Name(input[j]) : j \in DOMAIN input}

\* The shape of the state.
TypeOK ==
  /\ \A j \in DOMAIN records : records[j] \in Record
  /\ DOMAIN dict \subseteq Indices \X Sources
  /\ Len(result) <= TopNumber

(***************************************************************************)
(* The returned list holds one record of the input per (index, query),     *)
(* ordered by took_millis from the highest down, and as many as top_number *)
(* allows: no key is reported twice and none is dropped while there is     *)
(* room for it.                                                            *)
(***************************************************************************)
ResultWellFormed ==
  returned =>
    /\ Len(result) = IF Cardinality(InputKeys) < TopNumber
                     THEN Cardinality(InputKeys) ELSE TopNumber
    /\ \A i, j \in DOMAIN result : i # j => Name(result[i]) # Name(result[j])
    /\ \A i \in DOMAIN result : \E j \in DOMAIN input : result[i] = input[j]
    /\ \A i \in 1..(Len(result) - 1) :
         ToInt(result[i + 1].took_millis) <= ToInt(result[i].took_millis)

(***************************************************************************)
(* The docstring: the record kept for each index and query is the one     *)
(* with the longest execution time, so every returned record carries the   *)
(* largest took_millis of its key.                                         *)
(***************************************************************************)
LongestPerQuery ==
  returned => \A i \in DOMAIN result : ToInt(result[i].took_millis) = Longest(Name(result[i]))

=============================================================================

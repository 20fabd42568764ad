---------------------------- MODULE SlowLogParse ----------------------------
(***************************************************************************)
(* convert_slow_log_record of slow_queries_metric.py: a slow-log line is  *)
(* split on ", " into 11 elements, the values between brackets are taken  *)
(* from each, and the 13 values found make a SlowLogRecord.                *)
(*                                                                         *)
(* Text is a sequence of one-character strings, as the conversion is what *)
(* is checked.  A record is the sequence of its 13 fields in the order of *)
(* SlowLogRecord's tuple unpacking (log_level, time, node, index, shard,  *)
(* took, took_millis, total_hits, stats, search_type, total_shards,        *)
(* source, id).  The field labels of a line (took, stats, source, ...)    *)
(* are text the parser never looks at, so each is written "k".  Indices   *)
(* are 1-based and a find that fails gives 0 (Python: -1).                 *)
(*                                                                         *)
(* One action converts the line OpenSearch wrote for a record; the records *)
(* to log are chosen in Init.                                               *)
(***************************************************************************)
EXTENDS Integers, Sequences, SequencesExt

CONSTANTS
  LoggedRecords   \* the records whose slow-log lines are converted

VARIABLES
  plRec,          \* the record the line was written for
  plOut,          \* what convert_slow_log_record gave: [kind, rec]
  plLine          \* the metric line printed for the record, <<>> before

plVars == <<plRec, plOut, plLine>>

Sep  == <<",", " ">>
Hits == <<" ", "h", "i", "t", "s">>
Lbl(v) == <<"k", "[">> \o v \o <<"]">>

(***************************************************************************)
(* SlowLogRecord.__str__, lines 103-107: the slow-log line of a record.    *)
(***************************************************************************)
Format(r) ==
  FlattenSeq(<< <<"[">>, r[1], <<"]">>, Sep, r[2], Sep, <<"[">>, r[3], <<"]">>, Sep,
                <<"[">>, r[4], <<"]", "[">>, r[5], <<"]", " ">>, Lbl(r[6]), Sep,
                Lbl(r[7]), Sep, Lbl(r[8] \o Hits), Sep, Lbl(r[9]), Sep, Lbl(r[10]), Sep,
                Lbl(r[11]), Sep, Lbl(r[12]), Sep, Lbl(r[13]) >>)

\* str.find(c, start): the first index >= start holding c, or 0.
Find(s, c, start) == SelectInSubSeq(s, start, Len(s), LAMBDA x : x = c)

\* str.strip(', '): the characters , and space removed from both ends.
StripSep(s) ==
  LET keep(x) == x \notin {",", " "}
      first == SelectInSeq(s, keep)
      last  == SelectLastInSeq(s, keep)
  IN IF first = 0 THEN <<>> ELSE SubSeq(s, first, last)

\* str.split(', '), left to right.
RECURSIVE SplitSep(_)
SplitSep(s) ==
  LET at == {k \in 1..(Len(s) - 1) : s[k] = "," /\ s[k + 1] = " "}
  IN IF at = {} THEN <<s>>
     ELSE LET k == CHOOSE k \in at : \A j \in at : k <= j
          IN <<SubSeq(s, 1, k - 1)>> \o SplitSep(SubSeq(s, k + 2, Len(s)))

EndsWithHits(v) == Len(v) >= 5 /\ SubSeq(v, Len(v) - 4, Len(v)) = Hits

(***************************************************************************)
(* _extract_values_from_brackets, lines 132-144, from the '[' at idx on.  *)
(* The search for the next '[' starts at the ']' just found, so a '[' or  *)
(* ']' inside a value cuts it or adds one.  When no ']' follows, the value *)
(* is element[index+1:-1] and the next search starts at the last          *)
(* character: an element ending in '[' is found again and again, and the  *)
(* code never leaves the loop ("loops").                                   *)
(***************************************************************************)
\* Mutant: the ' hits' suffix is kept.
RECURSIVE BracketValues_keep_hits(_, _)
BracketValues_keep_hits(e, idx) ==
  IF idx = 0 THEN [loops |-> FALSE, vals |-> <<>>]
  ELSE LET end   == Find(e, "]", idx)
           value == IF end = 0 THEN SubSeq(e, idx + 1, Len(e) - 1) ELSE SubSeq(e, idx + 1, end - 1)
           next  == IF end = 0 THEN Find(e, "[", Len(e)) ELSE Find(e, "[", end)
       IN IF end = 0 /\ next = idx THEN [loops |-> TRUE, vals |-> <<>>]
          ELSE LET rest == BracketValues_keep_hits(e, next)
               IN [loops |-> rest.loops, vals |-> <<value>> \o rest.vals]

RECURSIVE BracketValues(_, _)
BracketValues(e, idx) ==
  IF idx = 0 THEN [loops |-> FALSE, vals |-> <<>>]
  ELSE LET end   == Find(e, "]", idx)
           raw   == IF end = 0 THEN SubSeq(e, idx + 1, Len(e) - 1) ELSE SubSeq(e, idx + 1, end - 1)
           value == IF EndsWithHits(raw) THEN SubSeq(raw, 1, Len(raw) - 5) ELSE raw
           next  == IF end = 0 THEN Find(e, "[", Len(e)) ELSE Find(e, "[", end)
       IN IF end = 0 /\ next = idx THEN [loops |-> TRUE, vals |-> <<>>]
          ELSE LET rest == BracketValues(e, next)
               IN [loops |-> rest.loops, vals |-> <<value>> \o rest.vals]

extract_values_from_brackets(e) ==
  IF Find(e, "[", 1) = 0 THEN [loops |-> FALSE, vals |-> <<e>>]
  ELSE BracketValues(e, Find(e, "[", 1))

\* Mutant: SlowLogRecord takes the first 13 values of a longer list.
convert_slow_log_record_first13(line) ==
  LET els == SplitSep(StripSep(line))
      ex  == [k \in DOMAIN els |-> extract_values_from_brackets(els[k])]
      data == FlattenSeq([k \in DOMAIN els |-> ex[k].vals])
  IN CASE Len(els) # 11 -> [kind |-> "none", rec |-> <<>>]
       [] \E k \in DOMAIN els : ex[k].loops -> [kind |-> "loops", rec |-> <<>>]
       [] Len(data) < 13 -> [kind |-> "value_error", rec |-> <<>>]
       [] OTHER -> [kind |-> "record", rec |-> SubSeq(data, 1, 13)]

(***************************************************************************)
(* convert_slow_log_record, lines 147-156, and the length check of        *)
(* SlowLogRecord, lines 83-85: None for a line that does not split into 11 *)
(* elements, ValueError for one whose elements hold other than 13 values. *)
(***************************************************************************)
convert_slow_log_record(line) ==
  LET els == SplitSep(StripSep(line))
      ex  == [k \in DOMAIN els |-> extract_values_from_brackets(els[k])]
      data == FlattenSeq([k \in DOMAIN els |-> ex[k].vals])
  IN CASE Len(els) # 11 -> [kind |-> "none", rec |-> <<>>]
       [] \E k \in DOMAIN els : ex[k].loops -> [kind |-> "loops", rec |-> <<>>]
       [] Len(data) # 13 -> [kind |-> "value_error", rec |-> <<>>]
       [] OTHER -> [kind |-> "record", rec |-> data]

(***************************************************************************)
(* convert_to_metric_line, lines 126-129: the influx line of a record.    *)
(* Only ',' of the query source is replaced; nothing else is escaped.     *)
(* Measurement and keys are written as one character each.                *)
(***************************************************************************)
Tag(key, v) == <<",", key, "=">> \o v

convert_to_metric_line(r) ==
  FlattenSeq(<< <<"m">>, Tag("n", r[3]), Tag("i", r[4]), Tag("s", r[5]),
                Tag("q", ReplaceAll(r[12], ",", ";")), Tag("h", r[8]), Tag("r", r[2]),
                <<" ", "t", "=">>, r[7] >>)

SPInit ==
  /\ plRec \in LoggedRecords /\ plOut = [kind |-> "pending", rec |-> <<>>]
  /\ plLine = <<>>

SPConvert ==
  /\ plOut.kind = "pending"
  /\ plOut' = convert_slow_log_record(Format(plRec))
  /\ UNCHANGED <<plRec, plLine>>

\* _send_slow_logs_metrics, lines 304-307: a record kept by the filter is
\* printed as its metric line.
SPSend ==
  /\ plOut.kind = "record" /\ plLine = <<>>
  /\ plLine' = convert_to_metric_line(plOut.rec)
  /\ UNCHANGED <<plRec, plOut>>

SPNext == SPConvert \/ SPSend

-----------------------------------------------------------------------------
\* A text holds t as a contiguous part.
Holds(s, t) == \E suffix \in Suffixes(s) : IsPrefix(t, suffix)

\* The text a field is written as: total_hits, field 8, with ' hits' after it.
Written(r, k) == IF k = 8 THEN r[8] \o Hits ELSE r[k]

\* A field is plain: its printed text holds no separator and no bracket, and
\* only total_hits ends in ' hits'.
Plain(r, k) ==
  /\ ~Holds(Written(r, k), Sep)
  /\ ~Holds(r[k], <<"[">>) /\ ~Holds(r[k], <<"]">>)
  /\ k # 8 => ~EndsWithHits(r[k])

(***************************************************************************)
(* The unit tests' assumption: the line of a record whose fields are all  *)
(* plain is read back as that record, every field in its place (the ' hits'*)
(* suffix of total_hits removed).                                          *)
(***************************************************************************)
PlainLinesRoundTrip ==
  (plOut.kind # "pending" /\ \A k \in 1..13 : Plain(plRec, k)) =>
    plOut = [kind |-> "record", rec |-> plRec]

(***************************************************************************)
(* Whatever the query source holds (a JSON array, a ", " in a string, a   *)
(* stray bracket), the line is dropped, rejected, or read with every other *)
(* field intact: a source never shifts a value into another field, so the  *)
(* index, shard and took_millis the filter keys and ranks on are the       *)
(* logged ones.                                                             *)
(***************************************************************************)
SourceConfined ==
  (plOut.kind # "pending" /\ \A k \in (1..13) \ {12} : Plain(plRec, k)) =>
    \/ plOut.kind \in {"none", "value_error"}
    \/ plOut.kind = "record" /\ \A k \in (1..13) \ {12} : plOut.rec[k] = plRec[k]

=============================================================================

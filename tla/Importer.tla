------------------------------ MODULE Importer ------------------------------
(***************************************************************************)
(* services/importer.py with the row rules of schemas/data_record.py.  A   *)
(* file is its extension, whether it is too large, whether its frame can   *)
(* be read (UTF-8, the header's columns, a JSON array; a csv.Error, which  *)
(* parse_csv does not catch, ends the request as well) and its lines:      *)
(*   "good", "bad"  a row or entry that passes or fails its validation     *)
(*   "blank"        a CSV line with separators only                        *)
(*   "empty"        a CSV line without a character, which csv.DictReader   *)
(*                  skips and does not count                               *)
(* A JSON array has entries of the first two kinds only.                   *)
(***************************************************************************)
EXTENDS Naturals, Sequences

CONSTANT MaxImportRecords

ASSUME ImporterAssumption == MaxImportRecords \in Nat

Line == {"good", "bad", "blank", "empty"}
Upload == [kind : {"csv", "json", "other"}, large : BOOLEAN, readable : BOOLEAN,
           lines : Seq(Line)]

\* The loop of parse_csv and parse_json over the first n lines: the rows so far,
\* the position of the last line, and that of the first one that does not pass.
Rows(lines, firstPosition) ==
  LET loop[n \in 0..Len(lines)] ==
        IF n = 0 THEN [rows |-> 0, position |-> firstPosition - 1, bad |-> 0]
        ELSE LET before == loop[n - 1]
                 here == before.position + 1
             IN  IF before.bad # 0 \/ lines[n] = "empty" THEN before
                 ELSE [rows |-> IF lines[n] = "good" THEN before.rows + 1 ELSE before.rows,
                       position |-> here,
                       bad |-> IF lines[n] = "bad" THEN here ELSE 0]
  IN  loop[Len(lines)]

ParseCsv(file) == Rows(file.lines, 2)

ParseJson(file) == Rows(file.lines, 1)

\* parse_upload(): the number of rows, or why there are none and, for a row
\* that does not pass, its position.
ParseUpload(file) ==
  LET refused(why) == [ok |-> FALSE, rows |-> 0, why |-> why, at |-> 0]
      parsed == IF file.kind = "csv" THEN ParseCsv(file) ELSE ParseJson(file)
  IN  IF file.kind \notin {"csv", "json"}    THEN refused("extension")
      ELSE IF file.large                     THEN refused("size")
      ELSE IF ~file.readable                 THEN refused("frame")
      ELSE IF parsed.bad # 0                 THEN [refused("row") EXCEPT !.at = parsed.bad]
      ELSE IF parsed.rows = 0                THEN refused("no records")
      ELSE IF parsed.rows > MaxImportRecords THEN refused("limit")
      ELSE [ok |-> TRUE, rows |-> parsed.rows, why |-> "none", at |-> 0]
=============================================================================

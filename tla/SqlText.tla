------------------------------ MODULE SqlText ------------------------------
(***************************************************************************)
(* Texts of src/src/connection/cursor.rs: a statement with its parameters,  *)
(* and the table in which the text protocol answers a query.  A text is a   *)
(* sequence of characters, of which only "?" and "'" are special.           *)
(***************************************************************************)
EXTENDS Naturals, Sequences, SequencesExt

\* A parameter: [str |-> is it a string, text |-> its characters].

\* mutant: quotes are not doubled.
PlainLiteral(param) ==
  IF param.str THEN <<"'">> \o param.text \o <<"'">> ELSE param.text

to_sql_literal(param) ==
  IF param.str
  THEN <<"'">>
       \o FlattenSeq([j \in DOMAIN param.text |->
                        IF param.text[j] = "'" THEN <<"'", "'">> ELSE <<param.text[j]>>])
       \o <<"'">>
  ELSE param.text

\* The first "?" of the query, which may be one of an earlier literal.
PutFirst(query, literal) ==
  IF "?" \in Range(query)
  THEN LET pos == SelectInSeq(query, LAMBDA c : c = "?")
       IN  SubSeq(query, 1, pos - 1) \o literal \o SubSeq(query, pos + 1, Len(query))
  ELSE query

build_query(sql, params) ==
  FoldLeft(LAMBDA query, param : PutFirst(query, to_sql_literal(param)),
           Append(sql, ";"), params)

---------------------------------------------------------------------------
(* A line of a response is whether it starts with "|", and its cells; Blank *)
(* is a cell of spaces.                                                     *)

Blank == ""

Values(line) == SelectSeq(line.cells, LAMBDA cell : cell # Blank)

\* mutant: a line that lacks cells is a row too.
AnyRows(lines) ==
  LET header == SelectInSeq(lines, LAMBDA line : line.bar)
      rest   == SelectSeq(SubSeq(lines, header + 1, Len(lines)), LAMBDA line : line.bar)
  IN  IF header = 0 THEN <<>> ELSE [n \in DOMAIN rest |-> Values(rest[n])]

\* The first line with a bar is the header; rows that do not have as many
\* cells as it has are warned of and left out.
parse_legacy_response(lines) ==
  LET header == SelectInSeq(lines, LAMBDA line : line.bar)
      rest   == SelectSeq(SubSeq(lines, header + 1, Len(lines)), LAMBDA line : line.bar)
      rows   == [n \in DOMAIN rest |-> Values(rest[n])]
  IN  IF header = 0 THEN <<>>
      ELSE SelectSeq(rows, LAMBDA row : Len(row) = Len(Values(lines[header])))
=============================================================================

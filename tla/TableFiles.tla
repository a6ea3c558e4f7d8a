------------------------------ MODULE TableFiles ------------------------------
(* A table that is encoded, exported to a binary file or to CSV, directly  *)
(* or through Validate, and imported again in place of the stored one.     *)
(* In a CSV file a character is a number; an integer is written as one     *)
(* character, and the word null is one.  Line breaks of other systems and  *)
(* the digits of floating-point numbers are left out.                      *)
EXTENDS SegmentReaders, BinaryFiles

CONSTANTS FileTables,     \* the tables: columns, rows, chunk size, what the chunks are sorted by
          ChunkSizes,     \* chunk sizes to import CSV files with
          MaxFileSteps,   \* encodings, exports and imports, a bound of the model
          ExportAnything  \* are tables exported that the writers are known to lose?

VARIABLES content,  \* the columns and rows of the table
          stored,   \* the table of the storage manager
          file,     \* the file that was exported last, or NoFile
          fileSteps
fileVars == <<content, stored, file, fileSteps>>

NoFile == [format |-> "none"]
NoContent == [rows |-> <<>>]

QuoteChar == 97   \* quote and escape character are the same
SeparatorChar == 98
DelimiterChar == 99
NullWord == 96
NumberBase == 200
DefaultChunkSize == 65535

-----------------------------------------------------------------------------
(* Tables of value segments.                                                *)

FromValue(type, v) == IF v = Null THEN Position(TRUE, Default(type)) ELSE Position(FALSE, v)
FromRows(columns, rs) == [r \in DOMAIN rs |-> [c \in DOMAIN columns |-> FromValue(columns[c].type, rs[r][c])]]

\* A value segment has NULL flags if its column is nullable.
ValueSegment(col, ps) == [Unencoded(col.type, ps) EXCEPT !.nulls = IF col.nullable THEN @ ELSE <<>>]

ChunkOf(columns, rs, sorted) ==
  [size |-> Len(rs), sorted |-> sorted,
   segments |-> [c \in DOMAIN columns |-> ValueSegment(columns[c], [o \in DOMAIN rs |-> rs[o][c]])]]

Pieces(seq, n) == [k \in 1..CeilDiv(Len(seq), n) |-> SubSeq(seq, (k - 1) * n + 1, Min({k * n, Len(seq)}))]

TableOf(columns, rs, n, sorted) ==
  LET pieces == Pieces(rs, n)
  IN [outcome |-> "table", columns |-> columns, chunkSize |-> n,
      chunks |-> [k \in DOMAIN pieces |-> ChunkOf(columns, pieces[k], IF k \in DOMAIN sorted THEN sorted[k] ELSE <<>>)]]

\* The positions of a segment, without what is stored for a NULL.
Cell(type, p) == IF IsNull(p) THEN FromValue(type, Null) ELSE p
CellsWithoutNulls(type, ps) == [i \in DOMAIN ps |-> Cell(type, ps[i])]
CellsOf(seg) == CellsWithoutNulls(seg.type, IF seg.encoding = "Reference" THEN seg.cells ELSE PositionsOf(seg))

RowsOfCells(n, cells) == [o \in 1..n |-> [c \in DOMAIN cells |-> cells[c][o]]]
RowsOfChunk(chunk) == RowsOfCells(chunk.size, [c \in DOMAIN chunk.segments |-> CellsOf(chunk.segments[c])])
RowsByChunk(t) == [k \in DOMAIN t.chunks |-> RowsOfChunk(t.chunks[k])]

\* What Validate returns for a table all of whose rows are visible: references to them.
References(t) ==
  [t EXCEPT !.chunkSize = DefaultChunkSize, !.chunks = [k \in DOMAIN @ |-> [@[k] EXCEPT !.segments = [c \in DOMAIN @ |->
     [encoding |-> "Reference", type |-> @[c].type, cells |-> CellsOf(@[c])]]]]]

-----------------------------------------------------------------------------
(* Writing CSV: all strings are quoted, and quotes in them doubled.         *)

EscapeChars(s) == FlattenSeq([i \in DOMAIN s |-> IF s[i] = QuoteChar THEN <<QuoteChar, QuoteChar>> ELSE <<s[i]>>])
Field(type, p) == CASE IsNull(p) -> <<>>
                    [] ~IsNull(p) /\ type = "string" -> <<QuoteChar>> \o EscapeChars(p.value) \o <<QuoteChar>>
                    [] ~IsNull(p) /\ type = "int" -> <<NumberBase + p.value>>
Line(columns, row) ==
  FlattenSeq([c \in DOMAIN columns |-> (IF c = 1 THEN <<>> ELSE <<SeparatorChar>>) \o Field(columns[c].type, row[c])])
  \o <<DelimiterChar>>
Lines(columns, rs) == FlattenSeq([i \in DOMAIN rs |-> Line(columns, rs[i])])
CsvFile(t) == [format |-> "csv", complete |-> TRUE, columns |-> t.columns, items |-> Lines(t.columns, FlattenSeq(RowsByChunk(t)))]

-----------------------------------------------------------------------------
(* Reading CSV: the ends of the fields of a chunk are found first, and the  *)
(* fields are converted by a task for the chunk.                            *)

FieldEnds(chars, n) ==
  FoldLeft(LAMBDA s, i :
             CASE s.lines = n -> s
               [] s.lines # n /\ chars[i] = QuoteChar -> [s EXCEPT !.quoted = ~@]
               [] s.lines # n /\ ~s.quoted /\ chars[i] \in {SeparatorChar, DelimiterChar} ->
                    [s EXCEPT !.ends = Append(@, i), !.lines = IF chars[i] = DelimiterChar THEN @ + 1 ELSE @]
               [] OTHER -> s,
           [lines |-> 0, quoted |-> FALSE, ends |-> <<>>], [i \in DOMAIN chars |-> i]).ends

\* Of two escape characters in a row the first one is dropped.
Unescape(field) ==
  IF field = <<>> \/ field[1] # QuoteChar THEN field
  ELSE FoldLeft(LAMBDA s, ch : IF ch = QuoteChar /\ ~s.escaped THEN [s EXCEPT !.escaped = TRUE]
                               ELSE [text |-> Append(s.text, ch), escaped |-> FALSE],
                [text |-> <<>>, escaped |-> FALSE], SubSeq(field, 2, Len(field) - 1)).text

ValueOfText(type, text) ==
  IF type = "string" THEN Position(FALSE, text)
  ELSE IF Len(text) = 1 /\ text[1] >= NumberBase - 2^WordBits THEN Position(FALSE, text[1] - NumberBase) ELSE Failed

\* A mutant: the quotes are removed before the field is looked at.
ConvertedUnquoted(col, field) ==
  LET text == Unescape(field)
  IN CASE col.nullable /\ text = <<>> -> FromValue(col.type, Null)
       [] text = <<NullWord>> -> Failed
       [] OTHER -> ValueOfText(col.type, text)

\* An empty field is a NULL, the bare word is refused.
Converted(col, field) ==
  CASE col.nullable /\ field = <<>> -> FromValue(col.type, Null)
    [] field = <<NullWord>> -> Failed
    [] OTHER -> ValueOfText(col.type, IF col.type = "string" THEN Unescape(field) ELSE field)

ParsedRows(columns, chars, ends) ==
  LET field(i) == SubSeq(chars, IF i = 1 THEN 1 ELSE ends[i - 1] + 1, ends[i] - 1)
  IN [r \in 1..Len(ends) \div Len(columns) |->
        [c \in DOMAIN columns |-> Converted(columns[c], field((r - 1) * Len(columns) + c))]]

\* Chunk after chunk, each up to the end of its last field.
RECURSIVE ParsedChunks(_, _, _)
ParsedChunks(columns, chars, n) ==
  LET ends == FieldEnds(chars, n)
  IN IF chars = <<>> THEN <<>>
     ELSE IF ends = <<>> \/ Len(ends) % Len(columns) # 0 THEN <<<<<<Failed>>>>>>
     ELSE <<ParsedRows(columns, chars, ends)>> \o ParsedChunks(columns, SubSeq(chars, ends[Len(ends)] + 1, Len(chars)), n)

\* A file that begins with a line break counts as empty.
ParsedCsv(f, n) ==
  LET empty == f.items = <<>> \/ f.items[1] = DelimiterChar
      chunks == IF empty THEN <<>> ELSE ParsedChunks(f.columns, f.items, n)
      failed == \E k \in DOMAIN chunks : \E r \in DOMAIN chunks[k] : \E c \in DOMAIN chunks[k][r] : chunks[k][r][c] = Failed
  IN IF failed THEN NoTable
     ELSE [outcome |-> "table", columns |-> f.columns, chunkSize |-> n,
           chunks |-> [k \in DOMAIN chunks |-> ChunkOf(f.columns, chunks[k], <<>>)]]

-----------------------------------------------------------------------------
\* What the writers lose: NULL flags in a column that has no NULLs, which re-encoding leaves in an unencoded
\* segment; strings and NULLs behind references; a NULL alone in the first line.
Exportable(t, format) ==
  IF format = "csv" THEN ~(Len(t.columns) = 1 /\ content.rows # <<>> /\ IsNull(content.rows[1][1]))
  ELSE \A k \in DOMAIN t.chunks : \A c \in DOMAIN t.columns :
         LET seg == t.chunks[k].segments[c]
         IN /\ seg.encoding = "Unencoded" /\ ~t.columns[c].nullable => seg.nulls = <<>>
            /\ seg.encoding = "Reference" => seg.type = "int" /\ ~t.columns[c].nullable

Replacement(t) == IF t = NoTable THEN stored ELSE t
Parsed(n) == IF file.format = "csv" THEN ParsedCsv(file, n) ELSE ParsedBinary(file.items)

FilesInit ==
  \E t \in FileTables :
    /\ content = [columns |-> t.columns, rows |-> FromRows(t.columns, t.rows)]
    /\ stored = TableOf(t.columns, content.rows, t.chunkSize, t.sorted)
    /\ file = NoFile /\ fileSteps = 0

NoFiles == content = NoContent /\ stored = NoTable /\ file = NoFile /\ fileSteps = 0

\* ChunkEncoder on one column of all chunks.
EncodeColumn(c, spec) ==
  /\ Supports(spec, stored.columns[c].type)
  /\ \E k \in DOMAIN stored.chunks : ~HasSpec(stored.chunks[k].segments[c], spec)
  /\ stored' = [stored EXCEPT !.chunks = [k \in DOMAIN @ |->
       LET seg == @[k].segments[c] IN IF HasSpec(seg, spec) THEN @[k] ELSE [@[k] EXCEPT !.segments[c] = EncodeSegment(seg, spec)]]]
  /\ UNCHANGED <<content, file>>

Write(t, format) ==
  /\ ExportAnything \/ Exportable(t, format)
  /\ file' = IF format = "csv" THEN CsvFile(t) ELSE BinaryFile(t)

\* COPY exports a validated table, others the stored one.
Export(format, validated) ==
  /\ Write(IF validated THEN References(stored) ELSE stored, format)
  /\ UNCHANGED <<content, stored>>

\* A file that cannot be parsed leaves the stored table; otherwise the new table takes its place.
Import(n) ==
  /\ file # NoFile
  /\ stored' = Replacement(Parsed(n))
  /\ UNCHANGED <<content, file>>

FilesNext ==
  /\ stored # NoTable /\ fileSteps < MaxFileSteps /\ fileSteps' = fileSteps + 1
  /\ \/ \E c \in DOMAIN stored.columns, spec \in Specs : EncodeColumn(c, spec)
     \/ \E format \in {"binary", "csv"}, validated \in BOOLEAN : Export(format, validated)
     \/ \E n \in ChunkSizes : Import(n)

-----------------------------------------------------------------------------
\* NULLs come first, whichever the mode.
ClaimHolds(rs, claim) ==
  \A i, j \in DOMAIN rs : i < j =>
    LET x == rs[i][claim[1]] y == rs[j][claim[1]]
    IN IsNull(x) \/ (~IsNull(y) /\ IF claim[2] = "asc" THEN x.value <= y.value ELSE x.value >= y.value)

HasRows(t, parts) ==
  /\ FlattenSeq(parts) = content.rows
  /\ \A k \in DOMAIN parts : \A i \in DOMAIN t.chunks[k].sorted : ClaimHolds(parts[k], t.chunks[k].sorted[i])
HasContent(t) == t # NoTable /\ t.columns = content.columns /\ HasRows(t, RowsByChunk(t))

HoldsTable(t, complete) == IF complete THEN HasContent(t) ELSE t = NoTable

\* Whatever a table has gone through, its file holds its columns, its rows in their order, and claims of
\* its chunks that are true; a file whose writing has failed is not taken for a table.
FilesExact ==
  content # NoContent =>
    /\ HasContent(stored)
    /\ file # NoFile => \A n \in ChunkSizes : HoldsTable(Parsed(n), file.complete)
=============================================================================

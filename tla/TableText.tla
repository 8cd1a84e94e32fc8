----------------------------- MODULE TableText -----------------------------
(***************************************************************************)
(* How the rows of a CSV file, a sheet or a table in a document become     *)
(* lines of text (knowledge.py).  A cell is one of a few texts: the empty  *)
(* one, words, a value (it holds a digit or a mark of one) and a long text.*)
(* A line is its row's number and the pairs of a label and a cell; a label *)
(* is the header over the cell, or the number of its column.  A CSV file   *)
(* is cleaned as a text before its rows are read: a record of its lines,   *)
(* each the cells between the separators, and of whether these are tabs.   *)
(* The separator that is left in the text is taken to be found; a cell     *)
(* holds no separator, no quote and no line break.                         *)
(***************************************************************************)
EXTENDS Integers, Sequences, SequencesExt, FiniteSets

CONSTANTS
  Values, LongTexts,
  Merge(_)         \* texts with a blank between them, which make one text

NoText == ""      \* an empty cell, or no header

InOrder(S) == [k \in 1..Cardinality(S) |-> CHOOSE n \in S : Cardinality({m \in S : m <= n}) = k]

Columns(cells) == InOrder({n \in DOMAIN cells : cells[n] # NoText})
Filled(cells) == [k \in DOMAIN Columns(cells) |-> cells[Columns(cells)[k]]]

(* Trailing empty cells go, columns stay. *)
_normalize_table_row(row) ==
  LET last == {n \in 1..Len(row) : row[n] # NoText /\ \A k \in (n + 1)..Len(row) : row[k] = NoText}
  IN  IF last = {} THEN <<>> ELSE SubSeq(row, 1, CHOOSE n \in last : TRUE)

(* Whether the cleaning of a CSV file leaves nothing of a line: tabs are blanks to it,    *)
(* other separators are not.                                                              *)
Bare(file, n) ==
  IF file.tabs THEN Filled(file.rows[n]) = <<>> ELSE file.rows[n] \in {<<>>, <<NoText>>}

(* The lines that are left: none bare at either end, and one of several bare ones.        *)
CleanLines(file) ==
  LET said == {n \in DOMAIN file.rows : ~Bare(file, n)}
      between == {n \in DOMAIN file.rows \ said : n - 1 \in said /\ \E m \in said : n < m}
  IN  InOrder(said \cup between)

(* Tabs become blanks before the separator is looked for: such a line is a single cell.   *)
_clean_extracted_text(file) ==
  LET at == CleanLines(file)
  IN  [k \in DOMAIN at |-> IF file.tabs THEN <<Merge(Filled(file.rows[at[k]]))>>
                           ELSE file.rows[at[k]]]

(* Rows are numbered as they stand in the sheet, the document's table or the cleaned text *)
(* of a CSV file; empty ones are passed over.                                             *)
Parsed(table) ==
  LET at == InOrder({n \in DOMAIN table : _normalize_table_row(table[n]) # <<>>})
  IN  [k \in DOMAIN at |-> [number |-> at[k], cells |-> _normalize_table_row(table[at[k]])]]

_looks_like_header_row(cells) ==
  LET texts == Filled(cells)
  IN  /\ Len(texts) >= 2
      /\ Cardinality(ToSet(texts)) = Len(texts)
      /\ ToSet(texts) \cap (Values \cup LongTexts) = {}

Pair(n, header, cell) == [column |-> n, header |-> header, cell |-> cell]

\* mutant: the cells are taken for the filled columns from the left
PairsByOrder(cells, headers) ==
  LET at == Columns(cells)
  IN  [i \in DOMAIN at |-> Pair(i, IF i <= Len(headers) THEN headers[i] ELSE NoText, cells[at[i]])]

(* A header that is empty or missing leaves the number of the column as the label. *)
_format_table_row(cells, headers) ==
  LET at == Columns(cells)
  IN  [i \in DOMAIN at |->
        Pair(at[i], IF at[i] <= Len(headers) THEN headers[at[i]] ELSE NoText, cells[at[i]])]

(* The first row is the headers if it looks like them, and an ordinary row if not. *)
_format_table_rows(parsed) ==
  LET headers == IF parsed # <<>> /\ _looks_like_header_row(parsed[1].cells)
                 THEN parsed[1].cells ELSE <<>>
      body == IF headers = <<>> THEN parsed ELSE Tail(parsed)
  IN  [headers |-> headers,
       lines |-> [i \in DOMAIN body |-> [number |-> body[i].number,
                                         pairs |-> _format_table_row(body[i].cells, headers)]]]

-----------------------------------------------------------------------------
(* Every filled cell is in the text once, in the order of the table, in a line that     *)
(* carries its own row's number, beside its own column or the header over it.           *)
CellsKept(table) ==
  LET text == _format_table_rows(Parsed(table))
      first == IF text.headers = <<>> THEN {} ELSE {Parsed(table)[1].number}
      numbers == {text.lines[i].number : i \in DOMAIN text.lines}
  IN  /\ numbers \cup first = {n \in DOMAIN table : Filled(table[n]) # <<>>}
      /\ numbers \cap first = {} /\ Cardinality(numbers) = Len(text.lines)
      /\ \A i \in DOMAIN text.lines :
           LET row == table[text.lines[i].number]
               pairs == text.lines[i].pairs
           IN  /\ [k \in DOMAIN pairs |-> pairs[k].cell] = Filled(row)
               /\ \A k \in DOMAIN pairs :
                    /\ row[pairs[k].column] = pairs[k].cell
                    /\ \A n \in first : pairs[k].column <= Len(text.headers) =>
                         pairs[k].header = table[n][pairs[k].column]

(* The same holds of the rows that the cleaning leaves of a CSV file, and these are its  *)
(* lines in their order, every filled one with all its cells: apart from each other, or  *)
(* as the one cell that a tab-separated line becomes.  The number a line carries is that *)
(* of the cleaned text, not of the file.                                                 *)
CsvKept(file) ==
  LET text == _clean_extracted_text(file)
      at == CleanLines(file)
      said(row) == IF file.tabs THEN <<Merge(Filled(row))>> ELSE Filled(row)
  IN  /\ CellsKept(text)
      /\ \A j, k \in DOMAIN text : j < k => at[j] < at[k]
      /\ \A n \in DOMAIN file.rows : Filled(file.rows[n]) # <<>> =>
           \E k \in DOMAIN text : at[k] = n /\ Filled(text[k]) = said(file.rows[n])

Garbled(tables) == {t \in tables : ~CellsKept(t)}
GarbledCsv(files) == {f \in files : ~CsvKept(f)}
=============================================================================

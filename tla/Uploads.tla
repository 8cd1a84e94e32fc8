------------------------------ MODULE Uploads ------------------------------
(***************************************************************************)
(* What is uploaded to the knowledge base, before it becomes chunks: texts *)
(* cut to a size with an overlap, and sheets, tables and CSV files laid    *)
(* out as lines.                                                           *)
(***************************************************************************)
EXTENDS KnowledgeIndex, TextSplit, TableText

CONSTANTS Texts, Sizes, Overlaps, Tables, CsvFiles

Character == [id : Nat, kind : {".", "e", "x", "br"}]

(* upload_document takes sizes from 50 on, which is the window, and overlaps from 0 on.   *)
(* An overlap of one is left out: its boundary is looked for up to twenty characters      *)
(* ahead, beyond the end of the piece before.  Texts merge into one that is empty only    *)
(* if there are none.                                                                     *)
ASSUME UploadAssumption ==
  /\ Window \in Nat \ {0} /\ Least \in Nat \ {0}
  /\ Texts \subseteq Seq(Seq(Seq(Character)))
  /\ \A size \in Sizes : size \in Nat /\ Window <= size
  /\ Overlaps \subseteq Nat \ {1}
  /\ Tables \subseteq Seq(Seq(STRING))
  /\ CsvFiles \subseteq [tabs : BOOLEAN, rows : Seq(Seq(STRING))]
  /\ \A file \in CsvFiles : \A n \in DOMAIN file.rows :
       LET texts == Filled(file.rows[n])
       IN  Merge(texts) \in STRING /\ (Merge(texts) = NoText <=> texts = <<>>)

LostTexts == Lossy(Texts, Sizes, Overlaps)
GarbledTables == Garbled(Tables)
GarbledFiles == GarbledCsv(CsvFiles)

(* No character of an uploaded text is left out of its chunks, whatever the sizes, the    *)
(* boundaries and the overlap.                                                            *)
NoTextLost == rows \subseteq used => LostTexts = {}

(* No cell of an uploaded table or CSV file is lost or labelled with another column of    *)
(* what is parsed: see CellsKept and CsvKept.                                             *)
NoCellLost == rows \subseteq used => GarbledTables = {} /\ GarbledFiles = {}

(* What is uploaded comes into the chunks whole, a text as well as a table                *)
(* (_split_text, _clean_extracted_text, _format_table_rows).                              *)
UploadWhole == NoTextLost /\ NoCellLost
=============================================================================

--------------------------------- MODULE Csv ---------------------------------
(***************************************************************************)
(* The reading of an uploaded CSV file: its cells, character by character, *)
(* and which of them a spreadsheet would evaluate.  Beside it a writer, as *)
(* the programs that export such files: it knows the cells, separates and  *)
(* quotes them, ends rows in its own way, and may leave a quote open.      *)
(***************************************************************************)
EXTENDS Naturals, SequencesExt

CONSTANTS
    Contents,     \* cells: [text |-> characters, formula |-> whether it is evaluated]
    Separators,   \* delimiters in use
    Breaks,       \* ways to end a row
    MaxCells      \* cells of a file

VARIABLES
    written,      \* the rows the writer has finished
    writing,      \* the cells of the row it is in
    ends,         \* how it ends its rows
    text,         \* the file
    left          \* it left a quote open

csvVars == <<written, writing, ends, text, left>>

Quote == "quote"
CR == "cr"
LF == "lf"
Delimiters == {",", ";", "tab", "|"}
Blanks == {"blank", "tab", CR, LF}
Digits == {"1", "2"}

-----------------------------------------------------------------------------
(* parseCsvRows.                                                           *)

Empty == [rows |-> <<>>, row |-> <<>>, cell |-> <<>>, inQuotes |-> FALSE, skip |-> FALSE]
Following(s, i) == IF i < Len(s) THEN s[i + 1] ELSE "end"
Longer(p, char) == [p EXCEPT !.cell = Append(@, char)]
EndOfCell(p) == [p EXCEPT !.row = Append(@, p.cell), !.cell = <<>>]
EndOfRow(p) == [p EXCEPT !.rows = Append(@, Append(p.row, p.cell)), !.row = <<>>, !.cell = <<>>]

InQuotes(s, p, i) ==
    CASE s[i] # Quote -> Longer(p, s[i])
      [] s[i] = Quote /\ Following(s, i) = Quote -> [Longer(p, Quote) EXCEPT !.skip = TRUE]
      [] OTHER -> [p EXCEPT !.inQuotes = FALSE]

QuoteOpensAnywhere(s, p, i) ==
    CASE s[i] = Quote -> [p EXCEPT !.inQuotes = TRUE]
      [] s[i] \in Delimiters -> EndOfCell(p)
      [] s[i] = CR /\ Following(s, i) = LF -> p
      [] s[i] \in {CR, LF} -> EndOfRow(p)
      [] OTHER -> Longer(p, s[i])
Unquoted(s, p, i) ==
    CASE s[i] = Quote /\ p.cell = <<>> -> [p EXCEPT !.inQuotes = TRUE]
      [] s[i] \in Delimiters -> EndOfCell(p)
      [] s[i] = CR /\ Following(s, i) = LF -> p
      [] s[i] \in {CR, LF} -> EndOfRow(p)
      [] OTHER -> Longer(p, s[i])

Step(s, p, i) == CASE p.skip -> [p EXCEPT !.skip = FALSE]
                   [] p.inQuotes -> InQuotes(s, p, i)
                   [] OTHER -> Unquoted(s, p, i)

ParseCsvRows(s) ==
    LET p == FoldLeft(LAMBDA q, i : Step(s, q, i), Empty, [i \in 1..Len(s) |-> i])
    IN [rows |-> IF p.cell # <<>> \/ p.row # <<>> THEN EndOfRow(p).rows ELSE p.rows,
        unterminatedQuote |-> p.inQuotes]

-----------------------------------------------------------------------------
(* findActiveContent, of a CSV file.                                       *)

Lead(cell) == SelectInSeq(cell, LAMBDA c : c \notin Blanks)      \* 0: nothing but blanks
From(cell, i) == SubSeq(cell, i, Len(cell))
AllOf(cell, chars) == cell # <<>> /\ ToSet(cell) \subseteq chars
Whole(cell) ==
    \/ AllOf(cell, Digits)
    \/ \E i \in DOMAIN cell : /\ cell[i] \in {".", ","}
                              /\ AllOf(SubSeq(cell, 1, i - 1), Digits) /\ AllOf(From(cell, i + 1), Digits)
FormulaLead(cell) == Lead(cell) # 0 /\ cell[Lead(cell)] \in {"=", "@"}
SignedLead(cell) == Lead(cell) # 0 /\ cell[Lead(cell)] \in {"+", "-"}
PlainNumber(cell) ==
    \E n \in 0..Len(cell) :
        /\ ToSet(From(cell, Len(cell) - n + 1)) \subseteq Blanks
        /\ Whole(SubSeq(cell, Lead(cell) + 1, Len(cell) - n))

Evaluates(cell) == FormulaLead(cell) \/ (SignedLead(cell) /\ ~PlainNumber(cell))
FindActiveContent(s) ==
    LET parsed == ParseCsvRows(s) IN
    IF \E row \in ToSet(parsed.rows) : \E cell \in ToSet(row) : Evaluates(cell) THEN "csv_formula"
    ELSE IF parsed.unterminatedQuote THEN "csv_malformed_unterminated_quote"
    ELSE "none"

-----------------------------------------------------------------------------
(* The writer.                                                             *)

Doubled(cell) == FlattenSeq([i \in DOMAIN cell |-> IF cell[i] = Quote THEN <<Quote, Quote>> ELSE <<cell[i]>>])
(* What can stand without quotes: a stray quote inside is read as itself.  *)
Bare(cell) == /\ ToSet(cell) \cap (Delimiters \cup {CR, LF}) = {}
              /\ cell # <<>> => cell[1] # Quote
Forms(cell) == {<<Quote>> \o Doubled(cell) \o <<Quote>>} \cup (IF Bare(cell) THEN {cell} ELSE {})
Cells == FoldLeft(LAMBDA n, row : n + Len(row), Len(writing), written)

WriteCell ==
    /\ ~left /\ Cells < MaxCells
    /\ \E c \in Contents : \E form \in Forms(c.text) :
       \E separator \in IF writing = <<>> THEN {<<>>} ELSE {<<d>> : d \in Separators} :
           /\ writing' = Append(writing, c)
           /\ text' = text \o separator \o form
    /\ UNCHANGED <<written, ends, left>>

EndRow ==
    /\ ~left /\ writing # <<>>
    /\ written' = Append(written, writing) /\ writing' = <<>>
    /\ text' = text \o ends
    /\ UNCHANGED <<ends, left>>

LeaveOpen ==
    /\ ~left /\ writing = <<>>
    /\ left' = TRUE /\ text' = Append(text, Quote)
    /\ UNCHANGED <<written, writing, ends>>

Init == written = <<>> /\ writing = <<>> /\ ends \in Breaks /\ text = <<>> /\ left = FALSE
Next == WriteCell \/ EndRow \/ LeaveOpen
Spec == Init /\ [][Next]_csvVars

-----------------------------------------------------------------------------
Texts(row) == [i \in DOMAIN row |-> row[i].text]
Rows == written \o IF Texts(writing) \in {<<>>, <<<<>>>>} THEN <<>> ELSE <<writing>>

(* The reader sees the cells the writer meant, however it quotes,          *)
(* separates and ends them, judges each as a spreadsheet would, and does   *)
(* not vouch for a file whose quote never closes.                          *)
CellsAreSeen ==
    /\ ParseCsvRows(text).rows = [i \in DOMAIN Rows |-> Texts(Rows[i])]
    /\ FindActiveContent(text) =
         CASE \E i \in DOMAIN Rows : \E j \in DOMAIN Rows[i] : Rows[i][j].formula -> "csv_formula"
           [] left -> "csv_malformed_unterminated_quote"
           [] OTHER -> "none"
=============================================================================

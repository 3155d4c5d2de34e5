----------------------------- MODULE MCCsvLine -----------------------------
(***************************************************************************)
(* CsvLine for TLC: short texts over an alphabet for what fields hold, and  *)
(* longer ones over an alphabet for how lines end.                          *)
(***************************************************************************)
EXTENDS CsvLine

FieldChars == {",", " ", "1", "2", "-", ".", "A", "*"}
LineChars == {",", " ", "1", "LF", "CR", "NUL"}
Chars == FieldChars \cup LineChars
ShortTexts(chars, length) == UNION {[1..l -> chars] : l \in 0..length}
FieldsAndLines == ShortTexts(FieldChars, 4) \cup ShortTexts(LineChars, 5)
=============================================================================

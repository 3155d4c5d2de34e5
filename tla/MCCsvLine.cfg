\* The caller stops asking, or the null pointer was read.
CHECK_DEADLOCK FALSE
SPECIFICATION CsvSpec
CONSTANTS
  Alphabet <- Chars
  Texts <- FieldsAndLines
  Sizes = {1, 3}
  MaxCalls = 3
INVARIANTS FieldByField ValueIsField NothingFoundKeepsValue SafeWithinLine

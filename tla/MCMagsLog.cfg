SPECIFICATION Spec
CONSTANTS
  MaxSentences = 3
  MaxFixes = 1
  MaxAttitudes = 1
  MaxCommands = 3
INVARIANTS NoRowFromNothing SentenceKeepsUp RowIsOneMoment StoppedStaysStopped WholeStartsWrite

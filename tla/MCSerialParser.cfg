\* A line without an end fits, another behind it does not; reads of two bytes
\* cut lines and messages at every place. A message taken to begin in the data
\* of another can be as long as it takes to end in the data of the next but one.
SPECIFICATION FairSpec
CONSTANTS
  MaxLine = 4
  MsgRoom = 7
  MaxRaw = 6
  ReadMax = 2
  WireMax = 4
INVARIANTS
  TypeOK
  FixesHeard
PROPERTY Resynchronises
\* The receiver owes nothing, and the thread ends when the port fails.
CHECK_DEADLOCK FALSE

\* Two threads and three statements, one within the other or one after the
\* other, each with an operand or none, and two sinks at a time, among them the
\* program's own once or twice, which come and go.  The program ends if it
\* deletes a sink when there is none.
SPECIFICATION StreamSpec
CONSTANTS
  Threads = {t1, t2}
  Sinks = {"own"}
  Levels = {3}
  MaxSinks = 2
  MaxStatements = 3
  MaxPieces = 1
SYMMETRY Interchangeable
INVARIANTS OwnMessage EverySinkOnce
CHECK_DEADLOCK FALSE

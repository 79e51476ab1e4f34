CONSTANTS
  Nodes = {n1, n2, n3}
  Callers = {c1, c2, c3}
  Horizon = 2
  Never = 9
SPECIFICATION EventSpec
SYMMETRY Symmetry
INVARIANTS
  EventTypeOK ReportedExactlyOnce RepliesAreViews
  RejectionsStayTrue
PROPERTIES TerminalFrozen ImplementsClock

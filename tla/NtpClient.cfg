SPECIFICATION AnsweredSpec
CONSTANTS
  Servers = {s1, s2}
  Sockets = {0, 1}
  MboxSize = 2
  MaxCalls = 3
  None = None
INVARIANTS
  TypeOK
  AcceptedAnswersCall
  SocketDiscipline
PROPERTIES
  CallReturns

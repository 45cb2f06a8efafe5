\* Two messages in one room or two, two agents, two attempts; two faults of the
\* first message.
SPECIFICATION Spec
CONSTANTS
  None = None
  a = a
  b = b
  m1 = m1
  m2 = m2
  Agents = {a, b}
  Rooms = {"r1", "r2"}
  MaxSessions = 2
  Messages = {m1, m2}
  Questions = {m1, m2}
  Named = {None}
  Default = a
  Attempts = 2
  MaxFaults = 2
  Struck = {m1}
INVARIANTS
  TypeOK
  PointersSound
  VerdictMatchesConversation
PROPERTIES
  EveryMessageAnswered
CHECK_DEADLOCK FALSE

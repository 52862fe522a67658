SPECIFICATION MCSpec
CONSTANTS
  b1 = b1
  b2 = b2
  a1 = a1
  a2 = a2
  dm = dm
  edit = edit
  code = code
  hello = hello
  p1 = p1
  p2 = p2
  Replicas = {p1, p2}
  Pollers <- OneEach
  Bots = {b1, b2}
  Agents = {a1, a2}
  Person = person
  AnyBot = any
  Bindings <- OwnThenAny
  Team = {a1, a2}
  Lead = a2
  Posts = {dm, edit, code, hello}
  Groups = {hello}
  ToBot <- Recipients
  MessageId <- SharedIds
  PairCodes = {code}
  Cap = 1
  Repeats <- NoRepeats
  MaxFaults = 1
INVARIANTS
  TypeOK
  SeenOnce
PROPERTIES
  Reached
CHECK_DEADLOCK FALSE

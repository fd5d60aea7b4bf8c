SPECIFICATION Spec
CONSTANTS
  MainIds = {m1}
  ChildIds = {}
  Navs = {n1, n2}
  Contexts = {}
  Cap = None
  MaxDocs = 2
  None = None
PROPERTY OwnDocument
CHECK_DEADLOCK FALSE

SPECIFICATION FairSpec
CONSTANTS
  N = 4
  Producers = {p1, p2}
  Msgs = {a, b}
  NoMsg = NoMsg
  Nobody = Nobody
INVARIANTS
  TypeOK
  RaceFree
PROPERTIES
  FifoSpec
  KeepsPopping
CHECK_DEADLOCK FALSE

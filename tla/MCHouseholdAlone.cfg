SPECIFICATION AloneSpec
CONSTANTS
  Member = {a, b, c}
  FirstOwner = a
  Founders = {a, b}
  Row = {r1}
  Handler = {h1}
  Ops = {"signin", "join", "setup", "unlock", "change", "recover", "lock", "write", "approve", "decline", "remove", "leave", "drop", "transfer", "reset", "suspend", "resume", "restart", "fail"}
  MaxDek = 3
  MaxKeypair = 2
  MaxJoin = 1
  MaxText = 1
INVARIANTS TypeOK ExactlyOneOwner ActiveHoldCurrentKey OutsidersHoldNothing RingIsCurrent
PROPERTIES KeepsPromise
CHECK_DEADLOCK FALSE

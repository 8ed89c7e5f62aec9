SPECIFICATION CrossedSpec
CONSTANTS
  Member = {a, b, c}
  FirstOwner = a
  Founders = {a, b}
  Row = {r1}
  Handler = {h1, h2}
  Ops = {"signin", "join", "setup", "unlock", "lock", "write", "approve", "decline", "remove", "leave", "drop", "reset", "restart", "fail", "markfail", "revokefail"}
  MaxDek = 3
  MaxKeypair = 2
  MaxJoin = 1
  MaxText = 1
INVARIANTS OneRekeyAtATime FreezeCoversRekey MarkMeansFrozen SomeoneCanOpen
SYMMETRY SlotsAlike
CHECK_DEADLOCK FALSE

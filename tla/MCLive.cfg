SPECIFICATION LiveSpec
CONSTANTS
  Member = {a, b, c}
  FirstOwner = a
  Founders = {a, b, c}
  Row = {r1}
  Handler = {h1, h2}
  Ops = {"unlock", "write", "remove", "leave", "fail"}
  MaxDek = 3
  MaxKeypair = 1
  MaxJoin = 1
  MaxText = 1
  LastDay = 3
  Cadence = 1
  Desks = {d1}
  MaxFails = 1
PROPERTIES FreezeEnds CancellationSettles
CHECK_DEADLOCK FALSE

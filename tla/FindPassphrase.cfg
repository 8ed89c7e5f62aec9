SPECIFICATION Spec
CONSTANTS
  Member = {a, b}
  FirstOwner = a
  Founders = {a, b}
  Row = {r1}
  Handler = {h1, h2}
  Ops = {"change", "remove"}
  MaxDek = 2
  MaxKeypair = 1
  MaxJoin = 1
  MaxText = 0
PROPERTIES
  PassphraseKeepsSealedKey
CHECK_DEADLOCK FALSE

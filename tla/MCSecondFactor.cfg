SPECIFICATION FactorSpec
CONSTANTS
  Handler = {h1, h2}
  Code = {c1, c2}
  Ops = {"begin", "abandon", "confirm", "verify", "recover", "reissue", "disable", "admin"}
  MaxStep = 4
  MaxSecret = 2
  MaxSet = 2
INVARIANTS CodesWorkOnce EnabledHasCodes
PROPERTIES ReplacedCodesWereSeen
CHECK_DEADLOCK FALSE

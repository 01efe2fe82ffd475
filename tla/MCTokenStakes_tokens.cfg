\* Two accounts, two tokens, two unstakes at a time
CONSTANTS
  a = a
  b = b
  Accounts = {a, b}
  Nobody = Nobody
  Deniable = {b}
  NewIssuer = b
  MaxSupply = 2
  Config0 <- Off
  Configs <- OffOrOn
  MaxId = 1
SPECIFICATION Spec
INVARIANTS TypeOK SupplyIsSum StakesBacked
PROPERTY LockupKept

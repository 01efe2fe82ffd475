\* Two escrows among three accounts, three tokens
CONSTANTS
  s = s
  r = r
  a = a
  Keys = {k1, k2}
  Accounts = {s, r, a}
  Nobody = Nobody
  Wealth <- SenderPays
  Lifetimes = {1}
SPECIFICATION FairSpec
INVARIANTS TypeOK Solvent
PROPERTIES ImplementsSettlement FundsReleased

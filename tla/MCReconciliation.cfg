CONSTANTS
  None = None
  Order = {o1}
  Payment = {p1}
  Note = {}
  Tx = {t1}
  Channel = {"local", "network", "legacy"}
  Operated = {p1}
  MaxVersion = 3
  Supply = 1
SPECIFICATION Spec
INVARIANTS
  MoneyInvariant
  UnissuedProofStaysTrue

  

CONSTANTS
  None = None
  Order = {o1}
  Payment = {p1}
  Note = {}
  Tx = {t1}
  Channel = {"network"}
  Operated = {p1}
  MaxVersion = 4
  Supply = 1
SPECIFICATION Spec
PROPERTIES
  AbsenceIsFenced

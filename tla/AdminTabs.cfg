CONSTANTS
  Tabs = {t1, t2}
  LeftOpen = t1
  Browsers = {b1}
  Users = {u1, u2}
  Nothing = Nothing
  Cleared = Cleared
  MaxChanges = 1
SPECIFICATION Spec
CHECK_DEADLOCK FALSE
PROPERTY StaleTabLeaves

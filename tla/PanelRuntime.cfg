SPECIFICATION Spec
CONSTANTS
  None = None
  e1 = e1
  e2 = e2
  s1 = s1
  desk = desk
  less = less
  phone = phone
  Entity = {e1, e2}
  Slot = {s1}
  SlotOf <- OneSlot
  Host = {desk, less, phone}
  Headless = {less}
  Mobile = {phone}
  Loads = {desk, less}
  MaxConn = 3
INVARIANTS TypeOK HoldersAreRegistered MarksAreLeases TimersAreForTheLost AutomationIsKept
PROPERTIES PinnedIsNotYanked
SYMMETRY EntitySymmetry
VIEW WithoutHistory
CHECK_DEADLOCK FALSE

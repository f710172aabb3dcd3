\* A listed device reconnects while another is being added.
CONSTANTS
  None = None
  Places = {p}
  Mesh = {}
  HasBle = TRUE
  Manners = {"patient"}
  MaxSearch = 2
  MaxHasty = 0
SPECIFICATION Spec
PROPERTY OnlyInitial
CHECK_DEADLOCK FALSE

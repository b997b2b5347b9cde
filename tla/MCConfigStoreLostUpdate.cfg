CONSTANTS
  Updates = {u1, u2}
  Edits = {}
  None = None
  Absent = Absent
  Garbage = Garbage
SPECIFICATION Spec
INVARIANT AcknowledgedUpdateStays

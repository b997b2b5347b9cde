CONSTANTS
  Updates = {u1, u2}
  Edits = {}
  None = None
  Absent = Absent
  Garbage = Garbage
SPECIFICATION FairSpec
PROPERTY DiskCatchesUp

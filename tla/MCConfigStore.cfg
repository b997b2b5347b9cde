CONSTANTS
  Updates = {u1, u2}
  Edits = {e1}
  None = None
  Absent = Absent
  Garbage = Garbage
SPECIFICATION FairSpec
INVARIANT SnapshotsReachDiskInOrder
INVARIANT PollNeverSkipsAnEdit
PROPERTY UpdatesDoNotClobber
PROPERTY WriterKeepsUp

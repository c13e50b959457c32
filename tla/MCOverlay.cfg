CONSTANTS
  Docs = {d1, d2}
  MaxCount = 1
  Workers = {w}
  Guis = {g}
  Inodes = {i1, i2, i3}
  NoInode = NoInode
  None = None
  Torn = Torn
SYMMETRY Symmetry
SPECIFICATION Spec
INVARIANTS TypeOK QueueFileWhole
PROPERTIES OnlyLateWriters ImplementsAtomic

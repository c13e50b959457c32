CONSTANTS
  Pids = {1, 2, 3}
  Folders = {f1, f2}
  Sessions = {s1}
  NoPid = NoPid
  NoFolder = NoFolder
SPECIFICATION Spec
SYMMETRY Symmetry
INVARIANTS TypeOK OnlyUnseenRivals OneWorker WorkerIsNamed

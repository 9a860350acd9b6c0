SPECIFICATION Spec
CONSTANTS
  VIEW_SIZE = 2
  mFileSize = 5
  MaxSize = 2
  Byte = {0, 1}
  Zero = 0
  Faults = {"open", "mmap", "munmap"}
INVARIANTS
  TypeOK
  SuccessIsExact
  IInv
PROPERTIES
  NoStrayWrite

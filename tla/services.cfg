SPECIFICATION Spec
CONSTANTS
  Nobody = Nobody
  \* Files as blocks: one direct block, two behind the indirect one, and a disk
  \* too small for two full files.
  Procs = {p1, p2}
  Files = {f1, f2}
  Root = f1
  BSIZE = 2
  NDIRECT = 1
  NINDIRECT = 2
  NBlocks = 5
  MaxChunk = 3
  Sizes = {1, 5}
  MaxOps = 3
  \* UART: three CPUs may see the device idle at once.
  Writers = {p1, p2}
  Printers = {p3, p4}
  Handler = intr
  UART_TX_BUF_SIZE = 2
  FIFO = 3
  MaxOut = 4
  \* Console: the indices wrap after two rounds of the ring.
  Readers = {p1, p2}
  INPUT_BUF_SIZE = 3
  Wrap = 6
  ReadSizes = {1, 3}
  \* exec
  MAXARG = 2
  MaxSegments = 2
  OldSizes = {3}
  Segments <- MCSegments
  \* Open files: the table is full before the descriptors of two processes are.
  FProcs = {p1, p2}
  NFILE = 3
  NOFILE = 2
  \* Shell
  MAXARGS = 3
  MaxLine = 5
  Lines <- MCLines
  MaxForkFails = 1
INVARIANTS
  BitmapExact
  OutputFlows
  
  OneImage
  FilesExact
  ParsesAsWritten
  WiredAsWritten
  LinesEnd
PROPERTIES
  
  LineInputSpec
CHECK_DEADLOCK FALSE

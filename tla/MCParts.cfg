CONSTANTS
  \* Memory
  Pages = {1, 2, 3, 4, 5, 6, 7, 8, 9, 10, 11, 12, 13, 14, 15}
  FAN = 4
  PGSIZE = 16
  ALIGN = 2
  WORD = 2
  MAXARG = 3
  NPROC = 3
  Execs <- MCExecs
  Addrs <- MCAddrs
  Grow <- MCGrow
  MaxLeft = 13
  MaxCalls = 3
  UINT = 1024
  \* FileTable
  FtNPROC = 3
  NFILE = 2
  NOFILE = 2
  NPipes = 1
  ForknFails = FALSE
  \* Pipe
  Readers = {r1}
  Writers = {w1, w2}
  Killable = {w1, r1}
  None = None
  Bytes = {a, b}
  PIPESIZE = 2
  Wrap = 4
  Sizes = {3}
  Fails = {"copyin", "copyout"}
  \* Spinlock
  SpCpus = {c1, c2}
  NThreads = 1
  \* Console
  ConReaders = {p1, p2}
  INPUT_BUF_SIZE = 2
  ConWrap = 4
  ConSizes = {2}
  \* Uart
  UartWriters = {w1, w2}
  UartSyncers = {c1}
  UART_TX_BUF_SIZE = 2
  UartWrap = 4
  UART_FIFO = 2
  \* Bio
  BioProcs = {p1, p2}
  NBUF = 3
  BioBlocks = {1, 2, 3, 4}
  MaxPins = 1
  BioDirty = {1}
  \* Virtio
  VdProcs = {p1, p2, p3}
  VdWriters = {p1, p2}
  NUM = 7
  VdWrap = 14
  \* Trap
  Harts = {h0, h1}
  TrProcs = {p1}
  Irqs = {i1}
  \* Ticks
  Sleepers = {p1, p2}
  TickWrap = 5
  SleepArgs = {0, 1, 2}
  \* Umalloc
  HDR = 2
  CORE = 4
  UmTop = 12
  UmSizes = {0, 3, 9}
  UmGaps = 1
  \* ShParse and ShRun
  ShChars = {"c", " ", "|", ";", "&", "<", ">", "(", ")"}
  MaxLine = 5
  MAXARGS = 3
  ShLines <- MCLines
  ShSlots = 6
  MaxLoose = 1
  ShFails = {"fork", "open", "pipe", "exec"}
  \* Text and Strings
  TxChars = {"a", " ", "n"}
  GrepBuf = 4
  WcBuf = 2
  MaxText = 4
  TxRes <- MCRes
  TxAllRes <- MCAllRes
  MemSize = 5
  IntBits = 8
  FmtLen = 4
  DIRSIZ = 2
  \* Mkfs
  BSIZE = 3
  NDIRECT = 1
  MkMeta = 4
  MkSizes = {0, 2, 3, 7, 12}
  MkFiles = 3
SPECIFICATION SumSpec
INVARIANTS
  MemSound FilesSound StreamsExact SleepsWithReason LocksSound TrapsSound
  CacheSound DiskSound HeapSound ParseExact ShellSound LoopsExact ImageExact
PROPERTIES
  CallsExact FifoOrder

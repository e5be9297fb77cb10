CONSTANTS
  r1 = r1
  w1 = w1
  w2 = w2
  c1 = c1
  p1 = p1
  p2 = p2
  p3 = p3
  Readers = {r1}
  Writers = {w1, w2}
  Killable = {w1, r1}
  None = None
  Bytes = {a}
  PIPESIZE = 1
  Wrap = 2
  Sizes = {2}
  Fails = {"copyin", "copyout"}
  UartWriters = {w1, w2}
  UartSyncers = {c1}
  UART_TX_BUF_SIZE = 2
  UartWrap = 4
  UART_FIFO = 2
  VdProcs = {p1, p2, p3}
  VdWriters = {p1}
  NUM = 6
  VdWrap = 6
  Sleepers = {p1, p2}
  TickWrap = 5
  SleepArgs = {0, 2}
  ShChars = {"c"}
  MaxLine = 1
  MAXARGS = 3
  ShLines <- MCLines
  ShSlots = 6
  MaxLoose = 1
  ShFails = {"open", "pipe", "exec"}
SPECIFICATION SumSpec
PROPERTIES
  EndReturns  PromptReturns

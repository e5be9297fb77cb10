-------------------------------- MODULE Uart --------------------------------
(***************************************************************************)
(* Output to the terminal: the transmit ring of uart.c, which write() fills *)
(* and the UART's interrupt empties, and uartputc_sync, which the kernel's  *)
(* printf and the echo of input use past the ring and its lock.            *)
(*                                                                         *)
(* Bytes of write() are numbered by uart_tx_w, modulo UartWrap; 0 is a     *)
(* byte of uartputc_sync. The UART is external: a byte written to THR      *)
(* enters its FIFO, LSR_TX_IDLE says that the FIFO is empty, and an        *)
(* interrupt comes when it has become empty.                               *)
(***************************************************************************)
EXTENDS Integers, Sequences, FiniteSets, SequencesExt, Parts

CONSTANTS
  UartWriters,        \* processes in write()
  UartSyncers,        \* CPUs in uartputc_sync
  UART_TX_BUF_SIZE,
  UartWrap,           \* 2^64
  UART_FIFO           \* bytes the UART's FIFO holds

ASSUME UartAssumption ==
  /\ UART_TX_BUF_SIZE \in Nat \ {0} /\ UartWrap % UART_TX_BUF_SIZE = 0
  /\ UART_TX_BUF_SIZE < UartWrap
  /\ UART_FIFO > Cardinality(UartSyncers)

VARIABLES
  tx,                 \* uart_tx_buf, uart_tx_r, uart_tx_w
  txlock,             \* holder of uart_tx_lock
  fifo,               \* the UART's FIFO
  wire,               \* number of the next byte of write() on the wire
  txirq,              \* an interrupt is pending
  ua                  \* each agent: pc, the byte c in its hands

uartVars == <<tx, txlock, fifo, wire, txirq, ua>>

Handler == "uartintr"
Agents == UartWriters \cup UartSyncers \cup {Handler}
UaNone == "none"

UartInit ==
  /\ tx = [buf |-> [k \in 0 .. UART_TX_BUF_SIZE - 1 |-> 0], r |-> 0, w |-> 0]
  /\ txlock = UaNone
  /\ fifo = <<>> /\ wire = 1
  /\ txirq = FALSE
  /\ ua = [a \in Agents |-> [pc |-> "idle", c |-> 0]]

UaGoto(a, pc) == ua' = [ua EXCEPT ![a].pc = pc]
UartNum(k) == 1 + (k % UartWrap)
TxFull == tx.w = (tx.r + UART_TX_BUF_SIZE) % UartWrap
\* wakeup(&uart_tx_r), and the waker goes on with f.
UaWake(a, f) ==
  ua' = [x \in Agents |-> IF x = a THEN f
                          ELSE IF ua[x].pc = "sleep" THEN [ua[x] EXCEPT !.pc = "lock"] ELSE ua[x]]

-----------------------------------------------------------------------------
(* uartputc(), by write().                                                 *)

UartWrite(a) ==
  /\ a \in UartWriters /\ ua[a].pc = "idle"
  /\ UaGoto(a, "lock")
  /\ UNCHANGED <<tx, txlock, fifo, wire, txirq>>

UartLock(a) ==
  /\ ua[a].pc = "lock" /\ txlock = UaNone
  /\ txlock' = a
  /\ UaGoto(a, IF a = Handler THEN "start" ELSE "put")
  /\ UNCHANGED <<tx, fifo, wire, txirq>>

\* Variant: one more byte than the ring has.
UartFull_off == tx.w = (tx.r + UART_TX_BUF_SIZE + 1) % UartWrap

UartFull == TxFull

\* The ring is full: sleep. Otherwise the byte goes to the ring.
uartputc(a) ==
  /\ ua[a].pc = "put"
  /\ IF UartFull
       THEN UaGoto(a, "sleep") /\ txlock' = UaNone /\ UNCHANGED tx
       ELSE /\ tx' = [tx EXCEPT !.buf[tx.w % UART_TX_BUF_SIZE] = UartNum(tx.w),
                                !.w = (@ + 1) % UartWrap]
            /\ UaGoto(a, "start") /\ UNCHANGED txlock
  /\ UNCHANGED <<fifo, wire, txirq>>

-----------------------------------------------------------------------------
(* uartstart(), with uart_tx_lock.                                         *)

\* Nothing to send or the UART is busy: the caller releases the lock.
UartStartEnd(a) ==
  /\ ua[a].pc = "start" /\ (tx.w = tx.r \/ fifo # <<>>)
  /\ UaGoto(a, "idle") /\ txlock' = UaNone
  /\ UNCHANGED <<tx, fifo, wire, txirq>>

\* Variant: who waits for room in the ring is not woken.
UartTaken_nowake(a, f) == ua' = [ua EXCEPT ![a] = f]

UartTaken(a, f) == UaWake(a, f)

UartStartTake(a) ==
  /\ ua[a].pc = "start" /\ tx.w # tx.r /\ fifo = <<>>
  /\ tx' = [tx EXCEPT !.r = (@ + 1) % UartWrap]
  /\ UartTaken(a, [pc |-> "thr", c |-> tx.buf[tx.r % UART_TX_BUF_SIZE]])
  /\ UNCHANGED <<txlock, fifo, wire, txirq>>

\* WriteReg(THR, c). uartstart loops; uartputc_sync returns.
WriteThr(a) ==
  /\ ua[a].pc = "thr"
  /\ fifo' = Append(fifo, ua[a].c)
  /\ ua' = [ua EXCEPT ![a] = [pc |-> IF a \in UartSyncers THEN "idle" ELSE "start", c |-> 0]]
  /\ UNCHANGED <<tx, txlock, wire, txirq>>

-----------------------------------------------------------------------------
(* uartputc_sync() and uartintr().                                         *)

\* Variant: does not wait for the UART.
SyncIdle_any == TRUE

\* The loop until LSR_TX_IDLE; the write of THR is another step, and
\* uartstart may run on another CPU in between.
SyncIdle == fifo = <<>>

uartputc_sync(a) ==
  /\ a \in UartSyncers /\ ua[a].pc = "idle" /\ SyncIdle
  /\ UaGoto(a, "thr")
  /\ UNCHANGED <<tx, txlock, fifo, wire, txirq>>

\* Variant: the interrupt does not start the next byte.
uartintr_in ==
  /\ txirq /\ ua[Handler].pc = "idle"
  /\ txirq' = FALSE
  /\ UNCHANGED <<tx, txlock, fifo, wire, ua>>

\* uartintr: the input is module Console's. Then uartstart under the lock.
uartintr ==
  /\ txirq /\ ua[Handler].pc = "idle"
  /\ txirq' = FALSE
  /\ UaGoto(Handler, "lock")
  /\ UNCHANGED <<tx, txlock, fifo, wire>>

\* The UART sends a byte.
Transmit ==
  /\ fifo # <<>>
  /\ fifo' = Tail(fifo)
  /\ wire' = IF Head(fifo) = 0 THEN wire ELSE UartNum(wire)
  /\ txirq' = (txirq \/ Len(fifo) = 1)
  /\ UNCHANGED <<tx, txlock, ua>>

UartStep(a) ==
  \/ UartLock(a) \/ uartputc(a) \/ UartStartEnd(a) \/ UartStartTake(a) \/ WriteThr(a)

UartNext ==
  \/ \E a \in Agents : UartWrite(a) \/ UartStep(a) \/ uartputc_sync(a)
  \/ uartintr \/ Transmit

UartSpec == UartInit /\ [][UartNext]_uartVars

\* The CPUs and the UART go on; a process gets the lock if it is free again and
\* again. uartputc_sync is never forced to happen.
UartFair ==
  /\ \A a \in Agents : SF_uartVars(UartStep(a))
  /\ WF_uartVars(uartintr) /\ WF_uartVars(Transmit)

-----------------------------------------------------------------------------
(* Properties.                                                             *)

\* Types; the ring holds at most its size, also across the wrap of the indices.
UartTypeOK ==
  In("uart") =>
    /\ tx.r \in 0 .. UartWrap - 1 /\ tx.w \in 0 .. UartWrap - 1
    /\ (tx.w - tx.r) % UartWrap <= UART_TX_BUF_SIZE
    /\ txlock \in Agents \cup {UaNone}
    /\ \A a \in Agents : txlock = a <=>
         a \notin UartSyncers /\ ua[a].pc \in {"put", "start", "thr"}
    /\ wire \in 1 .. UartWrap

\* The bytes of write() that have been accepted and not sent: in the FIFO, in
\* the hands of uartstart, in the ring.
InHand == {a \in Agents \ UartSyncers : ua[a].pc = "thr"}
TxQueue ==
  SelectSeq(fifo, LAMBDA c : c # 0)
    \o (IF InHand = {} THEN <<>> ELSE <<ua[CHOOSE a \in InHand : TRUE].c>>)
    \o [k \in 1 .. (tx.w - tx.r) % UartWrap |-> tx.buf[(tx.r + k - 1) % UART_TX_BUF_SIZE]]

\* Every byte of write() goes out once and in order, although uartstart runs in
\* the writers and in the interrupt and uartputc_sync uses the UART as well.
TxInOrder ==
  In("uart") =>
    TxQueue = [k \in 1 .. Len(TxQueue) |-> UartNum(wire + k - 2)]

\* THR is written only when there is room: everybody saw an empty FIFO, but
\* uartputc_sync takes no lock, so that each CPU may add one byte to it.
FifoFits ==
  In("uart") =>
    Len(fifo) <= UART_FIFO

\* Nobody sleeps in uartputc while the ring has room.
TxSleepsOnFull ==
  In("uart") /\ txlock = UaNone => \A a \in Agents : ua[a].pc = "sleep" => TxFull

\* A full ring is emptied, by the interrupt although no writer can run
\* uartstart any more; unless the kernel prints for ever and takes the UART
\* each time it is idle.
TxDrains ==
  \/ []<>(\E a \in UartSyncers : ua[a].pc = "thr")
  \/ TxFull ~> ~TxFull
=============================================================================

------------------------------ MODULE PipeFifo ------------------------------
(***************************************************************************)
(* What a pipe promises: a bounded queue of bytes between its two ends.    *)
(* Every byte put in comes out once and in order, until both ends are      *)
(* closed; nothing is put in once either end is closed.                    *)
(***************************************************************************)
EXTENDS Naturals, Sequences

CONSTANTS Readers, Bytes, Capacity

VARIABLES q, ends, ch   \* ch[r]: the byte r took last

fifovars == <<q, ends, ch>>

FifoInit == q = <<>> /\ ends = {} /\ ch \in [Readers -> Bytes]

Open == ends = {} /\ ends' = {"r", "w"} /\ UNCHANGED <<q, ch>>

Put(b) ==
  /\ ends = {"r", "w"}
  /\ Len(q) < Capacity
  /\ q' = Append(q, b)
  /\ UNCHANGED <<ends, ch>>

Take(r) ==
  /\ "r" \in ends
  /\ q # <<>>
  /\ ch' = [ch EXCEPT ![r] = Head(q)]
  /\ q' = Tail(q)
  /\ UNCHANGED ends

Close(e) ==
  /\ e \in ends
  /\ ends' = ends \ {e}
  /\ q' = IF ends' = {} THEN <<>> ELSE q
  /\ UNCHANGED ch

FifoNext ==
  \/ Open
  \/ \E b \in Bytes : Put(b)
  \/ \E r \in Readers : Take(r)
  \/ \E e \in ends : Close(e)

FifoSpec == FifoInit /\ [][FifoNext]_fifovars
=============================================================================

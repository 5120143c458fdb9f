--------------------------- MODULE LaggedFifoSpec ---------------------------
(***************************************************************************)
(* LaggedFifo by itself, driven by every request at every edge: what the   *)
(* composed modules take an asynchronous FIFO for.                         *)
(***************************************************************************)
EXTENDS LaggedFifo

CONSTANTS Size, Data, ZeroWord

VARIABLE fifo

Init == fifo = EmptyFifo(ZeroWord)

Asks == {Idle} \cup {Ask(rst_n, en) : rst_n, en \in BOOLEAN}

Next == \E w, r \in Asks, d \in Data : fifo' \in Edges(Size, fifo, w, d, r)

Spec == Init /\ [][Next]_fifo
=============================================================================

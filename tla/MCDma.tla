------------------------------- MODULE MCDma -------------------------------
(* Small instances of Dma. *)
EXTENDS Dma

DmaSet(enabled, irq, repeat, timing, src, dest) ==
  [enabled |-> enabled, irq |-> irq, repeat |-> repeat, word32 |-> TRUE,
   timing |-> timing, src |-> src, dest |-> dest]

ControlsAll ==
  {DmaSet(FALSE, FALSE, TRUE, "HBlank", "Increment", "IncrementReload"),
   DmaSet(TRUE, FALSE, TRUE, "HBlank", "Increment", "IncrementReload"),
   DmaSet(TRUE, TRUE, FALSE, "VBlank", "Decrement", "Fixed"),
   DmaSet(TRUE, FALSE, TRUE, "VBlank", "Increment", "Decrement"),
   DmaSet(TRUE, TRUE, FALSE, "Immediate", "Fixed", "Increment"),
   DmaSet(TRUE, TRUE, TRUE, "Special", "Increment", "Fixed")}

Mask == [ch \in Channel |-> IF ch = 3 THEN 40 ELSE 32]
MaxCounts == [ch \in Channel |-> IF ch = 3 THEN 4 ELSE 2]
=============================================================================

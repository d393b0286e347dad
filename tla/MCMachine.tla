----------------------------- MODULE MCMachine -----------------------------
(* Small instances of Machine. *)
EXTENDS Machine

ChunkFrame == {7}
IeVideo == {{}, {"VBlank"}, {"VBlank", "HBlank"}}
IeDma == {{"VBlank", "Dma0"}}
NoIrq == {{}}
EnableHBlank == {{"HBlank"}}
EnableFew == {{"VBlank"}, {"VBlank", "HBlank"}}
LycOne == {1}
FlagVBlank == {{"VBlank"}}
=============================================================================

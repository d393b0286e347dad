-------------------------------- MODULE Dma --------------------------------
(***************************************************************************)
(* The DMA controller: the guest programs the channels, the display and    *)
(* the sound FIFOs trigger them.  A transfer is one atomic step, as in the *)
(* code, where nothing else runs during Bus::run_dma; of the data only the *)
(* addresses and the number of units are kept.                             *)
(***************************************************************************)
EXTENDS DmaCore, FiniteSets

CONSTANTS
  VISIBLE_LINES, LINES_PER_FRAME,  \* 160 of 228
  Addrs,       \* bound: the values the guest writes to SAD and DAD
  Counts,      \* bound: the values it writes to CNT_L
  DmaControls, \* bound: the values it writes to CNT_H
  FifoPorts    \* the addresses of the two FIFO ports

ASSUME DisplayAssumption ==
  /\ VISIBLE_LINES \in Nat \ {0} /\ LINES_PER_FRAME \in Nat /\ VISIBLE_LINES < LINES_PER_FRAME
  /\ Addrs \subseteq Addr /\ Counts \subseteq 0..(COUNT_SPACE - 1) /\ DmaControls \subseteq DmaControl

VARIABLES
  channels,  \* DmaController.channels
  vcount,    \* io.vcount
  inHBlank,  \* between the HBlank and the HBlankEnd event of a line
  ir,        \* requests of the last step: channels whose DMA IRQ it set in IF
  ended,     \* history: channels that completed a transfer with the IRQ bit
             \* set in the last step
  untouched, \* history: steadily repeating channels that were not written since
             \* this frame began
  frameSad   \* history: their source addresses when it began

display == <<vcount, inHBlank>>
dmaHistory == <<untouched, frameSad>>
dmaVars == <<channels, display, ir, ended, dmaHistory>>

DmaInit ==
  /\ channels = [ch \in Channel |-> NewChannel]
  /\ vcount = 0 /\ inHBlank = FALSE
  /\ ir = {} /\ ended = {}
  /\ untouched = {} /\ frameSad = [ch \in Channel |-> 0]

Touch(ch) == untouched' = untouched \ {ch} /\ UNCHANGED frameSad

WriteRegister(ch, c) ==
  /\ channels' = [channels EXCEPT ![ch] = c]
  /\ ir' = {} /\ ended' = {}
  /\ Touch(ch)
  /\ UNCHANGED display

WriteSad(ch, v) == WriteRegister(ch, [channels[ch] EXCEPT !.sad = v])
WriteDad(ch, v) == WriteRegister(ch, [channels[ch] EXCEPT !.dad = v])
WriteCount(ch, v) == WriteRegister(ch, [channels[ch] EXCEPT !.count = v])

(* The result of an immediate transfer, its IRQ included, is discarded.    *)
WriteControl(ch, v) ==
  LET c == WithControl(ch, channels[ch], v)
      now == RunsAtOnce(channels[ch], v)
  IN  /\ channels' = [channels EXCEPT ![ch] = IF now THEN RunDma(ch, c) ELSE c]
      /\ ir' = {}
      /\ ended' = IF now /\ IrqOnDone(c) THEN {ch} ELSE {}
      /\ Touch(ch)
      /\ UNCHANGED display

(* run_dma_for_timing and run_dma_for_fifo: the channels selected, in      *)
(* order; each that ends a transfer with its IRQ bit set requests the IRQ. *)
Run(selected) ==
  /\ channels' = [ch \in Channel |->
                    IF ch \in selected THEN RunDma(ch, channels[ch]) ELSE channels[ch]]
  /\ ir' = {ch \in selected : IrqOnDone(channels[ch])}
  /\ ended' = ir'

ChannelsForTiming(timing) ==
  {ch \in Channel : Live(channels[ch]) /\ channels[ch].control.timing = timing}

\* Mutant: HBlank transfers go on during VBlank.
HBlankSelected_All == ChannelsForTiming("HBlank")
HBlankSelected == IF vcount < VISIBLE_LINES THEN ChannelsForTiming("HBlank") ELSE {}

HandleHBlank ==
  /\ ~inHBlank
  /\ Run(HBlankSelected)
  /\ inHBlank' = TRUE
  /\ UNCHANGED <<vcount, dmaHistory>>

(* A store to CNT_L takes effect only after the next transfer. *)
Steady(ch) ==
  LET c == channels[ch]
  IN  Live(c) /\ c.control.repeat /\ c.internal_count = LoadCount(ch, c)

HandleHBlankEnd ==
  /\ inHBlank
  /\ inHBlank' = FALSE
  /\ vcount' = (vcount + 1) % LINES_PER_FRAME
  /\ Run(IF vcount' = VISIBLE_LINES THEN ChannelsForTiming("VBlank") ELSE {})
  /\ IF vcount' = 0
     THEN /\ untouched' = {ch \in Channel : Steady(ch)}
          /\ frameSad' = [ch \in Channel |-> channels[ch].internal_sad]
     ELSE UNCHANGED dmaHistory

(* A FIFO asks for a refill; the channels are found by their DAD register. *)
FifoRequest(port) ==
  /\ Run({ch \in ChannelsForTiming("Special") : channels[ch].dad = port})
  /\ untouched' = untouched \ ChannelsForTiming("Special")
  /\ UNCHANGED <<display, frameSad>>

DmaNext ==
  \/ \E ch \in Channel :
       \/ \E v \in Addrs : WriteSad(ch, v) \/ WriteDad(ch, v)
       \/ \E v \in Counts : WriteCount(ch, v)
       \/ \E v \in DmaControls : WriteControl(ch, v)
  \/ HandleHBlank \/ HandleHBlankEnd
  \/ \E port \in FifoPorts : FifoRequest(port)

DmaSpec == DmaInit /\ [][DmaNext]_dmaVars
-----------------------------------------------------------------------------
(* However its registers are rewritten and whatever ends its transfers,    *)
(* `active` and the enable bit, which are kept separately and are both     *)
(* looked at before a run, say the same, and a channel that is on and      *)
(* waits for an event or a FIFO has at least one unit latched to move.     *)
ChannelsConsistent ==
  \A ch \in Channel :
    /\ channels[ch].active <=> channels[ch].control.enabled
    /\ channels[ch].control.enabled => channels[ch].internal_count > 0

(* A repeating transfer the guest leaves alone for a frame has moved one   *)
(* block per visible line (HBlank) or one block (VBlank) when the next     *)
(* frame begins: "After 160 lines" the table is through and the            *)
(* destination is back where it was (fifo-dma-vblank.md).                  *)
BlocksPerFrame(c) ==
  CASE c.control.timing = "HBlank" -> VISIBLE_LINES
    [] c.control.timing = "VBlank" -> 1
    [] OTHER -> 0
TableThrough ==
  [][vcount' = 0 /\ vcount # 0 =>
       \A ch \in untouched :
         LET c == channels[ch]
             distance == BlocksPerFrame(c) * c.internal_count * StepOf(c.control.src, Unit(c))
         IN  /\ c.internal_sad = (frameSad[ch] + distance) % ADDR_SPACE
             /\ c.control.dest = "IncrementReload" /\ BlocksPerFrame(c) > 0
                  => c.internal_dad = c.dad % ADDR_MASK[ch]]_dmaVars

(* "DMA IRQ on completion (per-channel)" (PLAN.md).                        *)
CompletionIrq == ended \subseteq ir
=============================================================================

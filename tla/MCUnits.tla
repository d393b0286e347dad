------------------------------ MODULE MCUnits ------------------------------
(***************************************************************************)
(* Units that the guest programs at will, each alone, in one state space:  *)
(* "timers", "dma", the DMA channels that the lines of the display drive,  *)
(* and "cpu", the parts of the CPU.                                        *)
(***************************************************************************)
EXTENDS MCTimers, MCDma, MCCpu

VARIABLE
  which  \* the unit this behaviour is of

(* Without the CPU there is nothing to compare, as inside a handler.       *)
NoCpu ==
  /\ stage = "none" /\ thumb = Idle /\ arm = Idle /\ last = Idle
  /\ BanksInit
  /\ cpu = Idle /\ ghost = Idle /\ depth = 1 /\ taken = 0

MCInit ==
  /\ Init /\ DmaInit
  /\ \/ which \in {"timers", "dma"} /\ NoCpu
     \/ which = "cpu" /\ PartsInit

(* An instruction that was compared is the end of its behaviour.           *)
Compared == which = "cpu" /\ stage = "encodings" /\ last # Idle

MCNext == \/ which = "timers" /\ Next /\ UNCHANGED <<which, dmaVars, partsVars>>
          \/ which = "dma" /\ DmaNext /\ UNCHANGED <<which, vars, partsVars>>
          \/ which = "cpu" /\ PartsNext /\ UNCHANGED <<which, vars, dmaVars>>
          \/ Compared /\ UNCHANGED <<which, vars, dmaVars, partsVars>>

MCSpec == MCInit /\ [][MCNext]_<<which, vars, dmaVars, partsVars>>
=============================================================================

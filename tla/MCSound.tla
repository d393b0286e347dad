------------------------------ MODULE MCSound ------------------------------
(***************************************************************************)
(* Two small instances of Sound in one state space: "alone", one channel   *)
(* that is started, left alone and re-anchored (the constants of the       *)
(* configuration), and "pair", two FIFOs with their channels on one timer, *)
(* with shorter frames (the constants of Pair).  In a pair the samples     *)
(* wrap to 0, where buffers start, so that the properties of the module,   *)
(* which have the constants of the configuration, are true of both.        *)
(***************************************************************************)
EXTENDS Sound

VARIABLE
  which      \* the instance this behaviour is of

Addresses == 0..(ADDR_SPACE - 1)
AllAddresses == [ch \in {1} |-> ADDR_SPACE]
MaxCounts == [ch \in {1} |-> 1]
PortA == [A |-> 9]
OnlyA == [ch \in {1} |-> {9}]

Dma(enabled) ==
  [enabled |-> enabled, irq |-> FALSE, repeat |-> TRUE, word32 |-> TRUE,
   timing |-> "Special", src |-> "Increment", dest |-> "Fixed"]
OnOff == {Dma(TRUE), Dma(FALSE)}

Run(enabled) == [enabled |-> enabled, cascade |-> FALSE, irq |-> FALSE, prescaler |-> 1]
TimerOn == {Run(TRUE)}

PortAB == [A |-> 6, B |-> 7]
OwnPort == [ch \in {1, 2} |-> IF ch = 1 THEN {PortAB["A"]} ELSE {PortAB["B"]}]

Pair == INSTANCE Sound WITH
  Channel <- {1, 2}, ADDR_SPACE <- 8, FRAME <- 2, WINDOW <- 0, Sads <- {},
  Selects <- {[f \in {"A", "B"} |-> 0]}, Port <- PortAB, Dads <- OwnPort,
  ADDR_MASK <- [ch \in {1, 2} |-> 8], MAX_COUNT <- [ch \in {1, 2} |-> 1], Sample <- 0..7

MCInit == \/ which = "pair" /\ Pair!Init
          \/ which = "alone" /\ Init

MCNext == \/ which = "pair" /\ Pair!Next /\ UNCHANGED which
          \/ which = "alone" /\ Next /\ UNCHANGED which

MCSpec == MCInit /\ [][MCNext]_<<vars, which>>
=============================================================================

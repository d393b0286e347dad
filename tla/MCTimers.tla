------------------------------ MODULE MCTimers ------------------------------
(* Small instances of Timers. *)
EXTENDS Timers

Set(enabled, cascade, irq, prescaler) ==
  [enabled |-> enabled, cascade |-> cascade, irq |-> irq, prescaler |-> prescaler]

ControlsFree ==
  {Set(TRUE, FALSE, TRUE, 1), Set(TRUE, FALSE, FALSE, 2), Set(FALSE, FALSE, FALSE, 1)}
ControlsCascade ==
  {Set(TRUE, FALSE, FALSE, 1), Set(TRUE, TRUE, TRUE, 1), Set(FALSE, FALSE, FALSE, 1)}

ReloadWrites == [to : {"reload"}, id : TimerId, value : Reloads]
=============================================================================

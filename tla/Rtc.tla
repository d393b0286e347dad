-------------------------------- MODULE Rtc --------------------------------
(***************************************************************************)
(* The real-time clock of a cartridge (gba-core/src/rtc.rs): a serial chip *)
(* behind three GPIO lines that the guest moves by stores to 0x080000C4    *)
(* (data), C6 (direction) and C8 (readback).  The guest's library runs     *)
(* transactions of the protocol at the head of rtc.rs and may be restarted *)
(* between any two stores, while the wall clock goes on.                   *)
(*                                                                         *)
(* The bits that only the chip's wire order tells apart are numbers: a     *)
(* register is a nibble, a byte 0..255.  data_buf is cut to the bytes in   *)
(* use.  Time is in seconds since 1970.                                    *)
(***************************************************************************)
EXTENDS Integers, Sequences

CONSTANTS
  Clocks,       \* bound: the instants of the runs
  Transactions, \* bound: the transactions of the guest
  MaxRestarts   \* bound: how often the guest is restarted

VARIABLES
  gpio,     \* data_out, direction, control
  chip,     \* the serial state and the status register
  clock,    \* the wall clock
  library,  \* the transaction under way: command, place in its script
  got,      \* the bits it has sampled
  since,    \* history: when it began
  allowed,  \* history: the values the status register may have
  restarts  \* of the guest so far

rtcVars == <<gpio, chip, clock, library, got, since, allowed, restarts>>

Bit(n, i) == (n \div 2^i) % 2
-----------------------------------------------------------------------------
(* The date of an instant: days_to_ymd and current_datetime.               *)
\* Mutant: the leap days of the 400 years are not taken out of the years.
DaysToYmd_NoLeap(d) ==
  LET days == d + 719468
      doe == days % 146097
      yoe == doe \div 365
      doy == doe - (365 * yoe + yoe \div 4 - yoe \div 100)
      mp == (5 * doy + 2) \div 153
      m == IF mp < 10 THEN mp + 3 ELSE mp - 9
  IN  <<yoe + 400 * (days \div 146097) + (IF m <= 2 THEN 1 ELSE 0), m,
        doy - (153 * mp + 2) \div 5 + 1>>
DaysToYmd(d) ==
  LET days == d + 719468
      doe == days % 146097
      yoe == (doe - doe \div 1460 + doe \div 36524 - doe \div 146096) \div 365
      doy == doe - (365 * yoe + yoe \div 4 - yoe \div 100)
      mp == (5 * doy + 2) \div 153
      m == IF mp < 10 THEN mp + 3 ELSE mp - 9
  IN  <<yoe + 400 * (days \div 146097) + (IF m <= 2 THEN 1 ELSE 0), m,
        doy - (153 * mp + 2) \div 5 + 1>>

Bcd(n) == 16 * (n \div 10) + (n % 10)

TimeBytes(t) == <<Bcd((t \div 3600) % 24), Bcd((t \div 60) % 60), Bcd(t % 60)>>
DateTimeBytes(t) ==
  LET day == t \div 86400
      ymd == DaysToYmd(day)
  IN  <<Bcd(ymd[1] % 100), Bcd(ymd[2]), Bcd(ymd[3]), Bcd((day + 4) % 7)>> \o TimeBytes(t)
-----------------------------------------------------------------------------
(* The commands of the chip.                                               *)
RESET == 96            \* 0x60
WRITE_STATUS == 98
READ_STATUS == 99
WRITE_DATETIME == 100
READ_DATETIME == 101
WRITE_TIME == 102
READ_TIME == 103
POWER_ON_STATUS == 64  \* 24 hours, battery good

Expect(c, n) ==
  [c EXCEPT !.len = n, !.idx = 0, !.in_bits = 0, !.in_count = 0, !.state = "ReceivingData"]
Answer(c, bytes) ==
  [c EXCEPT !.buf = bytes, !.len = Len(bytes), !.idx = 0, !.out_count = 0,
            !.state = "SendingData"]

execute_command(c, t) ==
  CASE c.command = RESET          -> [c EXCEPT !.status = POWER_ON_STATUS, !.state = "Idle"]
    [] c.command = WRITE_STATUS   -> Expect(c, 1)
    [] c.command = READ_STATUS    -> Answer(c, <<c.status>>)
    [] c.command = WRITE_DATETIME -> Expect(c, 7)
    [] c.command = READ_DATETIME  -> Answer(c, DateTimeBytes(t))
    [] c.command = WRITE_TIME     -> Expect(c, 3)
    [] c.command = READ_TIME      -> Answer(c, TimeBytes(t))
    [] OTHER                      -> [c EXCEPT !.state = "Idle"]

ReceiveCommandBit(c, sio, t) ==
  LET byte == (2 * c.in_bits + sio) % 256
  IN  IF c.in_count = 7
      THEN [execute_command([c EXCEPT !.command = byte], t) EXCEPT !.in_bits = 0, !.in_count = 0]
      ELSE [c EXCEPT !.in_bits = byte, !.in_count = @ + 1]

(* Date and time are the wall clock's: only the status is stored.          *)
finish_write(c) ==
  [c EXCEPT !.status = IF c.command = WRITE_STATUS THEN c.buf[1] ELSE @, !.state = "Idle"]

ReceiveBit(c, sio) ==
  LET byte == c.in_bits + sio * 2^c.in_count
      d == [c EXCEPT !.buf = Append(SubSeq(@, 1, c.idx), byte), !.idx = @ + 1,
                     !.in_bits = 0, !.in_count = 0]
  IN  IF c.in_count < 7 THEN [c EXCEPT !.in_bits = byte, !.in_count = @ + 1]
      ELSE IF d.idx >= d.len THEN finish_write(d) ELSE d

SendBit(c) ==
  IF c.out_count = 0 /\ c.idx >= c.len THEN [c EXCEPT !.sio_out = 0]
  ELSE LET d == IF c.out_count > 0 THEN c
                ELSE [c EXCEPT !.out_bits = c.buf[c.idx + 1], !.idx = @ + 1, !.out_count = 8]
       IN  [d EXCEPT !.sio_out = d.out_bits % 2, !.out_bits = @ \div 2, !.out_count = @ - 1,
                     !.state = IF d.out_count = 1 /\ d.idx >= d.len THEN "Idle" ELSE @]

\* Mutant: a transaction that begins keeps the bits of the last one.
SelectEdge_KeepsBits(c, cs) ==
  CASE cs /\ ~c.cs -> [c EXCEPT !.cs = TRUE, !.state = "ReceivingCommand",
                                !.out_count = 0, !.idx = 0]
    [] ~cs /\ c.cs -> [c EXCEPT !.cs = FALSE, !.state = "Idle"]
    [] OTHER       -> c
SelectEdge(c, cs) ==
  CASE cs /\ ~c.cs -> [c EXCEPT !.cs = TRUE, !.state = "ReceivingCommand", !.in_bits = 0,
                                !.in_count = 0, !.out_count = 0, !.idx = 0]
    [] ~cs /\ c.cs -> [c EXCEPT !.cs = FALSE, !.state = "Idle"]
    [] OTHER       -> c

pin_update(c, pins, t) ==
  LET sck == Bit(pins, 0) = 1
      sio == Bit(pins, 1)
      d == [SelectEdge(c, Bit(pins, 2) = 1) EXCEPT !.last_sck = sck]
      rising == sck /\ ~c.last_sck
      falling == ~sck /\ c.last_sck
  IN  CASE ~d.cs -> d
        [] d.cs /\ d.state = "ReceivingCommand" /\ rising -> ReceiveCommandBit(d, sio, t)
        [] d.cs /\ d.state = "ReceivingData" /\ rising -> ReceiveBit(d, sio)
        [] d.cs /\ d.state = "SendingData" /\ falling -> SendBit(d)
        [] OTHER -> d
-----------------------------------------------------------------------------
(* The GPIO registers, by halfwords and by bytes.                          *)
DATA == 0
DIRECTION == 2
CONTROL == 4

read_reg(off) ==
  CASE gpio.control = 0 -> 0
    [] gpio.control # 0 /\ off = DATA ->
         Bit(gpio.data, 0) + 4 * Bit(gpio.data, 2)
           + 2 * (IF Bit(gpio.direction, 1) = 1 THEN Bit(gpio.data, 1) ELSE chip.sio_out)
    [] gpio.control # 0 /\ off = DIRECTION -> gpio.direction
    [] OTHER -> gpio.control

write_reg(off, v) ==
  /\ gpio' = CASE off = DATA      -> [gpio EXCEPT !.data = v % 16]
               [] off = DIRECTION -> [gpio EXCEPT !.direction = v % 16]
               [] OTHER           -> [gpio EXCEPT !.control = v % 2]
  /\ chip' = IF off = DATA THEN pin_update(chip, v % 16, clock) ELSE chip

(* Bus::write8 on a GPIO register: what is read is merged with the byte.   *)
Merged(off, v) == 256 * (read_reg(off) \div 256) + v
-----------------------------------------------------------------------------
(* The guest's library.  A script is made of stores <<register, value>>    *)
(* and of samples of SIO, which are <<>>; bytes says that the library      *)
(* stores bytes.                                                           *)
Transaction ==
  [op : {RESET, READ_STATUS, READ_DATETIME, READ_TIME, WRITE_TIME}, bytes : BOOLEAN]
    \cup [op : {WRITE_STATUS}, value : 0..255, bytes : BOOLEAN]

MsbFirst(n) == [i \in 1..8 |-> Bit(n, 8 - i)]
Wire(bytes) ==
  [i \in 1..(8 * Len(bytes)) |-> Bit(bytes[((i - 1) \div 8) + 1], (i - 1) % 8)]

PushBits(bits) ==
  [i \in 1..(2 * Len(bits)) |-> <<DATA, 4 + 2 * bits[(i + 1) \div 2] + ((i + 1) % 2)>>]
PullBits(n) ==
  [i \in 1..(3 * n) |->
     CASE i % 3 = 1 -> <<DATA, 4>> [] i % 3 = 2 -> <<DATA, 5>> [] OTHER -> <<>>]

AnswerBits(op) ==
  CASE op = READ_STATUS -> 8 [] op = READ_DATETIME -> 56 [] op = READ_TIME -> 24 [] OTHER -> 0
Payload(x) ==
  CASE x.op = WRITE_STATUS -> <<x.value>> [] x.op = WRITE_TIME -> <<0, 0, 0>> [] OTHER -> <<>>

Script ==
  [x \in Transactions |->
     << <<CONTROL, 1>>, <<DIRECTION, 7>>, <<DATA, 1>>, <<DATA, 5>> >> \o PushBits(MsbFirst(x.op))
       \o PushBits(Wire(Payload(x))) \o << <<DIRECTION, 5>> >> \o PullBits(AnswerBits(x.op))
       \o << <<DATA, 1>> >>]

NoTransaction == [place |-> 0]
Running == library # NoTransaction
AtEnd == Running /\ library.place = Len(Script[library.run])
Due == Script[library.run][library.place + 1]

NewGpio == [data |-> 0, direction |-> 0, control |-> 0]
NewChip ==
  [state |-> "Idle", last_sck |-> FALSE, cs |-> FALSE, in_bits |-> 0, in_count |-> 0,
   out_bits |-> 0, out_count |-> 0, sio_out |-> 0, command |-> 0, buf |-> <<>>,
   idx |-> 0, len |-> 0, status |-> POWER_ON_STATUS]

Init ==
  /\ gpio = NewGpio /\ chip = NewChip
  /\ clock \in Clocks /\ since = 0
  /\ library = NoTransaction /\ got = <<>>
  /\ allowed = {POWER_ON_STATUS} /\ restarts = 0

(* What a whole transaction leaves in the status register.                 *)
StatusAfter(x) ==
  CASE x.op = WRITE_STATUS -> {x.value} [] x.op = RESET -> {POWER_ON_STATUS} [] OTHER -> allowed

Begin(x) ==
  /\ ~Running
  /\ library' = [place |-> 0, run |-> x]
  /\ since' = clock
  /\ UNCHANGED <<gpio, chip, clock, got, allowed, restarts>>

Advance == library' = [library EXCEPT !.place = @ + 1]

Store ==
  /\ Running /\ ~AtEnd /\ Due # <<>>
  /\ write_reg(Due[1], IF library.run.bytes THEN Merged(Due[1], Due[2]) ELSE Due[2])
  /\ Advance
  /\ UNCHANGED <<clock, got, since, allowed, restarts>>

Sample ==
  /\ Running /\ ~AtEnd /\ Due = <<>>
  /\ got' = Append(got, Bit(read_reg(DATA), 1))
  /\ Advance
  /\ UNCHANGED <<gpio, chip, clock, since, allowed, restarts>>

Forget == library' = NoTransaction /\ got' = <<>> /\ since' = 0

End ==
  /\ AtEnd /\ Forget
  /\ allowed' = StatusAfter(library.run)
  /\ UNCHANGED <<gpio, chip, clock, restarts>>

(* A restarted guest forgets the transaction; the chip does not know.      *)
Restart ==
  /\ Running /\ restarts < MaxRestarts /\ Forget
  /\ allowed' = allowed \cup StatusAfter(library.run)
  /\ restarts' = restarts + 1
  /\ UNCHANGED <<gpio, chip, clock>>

(* The emulator is closed and opened again: the chip is not saved.         *)
PowerCycle ==
  /\ Forget
  /\ gpio' = NewGpio /\ chip' = NewChip /\ allowed' = {POWER_ON_STATUS}
  /\ UNCHANGED <<clock, restarts>>

Tick ==
  /\ clock + 1 \in Clocks
  /\ clock' = clock + 1
  /\ UNCHANGED <<gpio, chip, library, got, since, allowed, restarts>>

Next ==
  \/ \E x \in Transactions : Begin(x)
  \/ Store \/ Sample \/ End \/ Restart \/ PowerCycle \/ Tick

Spec == Init /\ [][Next]_rtcVars
-----------------------------------------------------------------------------
(* Whatever was broken off before, a transaction that is carried through   *)
(* gets an answer that was right at one instant while it ran, even when    *)
(* the second, the day or the year changes in between; the status is that  *)
(* of the last transaction that set it, or of one that was broken off.     *)
ReadsOneInstant ==
  AtEnd =>
    CASE library.run.op = READ_DATETIME -> \E t \in since..clock : got = Wire(DateTimeBytes(t))
      [] library.run.op = READ_TIME -> \E t \in since..clock : got = Wire(TimeBytes(t))
      [] library.run.op = READ_STATUS -> \E s \in allowed : got = Wire(<<s>>)
      [] OTHER -> chip.status \in StatusAfter(library.run)

Leap(y) == y % 4 = 0 /\ (y % 100 # 0 \/ y % 400 = 0)
DaysOf(y, m) == CASE m = 2 -> IF Leap(y) THEN 29 ELSE 28 [] m \in {4, 6, 9, 11} -> 30 [] OTHER -> 31
NextDay(d) ==
  CASE d[3] < DaysOf(d[1], d[2]) -> <<d[1], d[2], d[3] + 1>>
    [] d[3] = DaysOf(d[1], d[2]) /\ d[2] < 12 -> <<d[1], d[2] + 1, 1>>
    [] OTHER -> <<d[1] + 1, 1, 1>>

LAST_DAY == 49710  \* the last day of 32-bit seconds
DaysInOrder == DaysToYmd(0) = <<1970, 1, 1>> /\ \A d \in 0..LAST_DAY : DaysToYmd(d + 1) = NextDay(DaysToYmd(d))

(* The dates the chip reports follow each other as in the calendar, from   *)
(* 1970 on (days_to_ymd is tested at two days only).                       *)
CalendarRight == clock >= 0 => DaysInOrder
=============================================================================

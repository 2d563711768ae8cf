--------------------------------- MODULE Lcd ---------------------------------
(***************************************************************************)
(* The LCD library and its application, lcd.c and lcd_app.c of             *)
(* src/src/ldd-programming/gpio_sysfs, over the pins of an HD44780 display.*)
(* A library call is a list of writes to single pins.  The display is      *)
(* external: it latches the data pins when EN falls, and in four-bit mode  *)
(* makes an instruction of two nibbles.  The application may be killed     *)
(* between any two writes and started again, while the display stays       *)
(* powered; a write whose file cannot be opened is lost, and the library   *)
(* goes on (gpio_write_value returns an error that nobody looks at).       *)
(* Waiting times, and what the display does on its own, are left out.      *)
(***************************************************************************)
EXTENDS Integers, Sequences

CONSTANTS
    Columns,    \* bound: the columns of a line, 40 in the display's memory
    Chars       \* the characters the application prints

ASSUME ColumnsAssumption == Columns \in 1..40
ASSUME CharsAssumption == Chars \subseteq 32..127

VARIABLES
    phase,      \* of the application: off, init, running
    todo,       \* the pin writes that the current call has still to do
    call,       \* history: the call, as the caller names it
    pins,       \* the levels of the pins
    mode,       \* data length of the display, 8 or 4 bits
    half,       \* the nibbles it has latched of an unfinished instruction
    text, addr, right,  \* its memory, address counter, direction
    lost        \* history: has a write been lost since the start

lcd == <<mode, half, text, addr, right>>
vars == <<phase, todo, call, pins, lcd, lost>>

Pin == {"RS", "RW", "EN", "D4", "D5", "D6", "D7"}
Nibble == 0..15
NoCall == <<"none">>

\* The addresses of the first line and of the second.
Addr == (0..Columns - 1) \cup (64..63 + Columns)
Blank == 32

-----------------------------------------------------------------------------
(* the display *)

\* The address counter goes from line to line.
Succ(a) == IF a = Columns - 1 THEN 64 ELSE IF a = 63 + Columns THEN 0 ELSE a + 1
Pred(a) == IF a = 0 THEN 63 + Columns ELSE IF a = 64 THEN Columns - 1 ELSE a - 1

\* Display control, shifts of the display and the memory of user-defined
\* characters are not part of what is observed, nor are addresses beyond Columns.
ExecuteInstruction(b) ==
    /\ mode' = IF b \in 32..63 THEN (IF b >= 48 THEN 8 ELSE 4) ELSE mode
    /\ text' = IF b = 1 THEN [a \in Addr |-> Blank] ELSE text
    /\ right' = IF b = 1 THEN TRUE ELSE IF b \in 4..7 THEN b >= 6 ELSE right
    /\ addr' = IF b \in 1..3 THEN 0
               ELSE IF b \in 16..19 THEN Pred(addr)
               ELSE IF b \in 20..23 THEN Succ(addr)
               ELSE IF b - 128 \in Addr THEN b - 128 ELSE addr

WriteData(b) ==
    /\ text' = [text EXCEPT ![addr] = IF b \in Chars THEN b ELSE Blank]
    /\ addr' = IF right THEN Succ(addr) ELSE Pred(addr)
    /\ UNCHANGED <<mode, right>>

Execute(rs, b) == IF rs = 1 THEN WriteData(b) ELSE ExecuteInstruction(b)

DataPins == pins["D4"] + 2 * pins["D5"] + 4 * pins["D6"] + 8 * pins["D7"]

\* EN falls.  With eight bits the lower pins, which are not connected, read as
\* zero.  Two nibbles that disagree on RS may count as either.
Latch ==
    \/ /\ mode = 8
       /\ Execute(pins["RS"], 16 * DataPins)
       /\ UNCHANGED half
    \/ /\ mode = 4 /\ half = <<>>
       /\ half' = <<[rs |-> pins["RS"], nibble |-> DataPins]>>
       /\ UNCHANGED <<mode, text, addr, right>>
    \/ /\ mode = 4 /\ half # <<>>
       /\ \E rs \in {half[1].rs, pins["RS"]} :
            Execute(rs, 16 * half[1].nibble + DataPins)
       /\ half' = <<>>

-----------------------------------------------------------------------------
(* the library, as lists of pin writes *)

Write(pin, value) == <<[pin |-> pin, value |-> value]>>

LcdEnable == Write("EN", 0) \o Write("EN", 1) \o Write("EN", 0)

\* Mutant: the bits above the one that is meant are not masked.
Write4BitsUnmasked(data) ==
    Write("D4", data) \o Write("D5", data \div 2) \o Write("D6", data \div 4)
    \o Write("D7", data \div 8) \o LcdEnable

Write4Bits(data) ==
    Write("D4", data % 2) \o Write("D5", (data \div 2) % 2)
    \o Write("D6", (data \div 4) % 2) \o Write("D7", (data \div 8) % 2) \o LcdEnable

\* Mutant: the lower nibble goes first.
SendByteLowFirst(rs, b) ==
    Write("RS", rs) \o Write("RW", 0) \o Write4Bits(b) \o Write4Bits(b \div 16)

\* lcd_send_command with RS = 0, lcd_print_char with RS = 1.
SendByte(rs, b) ==
    Write("RS", rs) \o Write("RW", 0) \o Write4Bits(b \div 16) \o Write4Bits(b)

LCD_CMD_4DL_2N_5X8F == 40
LCD_CMD_DON_CURON == 14
LCD_CMD_INCADD == 6
LCD_CMD_DECADD == 4
LCD_CMD_DIS_CLEAR == 1
LCD_CMD_DIS_RETURN_HOME == 2
ShiftLeft == 24
LineBase(row) == IF row = 1 THEN 128 ELSE 192

\* Mutant: 0x03 is sent twice only.
LcdInitShort ==
    Write("RS", 0) \o Write("RW", 0)
    \o Write4Bits(3) \o Write4Bits(3) \o Write4Bits(2)
    \o SendByte(0, LCD_CMD_4DL_2N_5X8F) \o SendByte(0, LCD_CMD_DON_CURON)
    \o SendByte(0, LCD_CMD_DIS_CLEAR) \o SendByte(0, LCD_CMD_INCADD)

LcdInit ==
    Write("RS", 0) \o Write("RW", 0)
    \o Write4Bits(3) \o Write4Bits(3) \o Write4Bits(3) \o Write4Bits(2)
    \o SendByte(0, LCD_CMD_4DL_2N_5X8F) \o SendByte(0, LCD_CMD_DON_CURON)
    \o SendByte(0, LCD_CMD_DIS_CLEAR) \o SendByte(0, LCD_CMD_INCADD)

\* "out" written to the direction of a pin drives it low (gpio_sysfs.c:75); the
\* values are written after all directions.
InitGpios ==
    Write("RS", 0) \o Write("RW", 0) \o Write("EN", 0) \o Write("D4", 0)
    \o Write("D5", 0) \o Write("D6", 0) \o Write("D7", 0)
    \o Write("RS", 0) \o Write("EN", 0) \o Write("RW", 0) \o Write("D4", 0)
    \o Write("D5", 0) \o Write("D6", 0) \o Write("D7", 0)

-----------------------------------------------------------------------------
(* the specification *)

\* The pins are low once the gpio driver is loaded (gpio_sysfs.c:198); the
\* display may be in the middle of anything.
Init ==
    /\ phase = "off"
    /\ todo = <<>>
    /\ call = NoCall
    /\ pins = [p \in Pin |-> 0]
    /\ \/ mode = 8 /\ half = <<>>
       \/ mode = 4 /\ half = <<>>
       \/ mode = 4 /\ half \in {<<[rs |-> r, nibble |-> n]>> : r \in {0, 1}, n \in Nibble}
    /\ text = [a \in Addr |-> Blank]
    /\ addr = 0
    /\ right = TRUE
    /\ lost = FALSE

\* main: init_gpios and lcd_init.
Start ==
    /\ phase = "off"
    /\ phase' = "init"
    /\ todo' = InitGpios \o LcdInit
    /\ lost' = FALSE
    /\ UNCHANGED <<call, pins, lcd>>

\* The loop of main calls the library, in any order.
Begin(request, writes) ==
    /\ phase = "running"
    /\ todo = <<>>
    /\ todo' = writes
    /\ call' = request
    /\ UNCHANGED <<phase, pins, lcd, lost>>

LcdDisplayClear == Begin(<<"clear">>, SendByte(0, LCD_CMD_DIS_CLEAR))
LcdDisplayReturnHome == Begin(<<"home">>, SendByte(0, LCD_CMD_DIS_RETURN_HOME))
\* The command 0x18 of the loop that scrolls a long message.
ShiftMessage == Begin(<<"shift">>, SendByte(0, ShiftLeft))
LcdSetCursor(row, column) ==
    Begin(<<"cursor", <<row, column>>>>, SendByte(0, LineBase(row) + column - 1))
EntryMode(command) == Begin(<<"entry", command = LCD_CMD_INCADD>>, SendByte(0, command))
LcdPrintChar(ch) == Begin(<<"char", ch>>, SendByte(1, ch))

\* The last write ends the call, or lcd_init.
NextWrite ==
    /\ todo # <<>>
    /\ todo' = Tail(todo)
    /\ IF Len(todo) = 1
       THEN phase' = "running" /\ call' = NoCall
       ELSE UNCHANGED <<phase, call>>

\* gpio_write_value.
GpioWriteValue ==
    /\ NextWrite
    /\ LET w == Head(todo) IN
       /\ pins' = [pins EXCEPT ![w.pin] = w.value]
       /\ IF w.pin = "EN" /\ pins["EN"] = 1 /\ w.value = 0
          THEN Latch
          ELSE UNCHANGED lcd
    /\ UNCHANGED lost

\* Its open fails: perror, and the library goes on.  Bound: once per start.
GpioWriteFails ==
    /\ ~lost
    /\ NextWrite
    /\ lost' = TRUE
    /\ UNCHANGED <<pins, lcd>>

\* The application is killed; its pins keep their levels.
Kill ==
    /\ phase # "off"
    /\ phase' = "off"
    /\ todo' = <<>>
    /\ call' = NoCall
    /\ UNCHANGED <<pins, lcd, lost>>

Next ==
    \/ Start \/ GpioWriteValue \/ GpioWriteFails \/ Kill
    \/ LcdDisplayClear \/ LcdDisplayReturnHome \/ ShiftMessage
    \/ \E row \in 1..2, column \in 1..Columns : LcdSetCursor(row, column)
    \/ \E command \in {LCD_CMD_INCADD, LCD_CMD_DECADD} : EntryMode(command)
    \/ \E ch \in Chars : LcdPrintChar(ch)

Spec == Init /\ [][Next]_vars

-----------------------------------------------------------------------------
(* properties *)

\* Every variable has its type.
TypeOK ==
    /\ phase \in {"off", "init", "running"}
    /\ todo \in Seq([pin : Pin, value : {0, 1}])
    /\ pins \in [Pin -> {0, 1}]
    /\ mode \in {4, 8}
    /\ half \in {<<>>} \cup {<<[rs |-> r, nibble |-> n]>> : r \in {0, 1}, n \in Nibble}
    /\ text \in [Addr -> Chars \cup {Blank}]
    /\ addr \in Addr
    /\ right \in BOOLEAN
    /\ lost \in BOOLEAN

\* From the end of lcd_init on, and between any two calls, the display is in
\* four-bit mode and has no half of an instruction, however the application was
\* stopped before, whatever the display had then latched and whichever writes
\* were lost (lcd.c:35-42 and 136-137; lcd_app.c:52-66 with EN left high).
InStep ==
    phase = "running" /\ todo = <<>> /\ ~lost => mode = 4 /\ half = <<>>

\* The display as the caller sees it: nothing is promised while the application
\* is off or in lcd_init, or after it has lost a write.
Known == phase = "running" /\ ~lost
AddrOf(cell) == 64 * (cell[1] - 1) + cell[2] - 1
CellOf(a) == IF a < 64 THEN <<1, a + 1>> ELSE <<2, a - 63>>
Shown ==
    IF Known
    THEN [text |-> [cell \in (1..2) \X (1..Columns) |-> text[AddrOf(cell)]],
          cursor |-> CellOf(addr),
          right |-> right]
    ELSE [text |-> <<>>]
Requested == IF Known THEN call ELSE NoCall

Abstract == INSTANCE LcdDisplay WITH shown <- Shown, request <- Requested

\* Every call of the library takes effect on the display as a whole and as what
\* the caller asked for, after lcd_init at any time (lcd.c:59-158).
ImplementsDisplay == Abstract!Spec
=============================================================================

------------------------------ MODULE LcdDisplay ------------------------------
(***************************************************************************)
(* What src/src/ldd-programming/gpio_sysfs/lcd.c promises its caller: a    *)
(* display of two lines on which every call takes effect as a whole.       *)
(* Nothing is promised from the moment the application is started, killed, *)
(* or loses a write to a pin, until lcd_init has come to its end.          *)
(***************************************************************************)
EXTENDS Integers

CONSTANTS
    Columns,    \* the columns of a line
    Chars       \* the characters the application prints

VARIABLES
    shown,      \* the display as the caller sees it, or Unknown
    request     \* the call in progress, or None

Cell == (1..2) \X (1..Columns)
Blank == 32
Display == [text : [Cell -> Chars \cup {Blank}], cursor : Cell, right : BOOLEAN]
Unknown == [text |-> <<>>]

Cleared == [text |-> [c \in Cell |-> Blank], cursor |-> <<1, 1>>, right |-> TRUE]

\* From the end of a line the cursor goes to the start of the other one.
Right(c) == IF c[2] < Columns THEN <<c[1], c[2] + 1>> ELSE <<3 - c[1], 1>>
Left(c) == IF c[2] > 1 THEN <<c[1], c[2] - 1>> ELSE <<3 - c[1], Columns>>

None == <<"none">>
Request ==
    {<<"clear">>, <<"home">>, <<"shift">>} \cup ({"cursor"} \X Cell) \cup ({"entry"} \X BOOLEAN)
    \cup ({"char"} \X Chars)

\* A character goes where the cursor is, and the cursor moves on.  A shift moves
\* what the glass shows of the memory, and neither the memory nor the cursor.
Effect(r, d) ==
    CASE r[1] = "clear" -> Cleared
      [] r[1] = "home" -> [d EXCEPT !.cursor = <<1, 1>>]
      [] r[1] = "shift" -> d
      [] r[1] = "cursor" -> [d EXCEPT !.cursor = r[2]]
      [] r[1] = "entry" -> [d EXCEPT !.right = r[2]]
      [] r[1] = "char" -> [d EXCEPT !.text[d.cursor] = r[2],
                                    !.cursor = IF d.right THEN Right(@) ELSE Left(@)]

Init == shown = Unknown /\ request = None

\* lcd_init has come to its end; the display is lost.
LcdInit == shown = Unknown /\ shown' = Cleared /\ UNCHANGED request
Lose == shown' = Unknown /\ request' = None

\* A call is made, and takes effect.
Call(r) == shown # Unknown /\ request = None /\ request' = r /\ UNCHANGED shown
Return == request # None /\ shown' = Effect(request, shown) /\ request' = None

Next == LcdInit \/ Lose \/ Return \/ \E r \in Request : Call(r)

Spec == Init /\ [][Next]_<<shown, request>>
=============================================================================

------------------------------ MODULE LcdProofs ------------------------------
(***************************************************************************)
(* The library keeps in step with the display, and every call of it takes  *)
(* effect as a whole, for lines of any length and any characters.  lcd_init *)
(* is followed write by write, from every state a display may be in.       *)
(***************************************************************************)
EXTENDS Lcd, SequenceTheorems, TLAPS

PinWrite == [pin : Pin, value : {0, 1}]
Byte == 0..255

\* What the application does before its first call.
Program == InitGpios \o LcdInit

\* A program has a block after its first n writes.
Has(program, n, block) ==
    /\ n \in Nat /\ n + Len(block) <= Len(program)
    /\ \A k \in 1..Len(block) : program[n + k] = block[k]

\* The writes that are left of a program are s.
Ends(s, program) ==
    /\ Len(s) <= Len(program)
    /\ \A k \in 1..Len(s) : s[k] = program[Len(program) - Len(s) + k]

\* The pins after the first j writes of write_4_bits.
PinsIn(data, j) ==
    /\ j >= 1 => pins["D4"] = data % 2
    /\ j >= 2 => pins["D5"] = (data \div 2) % 2
    /\ j >= 3 => pins["D6"] = (data \div 4) % 2
    /\ j >= 4 => pins["D7"] = (data \div 8) % 2
    /\ pins["EN"] = IF j = 6 THEN 1 ELSE 0

\* The pins and the display after the first j writes of lcd_send_command or
\* lcd_print_char.
ByteAt(rs, b, j) ==
    /\ mode = 4
    /\ half = IF j < 9 THEN <<>> ELSE <<[rs |-> rs, nibble |-> b \div 16]>>
    /\ j < 2 => pins["EN"] = 0
    /\ j >= 1 => pins["RS"] = rs
    /\ j \in 2..8 => PinsIn(b \div 16, j - 2)
    /\ j >= 9 => PinsIn(b, j - 9)

\* What lcd_init finds after its first nibbles: the first 3 may complete an
\* instruction that an earlier run of the application has left half sent, the
\* others do not agree on where an instruction begins until all are sent.
OneNibbleIn == mode = 4 /\ half # <<>> => half = <<[rs |-> 0, nibble |-> 3]>>
TwoNibblesIn == mode = 4 => half = <<[rs |-> 0, nibble |-> 3]>>

Fresh == text = [a \in Addr |-> Blank] /\ addr = 0 /\ right = TRUE

\* The pins and the display after the first n writes of Program.
InitAt(n) ==
    /\ n \in 1..43 => pins["RS"] = 0
    /\ n \in 3..15 => pins["EN"] = 0
    /\ n \in 16..22 => PinsIn(3, n - 16)
    /\ n \in 23..29 => PinsIn(3, n - 23) /\ OneNibbleIn
    /\ n \in 30..36 => PinsIn(3, n - 30) /\ TwoNibblesIn
    /\ n \in 37..43 => PinsIn(2, n - 37) /\ mode = 8
    /\ n \in 44..59 => ByteAt(0, 40, n - 44)
    /\ n \in 60..75 => ByteAt(0, 14, n - 60)
    /\ n \in 76..91 => ByteAt(0, 1, n - 76)
    /\ n \in 92..107 => ByteAt(0, 6, n - 92) /\ Fresh

\* What a call sends.
Register(request) == IF request[1] = "char" THEN 1 ELSE 0
Code(request) ==
    IF request[1] = "clear" THEN 1
    ELSE IF request[1] = "home" THEN 2
    ELSE IF request[1] = "shift" THEN 24
    ELSE IF request[1] = "cursor" THEN LineBase(request[2][1]) + request[2][2] - 1
    ELSE IF request[1] = "entry" THEN IF request[2] THEN 6 ELSE 4
    ELSE request[2]

\* With eight bits there are no halves.
ModeInv == mode = 8 => half = <<>>

CallInv ==
    /\ phase = "off" => todo = <<>>
    /\ phase = "init" => todo # <<>>
    /\ IF phase = "running" /\ todo # <<>> THEN call \in Abstract!Request ELSE call = NoCall

\* Until a write is lost, the writes still to do and the display fit each other.
InitInv ==
    phase = "init" /\ ~lost => Ends(todo, Program) /\ InitAt(108 - Len(todo))
ByteInv ==
    phase = "running" /\ todo # <<>> /\ ~lost =>
        /\ Ends(todo, SendByte(Register(call), Code(call)))
        /\ ByteAt(Register(call), Code(call), 16 - Len(todo))
ReadyInv ==
    phase = "running" /\ todo = <<>> /\ ~lost => mode = 4 /\ half = <<>> /\ pins["EN"] = 0

IInv == TypeOK /\ ModeInv /\ CallInv /\ InitInv /\ ByteInv /\ ReadyInv

-----------------------------------------------------------------------------
(* the programs, write by write *)

LEMMA Joined ==
  ASSUME NEW s \in Seq(PinWrite), NEW t \in Seq(PinWrite)
  PROVE  s \o t \in Seq(PinWrite) /\ Len(s \o t) = Len(s) + Len(t)
BY ConcatProperties

LEMMA InSecond ==
  ASSUME NEW s \in Seq(PinWrite), NEW t \in Seq(PinWrite), NEW m \in Nat, NEW k \in 1..Len(t),
         m = Len(s) + k
  PROVE  (s \o t)[m] = t[k]
<1>1. m \in 1..Len(s) + Len(t) /\ ~(m <= Len(s)) /\ m - Len(s) = k
  OBVIOUS
<1> QED
  BY <1>1, ConcatProperties

LEMMA HasFirst ==
  ASSUME NEW s \in Seq(PinWrite), NEW t \in Seq(PinWrite), NEW n, NEW block \in Seq(PinWrite),
         Has(s, n, block)
  PROVE  Has(s \o t, n, block)
<1>1. \A k \in 1..Len(block) : n + k \in 1..Len(s)
  BY DEF Has
<1>2. \A k \in 1..Len(s) : (s \o t)[k] = s[k]
  BY ConcatProperties
<1> QED
  BY <1>1, <1>2, Joined DEF Has

LEMMA HasSecond ==
  ASSUME NEW s \in Seq(PinWrite), NEW t \in Seq(PinWrite), NEW n, NEW block \in Seq(PinWrite),
         Has(t, n, block)
  PROVE  Has(s \o t, Len(s) + n, block)
<1>1. ASSUME NEW k \in 1..Len(block)
      PROVE  (s \o t)[Len(s) + n + k] = block[k]
  <2>1. PICK i \in 1..Len(t) : i = n + k
    BY DEF Has
  <2>2. PICK m \in Nat : m = Len(s) + i
    OBVIOUS
  <2>3. m = Len(s) + n + k
    BY <2>1, <2>2 DEF Has
  <2>4. (s \o t)[m] = t[i]
    BY <2>2, InSecond
  <2> QED
    BY <2>1, <2>3, <2>4 DEF Has
<1>2. Len(s) + n \in Nat /\ Len(s) + n + Len(block) <= Len(s \o t)
  BY Joined DEF Has
<1> QED
  BY <1>1, <1>2 DEF Has

LEMMA HasLast ==
  ASSUME NEW s \in Seq(PinWrite), NEW t \in Seq(PinWrite)
  PROVE  Has(s \o t, Len(s), t)
<1>1. ASSUME NEW k \in 1..Len(t) PROVE (s \o t)[Len(s) + k] = t[k]
  <2>1. PICK m \in Nat : m = Len(s) + k
    OBVIOUS
  <2> QED
    BY <2>1, InSecond
<1> QED
  BY <1>1, Joined DEF Has

LEMMA HasItself ==
  ASSUME NEW s \in Seq(PinWrite)
  PROVE  Has(s, 0, s)
BY DEF Has

LEMMA WriteIs ==
  ASSUME NEW p \in Pin, NEW v \in {0, 1}
  PROVE  /\ Write(p, v) \in Seq(PinWrite) /\ Len(Write(p, v)) = 1
         /\ Write(p, v)[1] = [pin |-> p, value |-> v]
BY DEF Write, PinWrite

LEMMA LcdEnableIs ==
  /\ LcdEnable \in Seq(PinWrite) /\ Len(LcdEnable) = 3
  /\ LcdEnable[1] = [pin |-> "EN", value |-> 0]
  /\ LcdEnable[2] = [pin |-> "EN", value |-> 1]
  /\ LcdEnable[3] = [pin |-> "EN", value |-> 0]
BY DEF LcdEnable, Write, PinWrite, Pin

\* The writes of write_4_bits: the data pins, then the pulse of EN.
LEMMA Write4BitsIs ==
  ASSUME NEW data \in Byte
  PROVE  /\ Write4Bits(data) \in Seq(PinWrite) /\ Len(Write4Bits(data)) = 7
         /\ Write4Bits(data)[1] = [pin |-> "D4", value |-> data % 2]
         /\ Write4Bits(data)[2] = [pin |-> "D5", value |-> (data \div 2) % 2]
         /\ Write4Bits(data)[3] = [pin |-> "D6", value |-> (data \div 4) % 2]
         /\ Write4Bits(data)[4] = [pin |-> "D7", value |-> (data \div 8) % 2]
         /\ Write4Bits(data)[5] = [pin |-> "EN", value |-> 0]
         /\ Write4Bits(data)[6] = [pin |-> "EN", value |-> 1]
         /\ Write4Bits(data)[7] = [pin |-> "EN", value |-> 0]
<1>1. /\ data % 2 \in {0, 1} /\ (data \div 2) % 2 \in {0, 1}
      /\ (data \div 4) % 2 \in {0, 1} /\ (data \div 8) % 2 \in {0, 1}
  BY DEF Byte
<1>2. PICK b1, b2, b4, b8 \in {0, 1} :
        /\ b1 = data % 2 /\ b2 = (data \div 2) % 2
        /\ b4 = (data \div 4) % 2 /\ b8 = (data \div 8) % 2
  BY <1>1
<1>3. Write4Bits(data) = Write("D4", b1) \o Write("D5", b2) \o Write("D6", b4)
                         \o Write("D7", b8) \o LcdEnable
  BY <1>2 DEF Write4Bits
<1> QED
  BY <1>2, <1>3 DEF LcdEnable, Write, PinWrite, Pin

\* The writes of lcd_send_command and lcd_print_char: the upper nibble first.
LEMMA SendByteIs ==
  ASSUME NEW rs \in {0, 1}, NEW b \in Byte
  PROVE  /\ SendByte(rs, b) \in Seq(PinWrite) /\ Len(SendByte(rs, b)) = 16
         /\ SendByte(rs, b)[1] = [pin |-> "RS", value |-> rs]
         /\ SendByte(rs, b)[2] = [pin |-> "RW", value |-> 0]
         /\ Has(SendByte(rs, b), 2, Write4Bits(b \div 16))
         /\ Has(SendByte(rs, b), 9, Write4Bits(b))
<1> DEFINE head == Write("RS", rs) \o Write("RW", 0)
           upper == Write4Bits(b \div 16)
           lower == Write4Bits(b)
           first == head \o upper
<1>1. /\ head \in Seq(PinWrite) /\ Len(head) = 2
      /\ head[1] = [pin |-> "RS", value |-> rs] /\ head[2] = [pin |-> "RW", value |-> 0]
  BY DEF Write, PinWrite, Pin
<1>2. b \div 16 \in Byte
  BY DEF Byte
<1>3. /\ upper \in Seq(PinWrite) /\ Len(upper) = 7
      /\ lower \in Seq(PinWrite) /\ Len(lower) = 7
  BY <1>2, Write4BitsIs
<1>4. SendByte(rs, b) = first \o lower
  BY DEF SendByte
<1> HIDE DEF head, upper, lower
<1>5. /\ first \in Seq(PinWrite) /\ Len(first) = Len(head) + Len(upper)
      /\ Has(first, 0, head) /\ Has(first, Len(head), upper)
  BY <1>1, <1>3, Joined, HasItself, HasFirst, HasLast
<1> HIDE DEF first
<1>6. Len(first) = 9 /\ Has(first, 2, upper)
  BY <1>1, <1>3, <1>5
<1>7. /\ first \o lower \in Seq(PinWrite) /\ Len(first \o lower) = Len(first) + Len(lower)
      /\ Has(first \o lower, 0, head) /\ Has(first \o lower, 2, upper)
      /\ Has(first \o lower, Len(first), lower)
  BY <1>1, <1>3, <1>5, <1>6, Joined, HasFirst, HasLast
<1>8. /\ SendByte(rs, b) \in Seq(PinWrite) /\ Len(SendByte(rs, b)) = 16
      /\ Has(SendByte(rs, b), 0, head) /\ Has(SendByte(rs, b), 2, upper)
      /\ Has(SendByte(rs, b), 9, lower)
  BY <1>3, <1>4, <1>6, <1>7
<1>9. SendByte(rs, b)[1] = head[1] /\ SendByte(rs, b)[2] = head[2]
  <2>1. \A k \in 1..2 : SendByte(rs, b)[0 + k] = head[k]
    BY <1>1, <1>8 DEF Has
  <2>2. SendByte(rs, b)[0 + 1] = head[1] /\ SendByte(rs, b)[0 + 2] = head[2]
    BY <2>1
  <2> QED
    BY <2>2
<1> QED
  BY <1>1, <1>8, <1>9 DEF upper, lower

\* After init_gpios RS and EN are low, whatever they were.
LEMMA InitGpiosIs ==
  /\ InitGpios \in Seq(PinWrite) /\ Len(InitGpios) = 14
  /\ \A k \in 1..14 : InitGpios[k].value = 0
  /\ InitGpios[1].pin = "RS" /\ InitGpios[3].pin = "EN"
BY DEF InitGpios, Write, PinWrite, Pin

\* Where the blocks of lcd_init begin.
LcdInitHas(program, n) ==
    /\ Has(program, n, Write("RS", 0) \o Write("RW", 0))
    /\ Has(program, n + 2, Write4Bits(3)) /\ Has(program, n + 9, Write4Bits(3))
    /\ Has(program, n + 16, Write4Bits(3)) /\ Has(program, n + 23, Write4Bits(2))
    /\ Has(program, n + 30, SendByte(0, 40)) /\ Has(program, n + 46, SendByte(0, 14))
    /\ Has(program, n + 62, SendByte(0, 1)) /\ Has(program, n + 78, SendByte(0, 6))

LEMMA LcdInitIs ==
  LcdInit \in Seq(PinWrite) /\ Len(LcdInit) = 94 /\ LcdInitHas(LcdInit, 0)
<1> DEFINE three == Write4Bits(3)
           two == Write4Bits(2)
           function == SendByte(0, 40)
           control == SendByte(0, 14)
           clear == SendByte(0, 1)
           entry == SendByte(0, 6)
           p0 == Write("RS", 0) \o Write("RW", 0)
           p1 == p0 \o three
           p2 == p1 \o three
           p3 == p2 \o three
           p4 == p3 \o two
           p5 == p4 \o function
           p6 == p5 \o control
           p7 == p6 \o clear
           p8 == p7 \o entry
<1>1. LcdInit = p8
  BY DEF LcdInit, LCD_CMD_4DL_2N_5X8F, LCD_CMD_DON_CURON, LCD_CMD_DIS_CLEAR, LCD_CMD_INCADD
<1>2. p0 \in Seq(PinWrite) /\ Len(p0) = 2
  BY DEF Write, PinWrite, Pin
<1>3. 3 \in Byte /\ 2 \in Byte /\ 40 \in Byte /\ 14 \in Byte /\ 1 \in Byte /\ 6 \in Byte
  BY DEF Byte
<1>4. /\ three \in Seq(PinWrite) /\ Len(three) = 7 /\ two \in Seq(PinWrite) /\ Len(two) = 7
  BY <1>3, Write4BitsIs
<1>5. /\ function \in Seq(PinWrite) /\ Len(function) = 16
      /\ control \in Seq(PinWrite) /\ Len(control) = 16
      /\ clear \in Seq(PinWrite) /\ Len(clear) = 16
      /\ entry \in Seq(PinWrite) /\ Len(entry) = 16
  BY <1>3, SendByteIs
<1> HIDE DEF three, two, function, control, clear, entry, p0
<1>6. /\ p1 \in Seq(PinWrite) /\ Len(p1) = Len(p0) + Len(three)
      /\ Has(p1, 0, p0) /\ Has(p1, Len(p0), three)
  BY <1>2, <1>4, Joined, HasItself, HasFirst, HasLast
<1> HIDE DEF p1
<1>7. Len(p1) = 9 /\ Has(p1, 2, three)
  BY <1>2, <1>4, <1>6
<1>8. /\ p2 \in Seq(PinWrite) /\ Len(p2) = Len(p1) + Len(three)
      /\ Has(p2, 0, p0) /\ Has(p2, 2, three) /\ Has(p2, Len(p1), three)
  BY <1>2, <1>4, <1>6, <1>7, Joined, HasFirst, HasLast
<1> HIDE DEF p2
<1>9. Len(p2) = 16 /\ Has(p2, 9, three)
  BY <1>4, <1>7, <1>8
<1>10. /\ p3 \in Seq(PinWrite) /\ Len(p3) = Len(p2) + Len(three)
       /\ Has(p3, 0, p0) /\ Has(p3, 2, three) /\ Has(p3, 9, three) /\ Has(p3, Len(p2), three)
  BY <1>2, <1>4, <1>8, <1>9, Joined, HasFirst, HasLast
<1> HIDE DEF p3
<1>11. Len(p3) = 23 /\ Has(p3, 16, three)
  BY <1>4, <1>9, <1>10
<1>12. /\ p4 \in Seq(PinWrite) /\ Len(p4) = Len(p3) + Len(two)
       /\ Has(p4, 0, p0) /\ Has(p4, 2, three) /\ Has(p4, 9, three) /\ Has(p4, 16, three)
       /\ Has(p4, Len(p3), two)
  BY <1>2, <1>4, <1>10, <1>11, Joined, HasFirst, HasLast
<1> HIDE DEF p4
<1>13. Len(p4) = 30 /\ Has(p4, 23, two)
  BY <1>4, <1>11, <1>12
<1>14. /\ p5 \in Seq(PinWrite) /\ Len(p5) = Len(p4) + Len(function)
       /\ Has(p5, 0, p0) /\ Has(p5, 2, three) /\ Has(p5, 9, three) /\ Has(p5, 16, three)
       /\ Has(p5, 23, two) /\ Has(p5, Len(p4), function)
  BY <1>2, <1>4, <1>5, <1>12, <1>13, Joined, HasFirst, HasLast
<1> HIDE DEF p5
<1>15. Len(p5) = 46 /\ Has(p5, 30, function)
  BY <1>5, <1>13, <1>14
<1>16. /\ p6 \in Seq(PinWrite) /\ Len(p6) = Len(p5) + Len(control)
       /\ Has(p6, 0, p0) /\ Has(p6, 2, three) /\ Has(p6, 9, three) /\ Has(p6, 16, three)
       /\ Has(p6, 23, two) /\ Has(p6, 30, function) /\ Has(p6, Len(p5), control)
  BY <1>2, <1>4, <1>5, <1>14, <1>15, Joined, HasFirst, HasLast
<1> HIDE DEF p6
<1>17. Len(p6) = 62 /\ Has(p6, 46, control)
  BY <1>5, <1>15, <1>16
<1>18. /\ p7 \in Seq(PinWrite) /\ Len(p7) = Len(p6) + Len(clear)
       /\ Has(p7, 0, p0) /\ Has(p7, 2, three) /\ Has(p7, 9, three) /\ Has(p7, 16, three)
       /\ Has(p7, 23, two) /\ Has(p7, 30, function) /\ Has(p7, 46, control)
       /\ Has(p7, Len(p6), clear)
  BY <1>2, <1>4, <1>5, <1>16, <1>17, Joined, HasFirst, HasLast
<1> HIDE DEF p7
<1>19. Len(p7) = 78 /\ Has(p7, 62, clear)
  BY <1>5, <1>17, <1>18
<1>20. /\ p8 \in Seq(PinWrite) /\ Len(p8) = Len(p7) + Len(entry) /\ Has(p8, Len(p7), entry)
       /\ \A k \in Nat, block \in Seq(PinWrite) : Has(p7, k, block) => Has(p8, k, block)
  BY <1>5, <1>18, Joined, HasFirst, HasLast
<1> HIDE DEF p8
<1>21. Len(p8) = 94 /\ Has(p8, 78, entry)
  BY <1>5, <1>19, <1>20
<1>22. /\ Has(p8, 0, p0) /\ Has(p8, 2, three) /\ Has(p8, 9, three) /\ Has(p8, 16, three)
       /\ Has(p8, 23, two) /\ Has(p8, 30, function) /\ Has(p8, 46, control)
       /\ Has(p8, 62, clear)
  BY <1>2, <1>4, <1>5, <1>18, <1>19, <1>20
<1>23. LcdInitHas(p8, 0)
  BY <1>21, <1>22 DEF LcdInitHas, p0, three, two, function, control, clear, entry
<1> QED
  BY <1>1, <1>20, <1>21, <1>23

LEMMA ProgramIs ==
  /\ Program \in Seq(PinWrite) /\ Len(Program) = 108
  /\ Has(Program, 0, InitGpios) /\ LcdInitHas(Program, 14)
<1> DEFINE p0 == Write("RS", 0) \o Write("RW", 0)
<1>1. p0 \in Seq(PinWrite)
  BY DEF Write, PinWrite, Pin
<1>2. 3 \in Byte /\ 2 \in Byte /\ 40 \in Byte /\ 14 \in Byte /\ 1 \in Byte /\ 6 \in Byte
  BY DEF Byte
<1>3. /\ Write4Bits(3) \in Seq(PinWrite) /\ Write4Bits(2) \in Seq(PinWrite)
      /\ SendByte(0, 40) \in Seq(PinWrite) /\ SendByte(0, 14) \in Seq(PinWrite)
      /\ SendByte(0, 1) \in Seq(PinWrite) /\ SendByte(0, 6) \in Seq(PinWrite)
  BY <1>2, Write4BitsIs, SendByteIs
<1> HIDE DEF p0
<1>4. LcdInitHas(LcdInit, 0) <=>
        /\ Has(LcdInit, 0, p0)
        /\ Has(LcdInit, 2, Write4Bits(3)) /\ Has(LcdInit, 9, Write4Bits(3))
        /\ Has(LcdInit, 16, Write4Bits(3)) /\ Has(LcdInit, 23, Write4Bits(2))
        /\ Has(LcdInit, 30, SendByte(0, 40)) /\ Has(LcdInit, 46, SendByte(0, 14))
        /\ Has(LcdInit, 62, SendByte(0, 1)) /\ Has(LcdInit, 78, SendByte(0, 6))
  BY DEF LcdInitHas, p0
<1>5. /\ Program \in Seq(PinWrite) /\ Len(Program) = Len(InitGpios) + Len(LcdInit)
      /\ Has(Program, 0, InitGpios)
  BY InitGpiosIs, LcdInitIs, Joined, HasItself, HasFirst DEF Program
<1> DEFINE n == Len(InitGpios)
<1>6. \A k \in Nat, block \in Seq(PinWrite) : Has(LcdInit, k, block) => Has(Program, n + k, block)
  BY InitGpiosIs, LcdInitIs, HasSecond DEF Program
<1>7. n = 14 /\ n + 0 = 14
  BY InitGpiosIs
<1>8. /\ Has(Program, n + 0, p0)
      /\ Has(Program, n + 2, Write4Bits(3)) /\ Has(Program, n + 9, Write4Bits(3))
      /\ Has(Program, n + 16, Write4Bits(3)) /\ Has(Program, n + 23, Write4Bits(2))
      /\ Has(Program, n + 30, SendByte(0, 40)) /\ Has(Program, n + 46, SendByte(0, 14))
      /\ Has(Program, n + 62, SendByte(0, 1)) /\ Has(Program, n + 78, SendByte(0, 6))
  BY <1>1, <1>3, <1>4, <1>6, LcdInitIs
<1> QED
  BY <1>5, <1>7, <1>8, LcdInitIs DEF LcdInitHas, p0

-----------------------------------------------------------------------------
(* one write *)

LEMMA EndsItself ==
  ASSUME NEW s \in Seq(PinWrite)
  PROVE  Ends(s, s)
BY DEF Ends

\* The next write, by its place in the block of the program it is in.
LEMMA NextOfBlock ==
  ASSUME NEW s \in Seq(PinWrite), NEW program \in Seq(PinWrite), Ends(s, program), s # <<>>,
         NEW n \in Nat, NEW block \in Seq(PinWrite), Has(program, n, block),
         NEW j \in Nat, j < Len(block), n + j + Len(s) = Len(program)
  PROVE  Head(s) = block[j + 1]
<1>1. Head(s) = s[1] /\ Len(s) \in Nat \ {0}
  BY HeadTailProperties, EmptySeq
<1>2. s[1] = program[n + j + 1]
  BY <1>1 DEF Ends
<1>3. PICK k \in 1..Len(block) : k = j + 1
  OBVIOUS
<1>4. program[n + k] = block[k]
  BY DEF Has
<1> QED
  BY <1>1, <1>2, <1>3, <1>4

LEMMA RestOfProgram ==
  ASSUME NEW s \in Seq(PinWrite), NEW program \in Seq(PinWrite), Ends(s, program), s # <<>>
  PROVE  Tail(s) \in Seq(PinWrite) /\ Len(Tail(s)) = Len(s) - 1 /\ Ends(Tail(s), program)
<1>1. /\ Len(s) \in Nat \ {0} /\ Tail(s) \in Seq(PinWrite) /\ Len(Tail(s)) = Len(s) - 1
      /\ \A k \in 1..Len(Tail(s)) : Tail(s)[k] = s[k + 1]
  BY HeadTailProperties, EmptySeq
<1>2. ASSUME NEW k \in 1..Len(Tail(s))
      PROVE  Tail(s)[k] = program[Len(program) - Len(Tail(s)) + k]
  <2>1. PICK i \in 1..Len(s) : i = k + 1
    BY <1>1
  <2>2. s[i] = program[Len(program) - Len(s) + i]
    BY DEF Ends
  <2>3. Len(program) - Len(Tail(s)) + k = Len(program) - Len(s) + i
    BY <1>1, <2>1
  <2> QED
    BY <1>1, <2>1, <2>2, <2>3
<1> QED
  BY <1>1, <1>2 DEF Ends

\* A write of one of the first six of write_4_bits does nothing to the display;
\* with the seventh EN falls, and the data pins show the lower four bits.
LEMMA NibbleStep ==
  ASSUME TypeOK, GpioWriteValue, NEW data \in Byte, NEW j \in 0..6, PinsIn(data, j),
         Head(todo) = Write4Bits(data)[j + 1]
  PROVE  /\ pins'["RS"] = pins["RS"]
         /\ j < 6 => PinsIn(data, j + 1)' /\ UNCHANGED lcd
         /\ j = 6 => pins'["EN"] = 0 /\ Latch /\ DataPins = data % 16
<1> DEFINE w == Head(todo)
<1>1. /\ pins' = [pins EXCEPT ![w.pin] = w.value]
      /\ IF w.pin = "EN" /\ pins["EN"] = 1 /\ w.value = 0 THEN Latch ELSE UNCHANGED lcd
      /\ pins \in [Pin -> {0, 1}]
  BY DEF GpioWriteValue, TypeOK
<1> HIDE DEF w
<1>2. /\ j = 0 => w = [pin |-> "D4", value |-> data % 2]
      /\ j = 1 => w = [pin |-> "D5", value |-> (data \div 2) % 2]
      /\ j = 2 => w = [pin |-> "D6", value |-> (data \div 4) % 2]
      /\ j = 3 => w = [pin |-> "D7", value |-> (data \div 8) % 2]
      /\ j = 4 => w = [pin |-> "EN", value |-> 0]
      /\ j = 5 => w = [pin |-> "EN", value |-> 1]
      /\ j = 6 => w = [pin |-> "EN", value |-> 0]
  <2> DEFINE writes == Write4Bits(data)
  <2>1. /\ writes[1] = [pin |-> "D4", value |-> data % 2]
        /\ writes[2] = [pin |-> "D5", value |-> (data \div 2) % 2]
        /\ writes[3] = [pin |-> "D6", value |-> (data \div 4) % 2]
        /\ writes[4] = [pin |-> "D7", value |-> (data \div 8) % 2]
        /\ writes[5] = [pin |-> "EN", value |-> 0]
        /\ writes[6] = [pin |-> "EN", value |-> 1]
        /\ writes[7] = [pin |-> "EN", value |-> 0]
    BY Write4BitsIs
  <2>2. w = writes[j + 1]
    BY DEF w
  <2> HIDE DEF writes
  <2> QED
    BY <2>1, <2>2
<1>3. CASE j = 0
  <2>1. w.pin = "D4" /\ w.value = data % 2
    BY <1>2, <1>3
  <2>2. pins' = [pins EXCEPT !["D4"] = data % 2] /\ UNCHANGED lcd
    BY <1>1, <1>3, <2>1 DEF PinsIn
  <2> QED
    BY <1>1, <1>3, <2>2 DEF PinsIn, Pin
<1>4. CASE j = 1
  <2>1. w.pin = "D5" /\ w.value = (data \div 2) % 2
    BY <1>2, <1>4
  <2>2. pins' = [pins EXCEPT !["D5"] = (data \div 2) % 2] /\ UNCHANGED lcd
    BY <1>1, <1>4, <2>1 DEF PinsIn
  <2> QED
    BY <1>1, <1>4, <2>2 DEF PinsIn, Pin
<1>5. CASE j = 2
  <2>1. w.pin = "D6" /\ w.value = (data \div 4) % 2
    BY <1>2, <1>5
  <2>2. pins' = [pins EXCEPT !["D6"] = (data \div 4) % 2] /\ UNCHANGED lcd
    BY <1>1, <1>5, <2>1 DEF PinsIn
  <2> QED
    BY <1>1, <1>5, <2>2 DEF PinsIn, Pin
<1>6. CASE j = 3
  <2>1. w.pin = "D7" /\ w.value = (data \div 8) % 2
    BY <1>2, <1>6
  <2>2. pins' = [pins EXCEPT !["D7"] = (data \div 8) % 2] /\ UNCHANGED lcd
    BY <1>1, <1>6, <2>1 DEF PinsIn
  <2> QED
    BY <1>1, <1>6, <2>2 DEF PinsIn, Pin
<1>7. CASE j = 4
  <2>1. w.pin = "EN" /\ w.value = 0
    BY <1>2, <1>7
  <2>2. pins' = [pins EXCEPT !["EN"] = 0] /\ UNCHANGED lcd
    BY <1>1, <1>7, <2>1 DEF PinsIn
  <2> QED
    BY <1>1, <1>7, <2>2 DEF PinsIn, Pin
<1>8. CASE j = 5
  <2>1. w.pin = "EN" /\ w.value = 1
    BY <1>2, <1>8
  <2>2. pins' = [pins EXCEPT !["EN"] = 1] /\ UNCHANGED lcd
    BY <1>1, <1>8, <2>1 DEF PinsIn
  <2> QED
    BY <1>1, <1>8, <2>2 DEF PinsIn, Pin
<1>9. CASE j = 6
  <2>1. w.pin = "EN" /\ w.value = 0
    BY <1>2, <1>9
  <2>2. DataPins = (data % 2) + 2 * ((data \div 2) % 2) + 4 * ((data \div 4) % 2)
                   + 8 * ((data \div 8) % 2)
    BY <1>9 DEF DataPins, PinsIn
  <2>3. DataPins = data % 16
    BY <2>2 DEF Byte
  <2> QED
    BY <1>1, <1>9, <2>1, <2>3 DEF PinsIn, Pin
<1> QED
  BY <1>3, <1>4, <1>5, <1>6, <1>7, <1>8, <1>9

\* A write of a byte does nothing to what the display shows, but the last one:
\* with it the display executes the byte, as a whole.
LEMMA ByteStep ==
  ASSUME TypeOK, GpioWriteValue, NEW rs \in {0, 1}, NEW b \in Byte, NEW j \in 0..15,
         ByteAt(rs, b, j), Head(todo) = SendByte(rs, b)[j + 1]
  PROVE  /\ j < 15 => ByteAt(rs, b, j + 1)' /\ UNCHANGED <<text, addr, right>>
         /\ j = 15 => Execute(rs, b) /\ half' = <<>> /\ pins'["EN"] = 0
<1> DEFINE upper == b \div 16
<1>1. upper \in Byte /\ upper % 16 = upper /\ 16 * upper + (b % 16) = b
  BY DEF Byte
<1>2. /\ SendByte(rs, b)[1] = [pin |-> "RS", value |-> rs]
      /\ SendByte(rs, b)[2] = [pin |-> "RW", value |-> 0]
      /\ Has(SendByte(rs, b), 2, Write4Bits(upper)) /\ Len(Write4Bits(upper)) = 7
      /\ Has(SendByte(rs, b), 9, Write4Bits(b)) /\ Len(Write4Bits(b)) = 7
  BY <1>1, SendByteIs, Write4BitsIs
<1> HIDE DEF upper
<1>3. ASSUME j < 2
      PROVE  ByteAt(rs, b, j + 1)' /\ UNCHANGED <<text, addr, right>>
  <2> DEFINE w == Head(todo)
  <2>1. /\ pins' = [pins EXCEPT ![w.pin] = w.value]
        /\ IF w.pin = "EN" /\ pins["EN"] = 1 /\ w.value = 0 THEN Latch ELSE UNCHANGED lcd
        /\ pins \in [Pin -> {0, 1}]
    BY DEF GpioWriteValue, TypeOK
  <2>2. /\ w.pin = (IF j = 0 THEN "RS" ELSE "RW") /\ w.value = (IF j = 0 THEN rs ELSE 0)
    <3>1. j = 0 \/ j = 1
      BY <1>3
    <3>2. CASE j = 0
      BY <1>2, <3>2
    <3>3. CASE j = 1
      BY <1>2, <3>3
    <3> QED
      BY <3>1, <3>2, <3>3
  <2> HIDE DEF w
  <2>3. UNCHANGED lcd /\ pins'["EN"] = 0 /\ pins'["RS"] = rs
    BY <1>3, <2>1, <2>2 DEF ByteAt, Pin
  <2>4. mode' = 4 /\ half' = <<>>
    BY <1>3, <2>3 DEF ByteAt, lcd
  <2>5. j + 1 < 9 /\ (j + 1 \in 2..8 => j + 1 - 2 = 0)
    BY <1>3
  <2>6. j + 1 \in 2..8 => PinsIn(b \div 16, j + 1 - 2)'
    BY <2>3, <2>5 DEF PinsIn
  <2> QED
    BY <2>3, <2>4, <2>5, <2>6 DEF ByteAt, lcd
<1>4. ASSUME NEW i \in 0..6, j = i + 2
      PROVE  ByteAt(rs, b, j + 1)' /\ UNCHANGED <<text, addr, right>>
  <2>1. Head(todo) = Write4Bits(upper)[i + 1]
    <3>1. PICK k \in 1..7 : k = i + 1
      OBVIOUS
    <3>2. SendByte(rs, b)[2 + k] = Write4Bits(upper)[k]
      BY <1>2 DEF Has
    <3> QED
      BY <1>4, <3>1, <3>2
  <2>2. PinsIn(upper, i) /\ mode = 4 /\ half = <<>> /\ pins["RS"] = rs
    BY <1>4 DEF ByteAt, upper
  <2>3. /\ pins'["RS"] = rs
        /\ i < 6 => PinsIn(upper, i + 1)' /\ UNCHANGED lcd
        /\ i = 6 => pins'["EN"] = 0 /\ Latch /\ DataPins = upper
    BY <1>1, <2>1, <2>2, NibbleStep
  <2>4. CASE i < 6
    <3>1. j + 1 < 9 /\ j + 1 \in 2..8 /\ j + 1 - 2 = i + 1
      BY <1>4, <2>4
    <3>2. PinsIn(b \div 16, j + 1 - 2)'
      BY <2>3, <2>4, <3>1 DEF upper
    <3> QED
      BY <2>2, <2>3, <2>4, <3>1, <3>2 DEF ByteAt, lcd
  <2>5. CASE i = 6
    <3>1. j + 1 = 9 /\ j + 1 - 9 = 0
      BY <1>4, <2>5
    <3>2. /\ half' = <<[rs |-> rs, nibble |-> upper]>>
          /\ mode' = 4 /\ UNCHANGED <<text, addr, right>>
      BY <2>2, <2>3, <2>5 DEF Latch
    <3>3. PinsIn(b, j + 1 - 9)'
      BY <2>3, <2>5, <3>1 DEF PinsIn
    <3> QED
      BY <2>3, <3>1, <3>2, <3>3 DEF ByteAt, upper
  <2> QED
    BY <2>4, <2>5
<1>5. ASSUME NEW i \in 0..6, j = i + 9
      PROVE  /\ j < 15 => ByteAt(rs, b, j + 1)' /\ UNCHANGED <<text, addr, right>>
             /\ j = 15 => Execute(rs, b) /\ half' = <<>> /\ pins'["EN"] = 0
  <2>1. Head(todo) = Write4Bits(b)[i + 1]
    <3>1. PICK k \in 1..7 : k = i + 1
      OBVIOUS
    <3>2. SendByte(rs, b)[9 + k] = Write4Bits(b)[k]
      BY <1>2 DEF Has
    <3> QED
      BY <1>5, <3>1, <3>2
  <2>2. /\ PinsIn(b, i) /\ mode = 4 /\ half = <<[rs |-> rs, nibble |-> upper]>>
        /\ pins["RS"] = rs
    BY <1>5 DEF ByteAt, upper
  <2>3. /\ pins'["RS"] = rs
        /\ i < 6 => PinsIn(b, i + 1)' /\ UNCHANGED lcd
        /\ i = 6 => pins'["EN"] = 0 /\ Latch /\ DataPins = b % 16
    BY <2>1, <2>2, NibbleStep
  <2>4. CASE i < 6
    <3>1. j < 15 /\ j + 1 >= 9 /\ ~(j + 1 < 9) /\ j + 1 \notin 2..8 /\ j + 1 - 9 = i + 1
      BY <1>5, <2>4
    <3>2. PinsIn(b, j + 1 - 9)'
      BY <2>3, <2>4, <3>1
    <3> QED
      BY <2>2, <2>3, <2>4, <3>1, <3>2 DEF ByteAt, lcd, upper
  <2>5. CASE i = 6
    <3>1. half # <<>> /\ half[1].rs = rs /\ half[1].nibble = upper
      BY <2>2
    <3>2. half' = <<>> /\ Execute(rs, 16 * upper + (b % 16))
      BY <2>2, <2>3, <2>5, <3>1 DEF Latch
    <3> QED
      BY <1>1, <1>5, <2>3, <2>5, <3>2
  <2> QED
    BY <2>4, <2>5
<1>6. j < 2 \/ (\E i \in 0..6 : j = i + 2) \/ (\E i \in 0..6 : j = i + 9)
  <2>1. j \in 2..8 => j - 2 \in 0..6 /\ j = (j - 2) + 2
    OBVIOUS
  <2>2. j \in 9..15 => j - 9 \in 0..6 /\ j = (j - 9) + 9
    OBVIOUS
  <2> QED
    BY <2>1, <2>2
<1>7. j < 2 \/ (\E i \in 0..6 : j = i + 2) => j < 15
  OBVIOUS
<1> QED
  BY <1>3, <1>4, <1>5, <1>6, <1>7

-----------------------------------------------------------------------------
(* types *)

LEMMA AddrIs ==
  ASSUME NEW a \in Addr
  PROVE  Succ(a) \in Addr /\ Pred(a) \in Addr /\ 0 \in Addr /\ a \in Int
BY ColumnsAssumption DEF Addr, Succ, Pred

LEMMA ExecuteType ==
  ASSUME TypeOK, NEW rs, NEW b \in Byte, Execute(rs, b)
  PROVE  /\ mode' \in {4, 8} /\ text' \in [Addr -> Chars \cup {Blank}]
         /\ addr' \in Addr /\ right' \in BOOLEAN
<1>1. /\ mode \in {4, 8} /\ text \in [Addr -> Chars \cup {Blank}] /\ addr \in Addr
      /\ right \in BOOLEAN
  BY DEF TypeOK
<1>2. CASE rs = 1
  <2>1. WriteData(b)
    BY <1>2 DEF Execute
  <2>2. addr' \in Addr
    BY <1>1, <2>1, AddrIs DEF WriteData
  <2>3. text' \in [Addr -> Chars \cup {Blank}] /\ mode' \in {4, 8} /\ right' \in BOOLEAN
    BY <1>1, <2>1 DEF WriteData
  <2> QED
    BY <2>2, <2>3
<1>3. CASE rs # 1
  <2>1. ExecuteInstruction(b)
    BY <1>3 DEF Execute
  <2>2. addr' \in Addr
    BY <1>1, <2>1, AddrIs DEF ExecuteInstruction
  <2>3. text' \in [Addr -> Chars \cup {Blank}]
    BY <1>1, <2>1 DEF ExecuteInstruction
  <2>4. mode' \in {4, 8}
    BY <1>1, <2>1 DEF ExecuteInstruction
  <2>5. right' \in BOOLEAN
    <3>1. (b >= 6) \in BOOLEAN
      OBVIOUS
    <3> QED
      BY <1>1, <2>1, <3>1 DEF ExecuteInstruction
  <2> QED
    BY <2>2, <2>3, <2>4, <2>5
<1> QED
  BY <1>2, <1>3

LEMMA DataPinsType ==
  ASSUME TypeOK
  PROVE  DataPins \in Nibble /\ pins["RS"] \in {0, 1}
<1>1. /\ pins["D4"] \in {0, 1} /\ pins["D5"] \in {0, 1} /\ pins["D6"] \in {0, 1}
      /\ pins["D7"] \in {0, 1} /\ pins["RS"] \in {0, 1}
  BY DEF TypeOK, Pin
<1> QED
  BY <1>1 DEF DataPins, Nibble

\* Whatever the display makes of its pins has its types, and with eight bits no
\* half of an instruction stays behind.
LEMMA LatchType ==
  ASSUME TypeOK, ModeInv, Latch
  PROVE  /\ mode' \in {4, 8} /\ text' \in [Addr -> Chars \cup {Blank}]
         /\ addr' \in Addr /\ right' \in BOOLEAN /\ ModeInv'
         /\ half' \in {<<>>} \cup {<<[rs |-> r, nibble |-> n]>> : r \in {0, 1}, n \in Nibble}
<1>1. DataPins \in Nibble /\ pins["RS"] \in {0, 1}
  BY DataPinsType
<1>2. /\ mode \in {4, 8} /\ text \in [Addr -> Chars \cup {Blank}] /\ addr \in Addr
      /\ right \in BOOLEAN
      /\ half \in {<<>>} \cup {<<[rs |-> r, nibble |-> n]>> : r \in {0, 1}, n \in Nibble}
  BY DEF TypeOK
<1>3. CASE mode = 8 /\ Execute(pins["RS"], 16 * DataPins) /\ UNCHANGED half
  <2>1. 16 * DataPins \in Byte
    BY <1>1 DEF Nibble, Byte
  <2> QED
    BY <1>2, <1>3, <2>1, ExecuteType DEF ModeInv
<1>4. CASE /\ mode = 4 /\ half = <<>>
           /\ half' = <<[rs |-> pins["RS"], nibble |-> DataPins]>>
           /\ UNCHANGED <<mode, text, addr, right>>
  BY <1>1, <1>2, <1>4 DEF ModeInv
<1>5. CASE /\ mode = 4 /\ half # <<>>
           /\ \E rs \in {half[1].rs, pins["RS"]} :
                Execute(rs, 16 * half[1].nibble + DataPins)
           /\ half' = <<>>
  <2>1. half[1].nibble \in Nibble
    BY <1>2, <1>5
  <2>2. 16 * half[1].nibble + DataPins \in Byte
    BY <1>1, <2>1 DEF Nibble, Byte
  <2>3. PICK rs : Execute(rs, 16 * half[1].nibble + DataPins)
    BY <1>5
  <2> QED
    BY <1>5, <2>2, <2>3, ExecuteType DEF ModeInv
<1> QED
  BY <1>3, <1>4, <1>5 DEF Latch

LEMMA HeadIs ==
  ASSUME TypeOK, todo # <<>>
  PROVE  /\ Head(todo).pin \in Pin /\ Head(todo).value \in {0, 1}
         /\ Tail(todo) \in Seq(PinWrite) /\ Len(Tail(todo)) = Len(todo) - 1
         /\ Len(todo) \in Nat \ {0}
<1>1. todo \in Seq(PinWrite)
  BY DEF TypeOK, PinWrite
<1>2. /\ Head(todo) \in PinWrite /\ Tail(todo) \in Seq(PinWrite)
      /\ Len(Tail(todo)) = Len(todo) - 1
  BY <1>1, HeadTailProperties
<1>3. Len(todo) \in Nat \ {0}
  BY <1>1, EmptySeq
<1> QED
  BY <1>2, <1>3 DEF PinWrite

-----------------------------------------------------------------------------
(* lcd_init, block by block *)

\* All that init_gpios writes, and the first writes of lcd_init, is low.
LEMMA PreludeStep ==
  ASSUME TypeOK, todo # <<>>, GpioWriteValue, Ends(todo, Program),
         NEW n \in 0..15, n + Len(todo) = 108, InitAt(n)
  PROVE  InitAt(n + 1)'
<1> DEFINE w == Head(todo)
           p0 == Write("RS", 0) \o Write("RW", 0)
<1>1. pins' = [pins EXCEPT ![w.pin] = w.value] /\ pins \in [Pin -> {0, 1}] /\ w.pin \in Pin
  BY HeadIs DEF GpioWriteValue, TypeOK
<1>2. /\ Program \in Seq(PinWrite) /\ todo \in Seq(PinWrite)
      /\ Has(Program, 0, InitGpios) /\ Has(Program, 14, p0)
  BY ProgramIs DEF TypeOK, PinWrite, LcdInitHas
<1>3. p0 \in Seq(PinWrite) /\ p0[1].value = 0 /\ p0[2].value = 0
  BY DEF Write, PinWrite, Pin
<1>4. Len(Program) = 108 /\ Len(InitGpios) = 14 /\ Len(p0) = 2
  BY ProgramIs, InitGpiosIs DEF Write
<1> HIDE DEF w, p0
<1>5. ASSUME n < 14 PROVE w = InitGpios[n + 1]
  <2>1. 0 \in Nat /\ n \in Nat /\ 0 + n + Len(todo) = 108 /\ n < 14
    BY <1>5, HeadIs
  <2>2. InitGpios \in Seq(PinWrite)
    BY InitGpiosIs
  <2>3. n < Len(InitGpios) /\ 0 + n + Len(todo) = Len(Program)
    BY <1>4, <2>1, Zenon
  <2> QED
    BY <1>2, <2>1, <2>2, <2>3, NextOfBlock DEF w
<1>6. ASSUME NEW j \in 0..1, n = 14 + j PROVE w = p0[j + 1]
  <2>1. 14 \in Nat /\ j \in Nat /\ 14 + j + Len(todo) = 108 /\ j < 2
    BY <1>6, HeadIs
  <2>2. j < Len(p0) /\ 14 + j + Len(todo) = Len(Program)
    BY <1>4, <2>1, Zenon
  <2> QED
    BY <1>2, <1>3, <2>1, <2>2, NextOfBlock DEF w
<1>7. w.value = 0
  <2>1. CASE n < 14
    <3>1. n + 1 \in 1..14
      BY <2>1
    <3> QED
      BY <1>5, <2>1, <3>1, InitGpiosIs
  <2>2. CASE n = 14
    BY <1>3, <1>6, <2>2
  <2>3. CASE n = 15
    BY <1>3, <1>6, <2>3
  <2> QED
    BY <2>1, <2>2, <2>3
<1>8. n = 0 => w.pin = "RS"
  BY <1>5, InitGpiosIs
<1>9. n = 2 => w.pin = "EN"
  BY <1>5, InitGpiosIs
<1>10. \A p \in Pin : pins[p] = 0 \/ p = w.pin => pins'[p] = 0
  BY <1>1, <1>7
<1>11. pins'["RS"] = 0
  <2>1. n >= 1 => pins["RS"] = 0
    BY DEF InitAt
  <2> QED
    BY <1>8, <1>10, <2>1 DEF Pin
<1>12. n >= 2 => pins'["EN"] = 0
  <2>1. n >= 3 => pins["EN"] = 0
    BY DEF InitAt
  <2> QED
    BY <1>9, <1>10, <2>1 DEF Pin
<1>13. n + 1 \in 16..22 => PinsIn(3, n + 1 - 16)'
  BY <1>12 DEF PinsIn
<1> QED
  BY <1>11, <1>12, <1>13 DEF InitAt

\* The next write of Program is one of write_4_bits.
LEMMA NibbleOfProgram ==
  ASSUME TypeOK, todo # <<>>, GpioWriteValue, Ends(todo, Program),
         NEW n \in Nat, NEW data \in Byte, Has(Program, n, Write4Bits(data)),
         NEW j \in 0..6, n + j + Len(todo) = 108, PinsIn(data, j)
  PROVE  /\ pins'["RS"] = pins["RS"]
         /\ j < 6 => PinsIn(data, j + 1)' /\ UNCHANGED lcd
         /\ j = 6 => pins'["EN"] = 0 /\ Latch /\ DataPins = data % 16
<1>1. /\ Program \in Seq(PinWrite) /\ todo \in Seq(PinWrite)
      /\ Write4Bits(data) \in Seq(PinWrite)
  <2>1. todo \in Seq(PinWrite)
    BY DEF TypeOK, PinWrite
  <2> QED
    BY <2>1, ProgramIs, Write4BitsIs
<1>2. Len(Program) = 108 /\ Len(Write4Bits(data)) = 7
  BY ProgramIs, Write4BitsIs
<1>3. j \in Nat /\ j < 7
  OBVIOUS
<1>4. j < Len(Write4Bits(data)) /\ n + j + Len(todo) = Len(Program)
  BY <1>2, <1>3, Zenon
<1>5. Head(todo) = Write4Bits(data)[j + 1]
  BY <1>1, <1>3, <1>4, NextOfBlock
<1> QED
  BY <1>5, NibbleStep

\* The first 3, whatever the display had latched before.
LEMMA FirstNibbleStep ==
  ASSUME TypeOK, ModeInv, todo # <<>>, GpioWriteValue, Ends(todo, Program),
         NEW j \in 0..6, 16 + j + Len(todo) = 108, InitAt(16 + j)
  PROVE  InitAt(16 + j + 1)'
<1>1. Has(Program, 16, Write4Bits(3))
  BY ProgramIs DEF LcdInitHas
<1>2. 3 \in Byte /\ 3 % 16 = 3 /\ 16 \in Nat
  BY DEF Byte
<1>3. PinsIn(3, j) /\ pins["RS"] = 0
  <2>1. 16 + j \in 16..22 /\ 16 + j - 16 = j /\ 16 + j \in 1..43
    OBVIOUS
  <2> QED
    BY <2>1 DEF InitAt
<1>4. /\ pins'["RS"] = 0
      /\ j < 6 => PinsIn(3, j + 1)' /\ UNCHANGED lcd
      /\ j = 6 => pins'["EN"] = 0 /\ Latch /\ DataPins = 3
  BY <1>1, <1>2, <1>3, NibbleOfProgram
<1>5. CASE j < 6
  <2>1. 16 + j + 1 \in 16..22 /\ 16 + j + 1 - 16 = j + 1
    BY <1>5
  <2> QED
    BY <1>4, <1>5, <2>1 DEF InitAt
<1>6. CASE j = 6
  <2>1. OneNibbleIn'
    <3>1. CASE mode = 8
      BY <1>3, <1>4, <1>6, <3>1 DEF Latch, Execute, ExecuteInstruction, OneNibbleIn
    <3>2. CASE mode = 4 /\ half = <<>>
      BY <1>3, <1>4, <1>6, <3>2 DEF Latch, OneNibbleIn
    <3>3. CASE mode = 4 /\ half # <<>>
      BY <1>4, <1>6, <3>3 DEF Latch, OneNibbleIn
    <3> QED
      BY <3>1, <3>2, <3>3 DEF TypeOK
  <2>2. 16 + j + 1 = 23
    BY <1>6
  <2>3. PinsIn(3, 16 + j + 1 - 23)'
    BY <1>4, <1>6, <2>2 DEF PinsIn
  <2> QED
    BY <1>4, <1>6, <2>1, <2>2, <2>3 DEF InitAt
<1> QED
  BY <1>5, <1>6

\* The second 3.
LEMMA SecondNibbleStep ==
  ASSUME TypeOK, ModeInv, todo # <<>>, GpioWriteValue, Ends(todo, Program),
         NEW j \in 0..6, 23 + j + Len(todo) = 108, InitAt(23 + j)
  PROVE  InitAt(23 + j + 1)'
<1>1. Has(Program, 23, Write4Bits(3))
  BY ProgramIs DEF LcdInitHas
<1>2. 3 \in Byte /\ 3 % 16 = 3 /\ 23 \in Nat
  BY DEF Byte
<1>3. PinsIn(3, j) /\ pins["RS"] = 0 /\ OneNibbleIn
  <2>1. 23 + j \in 23..29 /\ 23 + j - 23 = j /\ 23 + j \in 1..43
    OBVIOUS
  <2> QED
    BY <2>1 DEF InitAt
<1>4. /\ pins'["RS"] = 0
      /\ j < 6 => PinsIn(3, j + 1)' /\ UNCHANGED lcd
      /\ j = 6 => pins'["EN"] = 0 /\ Latch /\ DataPins = 3
  BY <1>1, <1>2, <1>3, NibbleOfProgram
<1>5. CASE j < 6
  <2>1. 23 + j + 1 \in 23..29 /\ 23 + j + 1 - 23 = j + 1
    BY <1>5
  <2>2. OneNibbleIn'
    BY <1>3, <1>4, <1>5 DEF OneNibbleIn, lcd
  <2> QED
    BY <1>4, <1>5, <2>1, <2>2 DEF InitAt
<1>6. CASE j = 6
  <2>1. TwoNibblesIn'
    <3>1. CASE mode = 8
      BY <1>3, <1>4, <1>6, <3>1 DEF Latch, Execute, ExecuteInstruction, TwoNibblesIn
    <3>2. CASE mode = 4 /\ half = <<>>
      BY <1>3, <1>4, <1>6, <3>2 DEF Latch, TwoNibblesIn
    <3>3. CASE mode = 4 /\ half = <<[rs |-> 0, nibble |-> 3]>>
      <4>1. half # <<>> /\ half[1].rs = 0 /\ half[1].nibble = 3
        BY <3>3
      <4>2. Execute(0, 16 * 3 + 3) /\ half' = <<>>
        BY <1>3, <1>4, <1>6, <3>3, <4>1 DEF Latch
      <4> QED
        BY <4>2 DEF Execute, ExecuteInstruction, TwoNibblesIn
    <3> QED
      BY <1>3, <3>1, <3>2, <3>3 DEF TypeOK, OneNibbleIn
  <2>2. 23 + j + 1 = 30
    BY <1>6
  <2>3. PinsIn(3, 23 + j + 1 - 30)'
    BY <1>4, <1>6, <2>2 DEF PinsIn
  <2> QED
    BY <1>4, <1>6, <2>1, <2>2, <2>3 DEF InitAt
<1> QED
  BY <1>5, <1>6

\* The third 3: at the latest now the display has eight bits.
LEMMA ThirdNibbleStep ==
  ASSUME TypeOK, ModeInv, todo # <<>>, GpioWriteValue, Ends(todo, Program),
         NEW j \in 0..6, 30 + j + Len(todo) = 108, InitAt(30 + j)
  PROVE  InitAt(30 + j + 1)'
<1>1. Has(Program, 30, Write4Bits(3))
  BY ProgramIs DEF LcdInitHas
<1>2. 3 \in Byte /\ 3 % 16 = 3 /\ 30 \in Nat
  BY DEF Byte
<1>3. PinsIn(3, j) /\ pins["RS"] = 0 /\ TwoNibblesIn
  <2>1. 30 + j \in 30..36 /\ 30 + j - 30 = j /\ 30 + j \in 1..43
    OBVIOUS
  <2> QED
    BY <2>1 DEF InitAt
<1>4. /\ pins'["RS"] = 0
      /\ j < 6 => PinsIn(3, j + 1)' /\ UNCHANGED lcd
      /\ j = 6 => pins'["EN"] = 0 /\ Latch /\ DataPins = 3
  BY <1>1, <1>2, <1>3, NibbleOfProgram
<1>5. CASE j < 6
  <2>1. 30 + j + 1 \in 30..36 /\ 30 + j + 1 - 30 = j + 1
    BY <1>5
  <2>2. TwoNibblesIn'
    BY <1>3, <1>4, <1>5 DEF TwoNibblesIn, lcd
  <2> QED
    BY <1>4, <1>5, <2>1, <2>2 DEF InitAt
<1>6. CASE j = 6
  <2>1. (mode = 8)'
    <3>1. CASE mode = 8
      BY <1>3, <1>4, <1>6, <3>1 DEF Latch, Execute, ExecuteInstruction
    <3>2. CASE mode = 4 /\ half = <<[rs |-> 0, nibble |-> 3]>>
      <4>1. half # <<>> /\ half[1].rs = 0 /\ half[1].nibble = 3
        BY <3>2
      <4>2. Execute(0, 16 * 3 + 3) /\ half' = <<>>
        BY <1>3, <1>4, <1>6, <3>2, <4>1 DEF Latch
      <4> QED
        BY <4>2 DEF Execute, ExecuteInstruction
    <3> QED
      BY <1>3, <3>1, <3>2 DEF TypeOK, TwoNibblesIn
  <2>2. 30 + j + 1 = 37
    BY <1>6
  <2>3. PinsIn(2, 30 + j + 1 - 37)'
    BY <1>4, <1>6, <2>2 DEF PinsIn
  <2> QED
    BY <1>4, <1>6, <2>1, <2>2, <2>3 DEF InitAt
<1> QED
  BY <1>5, <1>6

\* The 2 makes it four, with nothing half sent.
LEMMA FourthNibbleStep ==
  ASSUME TypeOK, ModeInv, todo # <<>>, GpioWriteValue, Ends(todo, Program),
         NEW j \in 0..6, 37 + j + Len(todo) = 108, InitAt(37 + j)
  PROVE  InitAt(37 + j + 1)'
<1>1. Has(Program, 37, Write4Bits(2))
  BY ProgramIs DEF LcdInitHas
<1>2. 2 \in Byte /\ 2 % 16 = 2 /\ 37 \in Nat
  BY DEF Byte
<1>3. PinsIn(2, j) /\ pins["RS"] = 0 /\ mode = 8
  <2>1. 37 + j \in 37..43 /\ 37 + j - 37 = j /\ 37 + j \in 1..43
    OBVIOUS
  <2> QED
    BY <2>1 DEF InitAt
<1>4. /\ pins'["RS"] = 0
      /\ j < 6 => PinsIn(2, j + 1)' /\ UNCHANGED lcd
      /\ j = 6 => pins'["EN"] = 0 /\ Latch /\ DataPins = 2
  BY <1>1, <1>2, <1>3, NibbleOfProgram
<1>5. CASE j < 6
  <2>1. 37 + j + 1 \in 37..43 /\ 37 + j + 1 - 37 = j + 1
    BY <1>5
  <2>2. (mode = 8)'
    BY <1>3, <1>4, <1>5 DEF lcd
  <2> QED
    BY <1>4, <1>5, <2>1, <2>2 DEF InitAt
<1>6. CASE j = 6
  <2>1. (mode = 4 /\ half = <<>>)'
    BY <1>3, <1>4, <1>6 DEF Latch, Execute, ExecuteInstruction, ModeInv
  <2>2. 37 + j + 1 = 44
    BY <1>6
  <2>3. ByteAt(0, 40, 37 + j + 1 - 44)'
    BY <1>4, <1>6, <2>1, <2>2 DEF ByteAt
  <2> QED
    BY <1>4, <1>6, <2>1, <2>2, <2>3 DEF InitAt
<1> QED
  BY <1>5, <1>6

\* The next write of a program is one of lcd_send_command or lcd_print_char.
LEMMA ByteOfProgram ==
  ASSUME TypeOK, todo # <<>>, GpioWriteValue,
         NEW program \in Seq(PinWrite), Ends(todo, program),
         NEW n \in Nat, NEW rs \in {0, 1}, NEW b \in Byte, Has(program, n, SendByte(rs, b)),
         NEW j \in 0..15, n + j + Len(todo) = Len(program), ByteAt(rs, b, j)
  PROVE  /\ j < 15 => ByteAt(rs, b, j + 1)' /\ UNCHANGED <<text, addr, right>>
         /\ j = 15 => Execute(rs, b) /\ half' = <<>> /\ pins'["EN"] = 0
<1>1. todo \in Seq(PinWrite)
  BY DEF TypeOK, PinWrite
<1>2. SendByte(rs, b) \in Seq(PinWrite) /\ Len(SendByte(rs, b)) = 16
  BY SendByteIs
<1>3. j \in Nat /\ j < 16
  OBVIOUS
<1>4. j < Len(SendByte(rs, b))
  BY <1>2, <1>3, Zenon
<1>5. Head(todo) = SendByte(rs, b)[j + 1]
  BY <1>1, <1>2, <1>3, <1>4, NextOfBlock
<1> QED
  BY <1>5, ByteStep

\* The function set: four bits, two lines.
LEMMA FunctionStep ==
  ASSUME TypeOK, todo # <<>>, GpioWriteValue, Ends(todo, Program),
         NEW j \in 0..15, 44 + j + Len(todo) = 108, InitAt(44 + j)
  PROVE  InitAt(44 + j + 1)'
<1>1. Has(Program, 44, SendByte(0, 40)) /\ Program \in Seq(PinWrite)
  BY ProgramIs DEF LcdInitHas
<1>2. 40 \in Byte /\ 44 \in Nat /\ 0 \in {0, 1}
  BY DEF Byte
<1>3. ByteAt(0, 40, j)
  <2>1. 44 + j \in 44..59 /\ 44 + j - 44 = j
    OBVIOUS
  <2> QED
    BY <2>1 DEF InitAt
<1>4. 44 + j + Len(todo) = Len(Program)
  <2>1. Len(Program) = 108
    BY ProgramIs
  <2> QED
    BY <2>1, Zenon
<1>5. /\ j < 15 => ByteAt(0, 40, j + 1)' /\ UNCHANGED <<text, addr, right>>
      /\ j = 15 => Execute(0, 40) /\ half' = <<>> /\ pins'["EN"] = 0
  BY <1>1, <1>2, <1>3, <1>4, ByteOfProgram
<1>6. CASE j < 15
  <2>1. 44 + j + 1 \in 44..59 /\ 44 + j + 1 - 44 = j + 1
    BY <1>6
  <2> QED
    BY <1>5, <1>6, <2>1 DEF InitAt
<1>7. CASE j = 15
  <2>1. mode' = 4
    BY <1>3, <1>5, <1>7 DEF Execute, ExecuteInstruction, ByteAt
  <2>2. 44 + j + 1 = 60
    BY <1>7
  <2>3. ByteAt(0, 14, 44 + j + 1 - 60)'
    BY <1>5, <1>7, <2>1, <2>2 DEF ByteAt
  <2> QED
    BY <2>2, <2>3 DEF InitAt
<1> QED
  BY <1>6, <1>7

\* Display control.
LEMMA ControlStep ==
  ASSUME TypeOK, todo # <<>>, GpioWriteValue, Ends(todo, Program),
         NEW j \in 0..15, 60 + j + Len(todo) = 108, InitAt(60 + j)
  PROVE  InitAt(60 + j + 1)'
<1>1. Has(Program, 60, SendByte(0, 14)) /\ Program \in Seq(PinWrite)
  BY ProgramIs DEF LcdInitHas
<1>2. 14 \in Byte /\ 60 \in Nat /\ 0 \in {0, 1}
  BY DEF Byte
<1>3. ByteAt(0, 14, j)
  <2>1. 60 + j \in 60..75 /\ 60 + j - 60 = j
    OBVIOUS
  <2> QED
    BY <2>1 DEF InitAt
<1>4. 60 + j + Len(todo) = Len(Program)
  <2>1. Len(Program) = 108
    BY ProgramIs
  <2> QED
    BY <2>1, Zenon
<1>5. /\ j < 15 => ByteAt(0, 14, j + 1)' /\ UNCHANGED <<text, addr, right>>
      /\ j = 15 => Execute(0, 14) /\ half' = <<>> /\ pins'["EN"] = 0
  BY <1>1, <1>2, <1>3, <1>4, ByteOfProgram
<1>6. CASE j < 15
  <2>1. 60 + j + 1 \in 60..75 /\ 60 + j + 1 - 60 = j + 1
    BY <1>6
  <2> QED
    BY <1>5, <1>6, <2>1 DEF InitAt
<1>7. CASE j = 15
  <2>1. mode' = 4
    BY <1>3, <1>5, <1>7 DEF Execute, ExecuteInstruction, ByteAt
  <2>2. 60 + j + 1 = 76
    BY <1>7
  <2>3. ByteAt(0, 1, 60 + j + 1 - 76)'
    BY <1>5, <1>7, <2>1, <2>2 DEF ByteAt
  <2> QED
    BY <2>2, <2>3 DEF InitAt
<1> QED
  BY <1>6, <1>7

\* The display is cleared.
LEMMA ClearStep ==
  ASSUME TypeOK, todo # <<>>, GpioWriteValue, Ends(todo, Program),
         NEW j \in 0..15, 76 + j + Len(todo) = 108, InitAt(76 + j)
  PROVE  InitAt(76 + j + 1)'
<1>1. Has(Program, 76, SendByte(0, 1)) /\ Program \in Seq(PinWrite)
  BY ProgramIs DEF LcdInitHas
<1>2. 1 \in Byte /\ 76 \in Nat /\ 0 \in {0, 1}
  BY DEF Byte
<1>3. ByteAt(0, 1, j)
  <2>1. 76 + j \in 76..91 /\ 76 + j - 76 = j
    OBVIOUS
  <2> QED
    BY <2>1 DEF InitAt
<1>4. 76 + j + Len(todo) = Len(Program)
  <2>1. Len(Program) = 108
    BY ProgramIs
  <2> QED
    BY <2>1, Zenon
<1>5. /\ j < 15 => ByteAt(0, 1, j + 1)' /\ UNCHANGED <<text, addr, right>>
      /\ j = 15 => Execute(0, 1) /\ half' = <<>> /\ pins'["EN"] = 0
  BY <1>1, <1>2, <1>3, <1>4, ByteOfProgram
<1>6. CASE j < 15
  <2>1. 76 + j + 1 \in 76..91 /\ 76 + j + 1 - 76 = j + 1
    BY <1>6
  <2> QED
    BY <1>5, <1>6, <2>1 DEF InitAt
<1>7. CASE j = 15
  <2>1. mode' = 4
    BY <1>3, <1>5, <1>7 DEF Execute, ExecuteInstruction, ByteAt
  <2>2. 76 + j + 1 = 92
    BY <1>7
  <2>3. ByteAt(0, 6, 76 + j + 1 - 92)'
    BY <1>5, <1>7, <2>1, <2>2 DEF ByteAt
  <2>4. Fresh'
    BY <1>5, <1>7, ColumnsAssumption DEF Execute, ExecuteInstruction, Fresh, Addr
  <2> QED
    BY <2>2, <2>3, <2>4 DEF InitAt
<1> QED
  BY <1>6, <1>7

\* The entry mode, and the end of lcd_init.
LEMMA EntryStep ==
  ASSUME TypeOK, todo # <<>>, GpioWriteValue, Ends(todo, Program),
         NEW j \in 0..15, 92 + j + Len(todo) = 108, InitAt(92 + j)
  PROVE  /\ j < 15 => InitAt(92 + j + 1)'
         /\ j = 15 => mode' = 4 /\ half' = <<>> /\ pins'["EN"] = 0 /\ Fresh'
<1>1. Has(Program, 92, SendByte(0, 6)) /\ Program \in Seq(PinWrite)
  BY ProgramIs DEF LcdInitHas
<1>2. 6 \in Byte /\ 92 \in Nat /\ 0 \in {0, 1}
  BY DEF Byte
<1>3. ByteAt(0, 6, j) /\ Fresh
  <2>1. 92 + j \in 92..107 /\ 92 + j - 92 = j
    OBVIOUS
  <2> QED
    BY <2>1 DEF InitAt
<1>4. 92 + j + Len(todo) = Len(Program)
  <2>1. Len(Program) = 108
    BY ProgramIs
  <2> QED
    BY <2>1, Zenon
<1>5. /\ j < 15 => ByteAt(0, 6, j + 1)' /\ UNCHANGED <<text, addr, right>>
      /\ j = 15 => Execute(0, 6) /\ half' = <<>> /\ pins'["EN"] = 0
  BY <1>1, <1>2, <1>3, <1>4, ByteOfProgram
<1>6. CASE j < 15
  <2>1. 92 + j + 1 \in 92..107 /\ 92 + j + 1 - 92 = j + 1
    BY <1>6
  <2>2. Fresh'
    BY <1>3, <1>5, <1>6 DEF Fresh
  <2> QED
    BY <1>5, <1>6, <2>1, <2>2 DEF InitAt
<1>7. CASE j = 15
  <2>1. ExecuteInstruction(6)
    BY <1>5, <1>7 DEF Execute
  <2>2. mode' = 4
    BY <1>3, <2>1 DEF ExecuteInstruction, ByteAt
  <2>3. text' = text
    BY <2>1 DEF ExecuteInstruction
  <2>4. right' = TRUE
    <3>1. right' = (6 >= 6)
      BY <2>1 DEF ExecuteInstruction
    <3>2. (6 >= 6) = TRUE
      OBVIOUS
    <3> QED
      BY <3>1, <3>2
  <2>5. 6 - 128 \notin Addr
    BY ColumnsAssumption DEF Addr
  <2>6. addr' = addr
    BY <2>1, <2>5 DEF ExecuteInstruction
  <2> QED
    BY <1>3, <1>5, <1>7, <2>2, <2>3, <2>6, <2>4 DEF Fresh
<1> QED
  BY <1>6, <1>7

\* All writes of the application up to its first call.
LEMMA InitStep ==
  ASSUME TypeOK, ModeInv, todo # <<>>, GpioWriteValue, Ends(todo, Program),
         NEW n \in 0..107, n + Len(todo) = 108, InitAt(n)
  PROVE  /\ n < 107 => InitAt(n + 1)'
         /\ n = 107 => mode' = 4 /\ half' = <<>> /\ pins'["EN"] = 0 /\ Fresh'
<1>1. CASE n \in 0..15
  <2>1. InitAt(n + 1)'
    BY <1>1, PreludeStep
  <2>2. n # 107
    BY <1>1
  <2> QED
    BY <2>1, <2>2
<1>2. CASE n \in 16..22
  <2>1. PICK j \in 0..6 : n = 16 + j
    BY <1>2
  <2>2. 16 + j + Len(todo) = 108 /\ InitAt(16 + j)
    BY <2>1
  <2>3. InitAt(16 + j + 1)'
    BY <2>2, FirstNibbleStep
  <2>4. n # 107
    BY <2>1
  <2> QED
    BY <2>1, <2>3, <2>4
<1>3. CASE n \in 23..29
  <2>1. PICK j \in 0..6 : n = 23 + j
    BY <1>3
  <2>2. 23 + j + Len(todo) = 108 /\ InitAt(23 + j)
    BY <2>1
  <2>3. InitAt(23 + j + 1)'
    BY <2>2, SecondNibbleStep
  <2>4. n # 107
    BY <2>1
  <2> QED
    BY <2>1, <2>3, <2>4
<1>4. CASE n \in 30..36
  <2>1. PICK j \in 0..6 : n = 30 + j
    BY <1>4
  <2>2. 30 + j + Len(todo) = 108 /\ InitAt(30 + j)
    BY <2>1
  <2>3. InitAt(30 + j + 1)'
    BY <2>2, ThirdNibbleStep
  <2>4. n # 107
    BY <2>1
  <2> QED
    BY <2>1, <2>3, <2>4
<1>5. CASE n \in 37..43
  <2>1. PICK j \in 0..6 : n = 37 + j
    BY <1>5
  <2>2. 37 + j + Len(todo) = 108 /\ InitAt(37 + j)
    BY <2>1
  <2>3. InitAt(37 + j + 1)'
    BY <2>2, FourthNibbleStep
  <2>4. n # 107
    BY <2>1
  <2> QED
    BY <2>1, <2>3, <2>4
<1>6. CASE n \in 44..59
  <2>1. PICK j \in 0..15 : n = 44 + j
    BY <1>6
  <2>2. 44 + j + Len(todo) = 108 /\ InitAt(44 + j)
    BY <2>1
  <2>3. InitAt(44 + j + 1)'
    BY <2>2, FunctionStep
  <2>4. n # 107
    BY <2>1
  <2> QED
    BY <2>1, <2>3, <2>4
<1>7. CASE n \in 60..75
  <2>1. PICK j \in 0..15 : n = 60 + j
    BY <1>7
  <2>2. 60 + j + Len(todo) = 108 /\ InitAt(60 + j)
    BY <2>1
  <2>3. InitAt(60 + j + 1)'
    BY <2>2, ControlStep
  <2>4. n # 107
    BY <2>1
  <2> QED
    BY <2>1, <2>3, <2>4
<1>8. CASE n \in 76..91
  <2>1. PICK j \in 0..15 : n = 76 + j
    BY <1>8
  <2>2. 76 + j + Len(todo) = 108 /\ InitAt(76 + j)
    BY <2>1
  <2>3. InitAt(76 + j + 1)'
    BY <2>2, ClearStep
  <2>4. n # 107
    BY <2>1
  <2> QED
    BY <2>1, <2>3, <2>4
<1>9. CASE n \in 92..107
  <2>1. PICK j \in 0..15 : n = 92 + j
    BY <1>9
  <2>2. 92 + j + Len(todo) = 108 /\ InitAt(92 + j)
    BY <2>1
  <2>3. n < 107 <=> j < 15
    BY <2>1
  <2>4. n = 107 <=> j = 15
    BY <2>1
  <2>5. /\ j < 15 => InitAt(92 + j + 1)'
        /\ j = 15 => mode' = 4 /\ half' = <<>> /\ pins'["EN"] = 0 /\ Fresh'
    BY <2>2, EntryStep
  <2> QED
    BY <2>1, <2>3, <2>4, <2>5, Zenon
<1> QED
  BY <1>1, <1>2, <1>3, <1>4, <1>5, <1>6, <1>7, <1>8, <1>9

-----------------------------------------------------------------------------
(* the calls *)

LEMMA RequestCases ==
  ASSUME NEW r \in Abstract!Request
  PROVE  \/ r = <<"clear">>
         \/ r = <<"home">>
         \/ r = <<"shift">>
         \/ \E row \in 1..2, column \in 1..Columns : r = <<"cursor", <<row, column>>>>
         \/ \E b \in BOOLEAN : r = <<"entry", b>>
         \/ \E ch \in Chars : r = <<"char", ch>>
BY DEF Abstract!Request, Abstract!Cell

\* What is sent for a request: never a function set, which would change the mode.
LEMMA RequestIs ==
  ASSUME NEW r \in Abstract!Request
  PROVE  /\ r # NoCall
         /\ Register(r) \in {0, 1} /\ Code(r) \in Byte
         /\ Register(r) = 0 => Code(r) \notin 32..63
<1>1. CASE r = <<"clear">>
  BY <1>1 DEF Register, Code, NoCall, Byte
<1>2. CASE r = <<"home">>
  BY <1>2 DEF Register, Code, NoCall, Byte
<1>3. CASE r = <<"shift">>
  BY <1>3 DEF Register, Code, NoCall, Byte
<1>4. CASE \E row \in 1..2, column \in 1..Columns : r = <<"cursor", <<row, column>>>>
  <2>1. PICK row \in 1..2, column \in 1..Columns : r = <<"cursor", <<row, column>>>>
    BY <1>4
  <2>2. r # NoCall /\ Register(r) = 0 /\ Code(r) = LineBase(row) + column - 1
    BY <2>1 DEF Register, Code, NoCall
  <2>3. LineBase(row) \in {128, 192} /\ column \in 1..40
    BY ColumnsAssumption DEF LineBase
  <2> QED
    BY <2>2, <2>3 DEF Byte
<1>5. CASE \E b \in BOOLEAN : r = <<"entry", b>>
  <2>1. PICK b \in BOOLEAN : r = <<"entry", b>>
    BY <1>5
  <2>2. r # NoCall /\ Register(r) = 0 /\ Code(r) = IF b THEN 6 ELSE 4
    BY <2>1 DEF Register, Code, NoCall
  <2> QED
    BY <2>2 DEF Byte
<1>6. CASE \E ch \in Chars : r = <<"char", ch>>
  <2>1. PICK ch \in Chars : r = <<"char", ch>>
    BY <1>6
  <2>2. r # NoCall /\ Register(r) = 1 /\ Code(r) = ch
    BY <2>1 DEF Register, Code, NoCall
  <2> QED
    BY <2>2, CharsAssumption DEF Byte
<1> QED
  BY <1>1, <1>2, <1>3, <1>4, <1>5, <1>6, RequestCases

BeginRequest(r) == Begin(r, SendByte(Register(r), Code(r)))

\* Every call of the library sends one byte.
LEMMA CallsAre ==
  Next => \/ Start \/ GpioWriteValue \/ GpioWriteFails \/ Kill
          \/ \E r \in Abstract!Request : BeginRequest(r)
<1>1. ASSUME LcdDisplayClear PROVE \E r \in Abstract!Request : BeginRequest(r)
  <2> DEFINE r == <<"clear">>
  <2>1. r \in Abstract!Request /\ Register(r) = 0 /\ Code(r) = LCD_CMD_DIS_CLEAR
    BY DEF Abstract!Request, Register, Code, LCD_CMD_DIS_CLEAR
  <2>2. BeginRequest(r)
    BY <1>1, <2>1 DEF LcdDisplayClear, BeginRequest
  <2> QED
    BY <2>1, <2>2
<1>2. ASSUME LcdDisplayReturnHome PROVE \E r \in Abstract!Request : BeginRequest(r)
  <2> DEFINE r == <<"home">>
  <2>1. r \in Abstract!Request /\ Register(r) = 0 /\ Code(r) = LCD_CMD_DIS_RETURN_HOME
    BY DEF Abstract!Request, Register, Code, LCD_CMD_DIS_RETURN_HOME
  <2>2. BeginRequest(r)
    BY <1>2, <2>1 DEF LcdDisplayReturnHome, BeginRequest
  <2> QED
    BY <2>1, <2>2
<1>3. ASSUME ShiftMessage PROVE \E r \in Abstract!Request : BeginRequest(r)
  <2> DEFINE r == <<"shift">>
  <2>1. r \in Abstract!Request /\ Register(r) = 0 /\ Code(r) = ShiftLeft
    BY DEF Abstract!Request, Register, Code, ShiftLeft
  <2>2. BeginRequest(r)
    BY <1>3, <2>1 DEF ShiftMessage, BeginRequest
  <2> QED
    BY <2>1, <2>2
<1>4. ASSUME NEW row \in 1..2, NEW column \in 1..Columns, LcdSetCursor(row, column)
      PROVE  \E r \in Abstract!Request : BeginRequest(r)
  <2> DEFINE r == <<"cursor", <<row, column>>>>
  <2>1. r \in Abstract!Request /\ Register(r) = 0 /\ Code(r) = LineBase(row) + column - 1
    BY DEF Abstract!Request, Abstract!Cell, Register, Code
  <2>2. BeginRequest(r)
    BY <1>4, <2>1 DEF LcdSetCursor, BeginRequest
  <2> QED
    BY <2>1, <2>2
<1>5. ASSUME NEW command \in {LCD_CMD_INCADD, LCD_CMD_DECADD}, EntryMode(command)
      PROVE  \E r \in Abstract!Request : BeginRequest(r)
  <2>1. PICK b \in BOOLEAN : b = (command = LCD_CMD_INCADD)
    OBVIOUS
  <2> DEFINE r == <<"entry", b>>
  <2>2. r \in Abstract!Request /\ Register(r) = 0 /\ Code(r) = IF b THEN 6 ELSE 4
    BY DEF Abstract!Request, Register, Code
  <2>3. Code(r) = command
    BY <2>1, <2>2 DEF LCD_CMD_INCADD, LCD_CMD_DECADD
  <2>4. Begin(r, SendByte(0, command))
    BY <1>5, <2>1 DEF EntryMode
  <2>5. BeginRequest(r)
    BY <2>2, <2>3, <2>4 DEF BeginRequest
  <2> QED
    BY <2>2, <2>5
<1>6. ASSUME NEW ch \in Chars, LcdPrintChar(ch)
      PROVE  \E r \in Abstract!Request : BeginRequest(r)
  <2> DEFINE r == <<"char", ch>>
  <2>1. r \in Abstract!Request /\ Register(r) = 1 /\ Code(r) = ch
    BY DEF Abstract!Request, Register, Code
  <2>2. BeginRequest(r)
    BY <1>6, <2>1 DEF LcdPrintChar, BeginRequest
  <2> QED
    BY <2>1, <2>2
<1> QED
  BY <1>1, <1>2, <1>3, <1>4, <1>5, <1>6 DEF Next

-----------------------------------------------------------------------------
(* the invariant *)

LEMMA NotEmpty ==
  ASSUME NEW s \in Seq(PinWrite), NEW n \in Nat \ {0}, Len(s) = n
  PROVE  s # <<>>
OBVIOUS

LEMMA InitHolds == Init => IInv
<1> SUFFICES ASSUME Init PROVE IInv
  OBVIOUS
<1>1. TypeOK
  <2>1. todo \in Seq([pin : Pin, value : {0, 1}]) /\ pins \in [Pin -> {0, 1}]
    BY DEF Init
  <2>2. addr \in Addr
    <3>1. addr = 0
      BY DEF Init
    <3> QED
      BY <3>1, ColumnsAssumption DEF Addr
  <2>3. mode \in {4, 8}
    BY DEF Init
  <2>4. half \in {<<>>} \cup {<<[rs |-> r, nibble |-> n]>> : r \in {0, 1}, n \in Nibble}
    BY DEF Init
  <2>5. text \in [Addr -> Chars \cup {Blank}] /\ right \in BOOLEAN
    BY DEF Init
  <2>6. phase \in {"off", "init", "running"} /\ lost \in BOOLEAN
    BY DEF Init
  <2> QED
    BY <2>1, <2>2, <2>3, <2>4, <2>5, <2>6 DEF TypeOK
<1>2. ModeInv
  BY DEF Init, ModeInv
<1>3. phase = "off" /\ todo = <<>> /\ call = NoCall
  BY DEF Init
<1> QED
  BY <1>1, <1>2, <1>3 DEF IInv, CallInv, InitInv, ByteInv, ReadyInv

\* main starts with init_gpios, and all of Program is still to do.
LEMMA StartInv ==
  ASSUME IInv, Start
  PROVE  IInv'
<1>1. /\ phase = "off" /\ phase' = "init" /\ todo' = Program /\ lost' = FALSE
      /\ UNCHANGED <<call, pins, lcd>>
  BY DEF Start, Program
<1>2. Program \in Seq(PinWrite) /\ Len(Program) = 108
  BY ProgramIs
<1>3. TypeOK'
  <2>1. phase' \in {"off", "init", "running"} /\ lost' \in BOOLEAN
    BY <1>1
  <2>2. todo' \in Seq([pin : Pin, value : {0, 1}])
    BY <1>1, <1>2 DEF PinWrite
  <2>3. UNCHANGED <<pins, lcd>>
    BY <1>1
  <2> QED
    BY <2>1, <2>2, <2>3 DEF IInv, TypeOK, lcd
<1>4. ModeInv'
  BY <1>1 DEF IInv, ModeInv, lcd
<1>5. todo' # <<>>
  <2>1. 108 \in Nat \ {0}
    OBVIOUS
  <2>2. Program # <<>>
    BY <1>2, <2>1, NotEmpty, Zenon
  <2> QED
    BY <1>1, <2>2, Zenon
<1>6. CallInv'
  BY <1>1, <1>5 DEF IInv, CallInv
<1>7. InitInv'
  <2>1. Ends(todo', Program)
    BY <1>1, <1>2, EndsItself
  <2>2. InitAt(0)'
    BY DEF InitAt
  <2>3. 108 - Len(todo') = 0
    BY <1>1, <1>2
  <2>4. InitAt(108 - Len(todo))'
    BY <2>2, <2>3
  <2> QED
    BY <2>1, <2>4 DEF InitInv
<1> QED
  BY <1>1, <1>3, <1>4, <1>5, <1>6, <1>7 DEF IInv, ByteInv, ReadyInv

\* A call begins with the display in step.
LEMMA BeginInv ==
  ASSUME IInv, NEW r \in Abstract!Request, BeginRequest(r)
  PROVE  IInv'
<1>1. /\ phase = "running" /\ todo = <<>> /\ call' = r
      /\ todo' = SendByte(Register(r), Code(r))
      /\ UNCHANGED <<phase, pins, lcd, lost>>
  BY DEF BeginRequest, Begin
<1>2. Register(r) \in {0, 1} /\ Code(r) \in Byte
  BY RequestIs
<1>3. todo' \in Seq(PinWrite) /\ Len(todo') = 16
  BY <1>1, <1>2, SendByteIs
<1>4. TypeOK'
  BY <1>1, <1>3 DEF IInv, TypeOK, PinWrite, lcd
<1>5. ModeInv'
  BY <1>1 DEF IInv, ModeInv, lcd
<1>6. todo' # <<>>
  <2>1. 16 \in Nat \ {0}
    OBVIOUS
  <2> QED
    BY <1>3, <2>1, NotEmpty, Zenon
<1>7. CallInv'
  BY <1>1, <1>6 DEF IInv, CallInv
<1>8. ByteInv'
  <2>1. SUFFICES ASSUME ~lost
                 PROVE  /\ Ends(todo', SendByte(Register(r), Code(r)))
                        /\ ByteAt(Register(r), Code(r), 16 - Len(todo))'
    BY <1>1 DEF ByteInv
  <2>2. Ends(todo', SendByte(Register(r), Code(r)))
    BY <1>1, <1>3, EndsItself
  <2>3. mode' = 4 /\ half' = <<>> /\ pins'["EN"] = 0
    BY <1>1, <2>1 DEF IInv, ReadyInv, lcd
  <2>4. ByteAt(Register(r), Code(r), 0)'
    BY <2>3 DEF ByteAt
  <2>5. 16 - Len(todo') = 0
    BY <1>3
  <2>6. ByteAt(Register(r), Code(r), 16 - Len(todo))'
    BY <2>4, <2>5
  <2> QED
    BY <2>2, <2>6
<1> QED
  BY <1>1, <1>4, <1>5, <1>6, <1>7, <1>8 DEF IInv, InitInv, ReadyInv

\* The last write ends the call, or lcd_init; every other write leaves some.
LEMMA NextWriteIs ==
  ASSUME TypeOK, CallInv, NextWrite
  PROVE  /\ todo # <<>> /\ phase \in {"init", "running"} /\ Len(todo) \in Nat \ {0}
         /\ todo' \in Seq(PinWrite) /\ Len(todo') = Len(todo) - 1
         /\ Len(todo) = 1 => todo' = <<>> /\ phase' = "running" /\ call' = NoCall
         /\ Len(todo) # 1 => todo' # <<>> /\ UNCHANGED <<phase, call>>
         /\ phase' \in {"off", "init", "running"} /\ CallInv'
<1>1. todo # <<>> /\ todo' = Tail(todo)
  BY DEF NextWrite
<1>2. phase \in {"init", "running"}
  BY <1>1 DEF TypeOK, CallInv
<1>3. Len(todo) \in Nat \ {0}
  BY <1>1, HeadIs
<1>4. Tail(todo) \in Seq(PinWrite) /\ Len(Tail(todo)) = Len(todo) - 1
  BY <1>1, HeadIs
<1>5. todo' \in Seq(PinWrite) /\ Len(todo') = Len(todo) - 1
  BY <1>1, <1>4
<1>6. /\ Len(todo) = 1 => phase' = "running" /\ call' = NoCall
      /\ Len(todo) # 1 => UNCHANGED <<phase, call>>
  BY DEF NextWrite
<1>7. Len(todo) = 1 => todo' = <<>>
  <2>1. SUFFICES ASSUME Len(todo) = 1 PROVE todo' = <<>>
    OBVIOUS
  <2>2. Len(Tail(todo)) = 0
    BY <1>4, <2>1
  <2>3. Tail(todo) = <<>>
    BY <1>4, <2>2, EmptySeq
  <2> QED
    BY <1>1, <2>3
<1>8. Len(todo) # 1 => todo' # <<>>
  <2>1. SUFFICES ASSUME Len(todo) # 1 PROVE todo' # <<>>
    OBVIOUS
  <2>2. PICK n \in Nat \ {0} : n = Len(todo) - 1
    BY <1>3, <2>1
  <2>3. Len(Tail(todo)) = n
    BY <1>4, <2>2
  <2>4. Tail(todo) # <<>>
    BY <1>4, <2>3, NotEmpty, Zenon
  <2> QED
    BY <1>1, <2>4
<1>9. phase' \in {"init", "running"}
  BY <1>2, <1>6
<1>10. CallInv'
  <2>1. CASE Len(todo) = 1
    BY <1>6, <1>7, <2>1 DEF CallInv
  <2>2. CASE Len(todo) # 1
    BY <1>1, <1>2, <1>6, <1>8, <2>2 DEF CallInv
  <2> QED
    BY <2>1, <2>2
<1> QED
  BY <1>3, <1>1, <1>2, <1>5, <1>6, <1>7, <1>8, <1>9, <1>10

\* A write whose file cannot be opened: nothing is promised any more.
LEMMA GpioWriteFailsInv ==
  ASSUME IInv, GpioWriteFails
  PROVE  IInv'
<1>1. NextWrite /\ lost' = TRUE /\ UNCHANGED <<pins, lcd>>
  BY DEF GpioWriteFails
<1>2. TypeOK /\ CallInv /\ ModeInv
  BY DEF IInv
<1>3. /\ todo' \in Seq(PinWrite) /\ phase' \in {"off", "init", "running"} /\ CallInv'
  BY <1>1, <1>2, NextWriteIs
<1>4. TypeOK'
  <2>1. lost' \in BOOLEAN
    BY <1>1
  <2>2. UNCHANGED <<pins, lcd>>
    BY <1>1
  <2> QED
    BY <1>2, <1>3, <2>1, <2>2 DEF TypeOK, PinWrite, lcd
<1>5. ModeInv'
  BY <1>1, <1>2 DEF ModeInv, lcd
<1> QED
  BY <1>1, <1>3, <1>4, <1>5 DEF IInv, InitInv, ByteInv, ReadyInv

LEMMA KillInv ==
  ASSUME IInv, Kill
  PROVE  IInv'
<1>1. /\ phase' = "off" /\ todo' = <<>> /\ call' = NoCall
      /\ UNCHANGED <<pins, lcd, lost>>
  BY DEF Kill
<1>2. TypeOK'
  <2>1. phase' \in {"off", "init", "running"} /\ todo' \in Seq(PinWrite)
    BY <1>1
  <2>2. UNCHANGED <<pins, lcd, lost>>
    BY <1>1
  <2> QED
    BY <2>1, <2>2 DEF IInv, TypeOK, PinWrite, lcd
<1>3. ModeInv'
  BY <1>1 DEF IInv, ModeInv, lcd
<1> QED
  BY <1>1, <1>2, <1>3 DEF IInv, CallInv, InitInv, ByteInv, ReadyInv

\* Types, and what EN does, at a write that is made.
LEMMA WriteType ==
  ASSUME TypeOK, ModeInv, CallInv, GpioWriteValue
  PROVE  TypeOK' /\ ModeInv'
<1>1. /\ todo' \in Seq(PinWrite) /\ phase' \in {"off", "init", "running"} /\ todo # <<>>
  BY NextWriteIs DEF GpioWriteValue
<1>2. pins' \in [Pin -> {0, 1}]
  <2>1. Head(todo).pin \in Pin /\ Head(todo).value \in {0, 1}
    BY <1>1, HeadIs
  <2>2. pins' = [pins EXCEPT ![Head(todo).pin] = Head(todo).value]
    BY DEF GpioWriteValue
  <2>3. pins \in [Pin -> {0, 1}]
    BY DEF TypeOK
  <2> QED
    BY <2>1, <2>2, <2>3
<1>3. Latch \/ UNCHANGED lcd
  BY DEF GpioWriteValue
<1>4. UNCHANGED lost
  BY DEF GpioWriteValue
<1>5. CASE Latch
  <2>1. /\ mode' \in {4, 8} /\ text' \in [Addr -> Chars \cup {Blank}]
        /\ addr' \in Addr /\ right' \in BOOLEAN /\ ModeInv'
        /\ half' \in {<<>>} \cup {<<[rs |-> r, nibble |-> n]>> : r \in {0, 1}, n \in Nibble}
    BY <1>5, LatchType
  <2> QED
    BY <1>1, <1>2, <1>4, <2>1 DEF TypeOK, PinWrite
<1>6. CASE UNCHANGED lcd
  BY <1>1, <1>2, <1>4, <1>6 DEF TypeOK, ModeInv, PinWrite, lcd
<1> QED
  BY <1>3, <1>5, <1>6

\* The writes of lcd_init, from the first pin to the last.
LEMMA WriteInInit ==
  ASSUME IInv, GpioWriteValue, phase = "init", ~lost
  PROVE  /\ Len(todo) # 1 => Ends(todo', Program) /\ InitAt(108 - Len(todo))'
         /\ Len(todo) = 1 => mode' = 4 /\ half' = <<>> /\ pins'["EN"] = 0 /\ Fresh'
<1>1. TypeOK /\ CallInv /\ ModeInv /\ NextWrite
  BY DEF IInv, GpioWriteValue
<1>2. todo # <<>> /\ todo' = Tail(todo)
  BY <1>1, NextWriteIs DEF NextWrite
<1>3. Len(todo) \in Nat \ {0} /\ Len(todo') = Len(todo) - 1
  BY <1>1, NextWriteIs
<1>4. Ends(todo, Program) /\ InitAt(108 - Len(todo))
  BY DEF IInv, InitInv
<1>5. Program \in Seq(PinWrite) /\ Len(Program) = 108 /\ todo \in Seq(PinWrite)
  BY <1>1, ProgramIs DEF TypeOK, PinWrite
<1>6. Len(todo) <= 108
  BY <1>4, <1>5 DEF Ends
<1>7. PICK l \in Nat \ {0} : l = Len(todo)
  BY <1>3, Zenon
<1>8. l <= 108 /\ Len(todo') = l - 1
  BY <1>3, <1>6, <1>7, Zenon
<1>9. PICK n \in 0..107 : n = 108 - l
  BY <1>8
<1>10. n + Len(todo) = 108 /\ InitAt(n)
  <2>1. n + l = 108 /\ n = 108 - l
    BY <1>9
  <2> QED
    BY <1>4, <1>7, <2>1, Zenon
<1>11. /\ n < 107 => InitAt(n + 1)'
       /\ n = 107 => mode' = 4 /\ half' = <<>> /\ pins'["EN"] = 0 /\ Fresh'
  BY <1>1, <1>2, <1>4, <1>10, InitStep
<1>12. Ends(todo', Program)
  BY <1>2, <1>4, <1>5, RestOfProgram
<1>13. l # 1 => n < 107
  BY <1>9, <1>8
<1>14. l = 1 => n = 107
  BY <1>9
<1>15. 108 - Len(todo') = n + 1
  <2>1. 108 - (l - 1) = n + 1
    BY <1>9
  <2> QED
    BY <1>8, <2>1, Zenon
<1>16. l # 1 => InitAt(108 - Len(todo))'
  <2>1. l # 1 => InitAt(n + 1)'
    BY <1>11, <1>13
  <2> QED
    BY <1>15, <2>1, Zenon
<1> QED
  BY <1>11, <1>12, <1>14, <1>16, <1>7

\* The writes of a call; the last one makes the display do what was asked for.
LEMMA WriteInCall ==
  ASSUME IInv, GpioWriteValue, phase = "running", ~lost
  PROVE  /\ call \in Abstract!Request
         /\ Len(todo) # 1 => /\ Ends(todo', SendByte(Register(call), Code(call)))
                             /\ \E j \in Nat : /\ j = 16 - Len(todo')
                                               /\ ByteAt(Register(call), Code(call), j)'
                             /\ UNCHANGED <<text, addr, right>>
         /\ Len(todo) = 1 => /\ Execute(Register(call), Code(call))
                             /\ mode' = 4 /\ half' = <<>> /\ pins'["EN"] = 0
<1>1. TypeOK /\ CallInv /\ ModeInv /\ NextWrite
  BY DEF IInv, GpioWriteValue
<1>2. todo # <<>> /\ todo' = Tail(todo)
  BY <1>1, NextWriteIs DEF NextWrite
<1>3. Len(todo) \in Nat \ {0} /\ Len(todo') = Len(todo) - 1
  BY <1>1, NextWriteIs
<1>4. call \in Abstract!Request
  BY <1>1, <1>2 DEF CallInv
<1>5. PICK rs \in {0, 1}, b \in Byte : rs = Register(call) /\ b = Code(call)
  BY <1>4, RequestIs
<1> DEFINE program == SendByte(rs, b)
<1>6. Ends(todo, program) /\ ByteAt(rs, b, 16 - Len(todo))
  BY <1>2, <1>5 DEF IInv, ByteInv
<1>7. program \in Seq(PinWrite) /\ Len(program) = 16 /\ todo \in Seq(PinWrite)
  <2>1. todo \in Seq(PinWrite)
    BY <1>1 DEF TypeOK, PinWrite
  <2>2. program \in Seq(PinWrite) /\ Len(program) = 16
    BY SendByteIs
  <2> QED
    BY <2>1, <2>2, Zenon
<1> HIDE DEF program
<1>8. Len(todo) <= 16
  <2>1. Len(todo) <= Len(program)
    BY <1>6 DEF Ends
  <2> QED
    BY <1>7, <2>1, Zenon
<1>9. PICK l \in Nat \ {0} : l = Len(todo)
  BY <1>3, Zenon
<1>10. l <= 16 /\ Len(todo') = l - 1
  BY <1>3, <1>8, <1>9, Zenon
<1>11. PICK j \in 0..15 : j = 16 - l
  BY <1>10
<1>12. 0 + j + Len(todo) = Len(program) /\ ByteAt(rs, b, j)
  <2>1. 0 + j + l = 16 /\ j = 16 - l
    BY <1>11
  <2>2. ByteAt(rs, b, j)
    BY <1>6, <1>9, <2>1, Zenon
  <2> QED
    BY <1>7, <1>9, <2>1, <2>2, Zenon
<1>13. Has(program, 0, SendByte(rs, b))
  BY <1>7, HasItself DEF program
<1>14. /\ j < 15 => ByteAt(rs, b, j + 1)' /\ UNCHANGED <<text, addr, right>>
       /\ j = 15 => Execute(rs, b) /\ half' = <<>> /\ pins'["EN"] = 0
  <2>1. 0 \in Nat
    OBVIOUS
  <2> QED
    BY <1>1, <1>2, <1>6, <1>7, <1>12, <1>13, <2>1, ByteOfProgram
<1>15. Ends(todo', program)
  BY <1>2, <1>6, <1>7, RestOfProgram
<1>16. (l # 1 => j < 15) /\ (l = 1 => j = 15)
  BY <1>11, <1>10
<1>17. j + 1 \in Nat /\ j + 1 = 16 - Len(todo')
  <2>1. j + 1 \in Nat /\ j + 1 = 16 - (l - 1)
    BY <1>11
  <2> QED
    BY <1>10, <2>1, Zenon
<1>18. ASSUME Len(todo) # 1
       PROVE  /\ ByteAt(rs, b, j + 1)' /\ UNCHANGED <<text, addr, right>>
              /\ \E i \in Nat : i = 16 - Len(todo') /\ ByteAt(rs, b, i)'
  BY <1>14, <1>16, <1>17, <1>18, <1>9
<1>19. ASSUME Len(todo) = 1
       PROVE  Execute(rs, b) /\ half' = <<>> /\ pins'["EN"] = 0 /\ mode' = 4
  <2>1. Execute(rs, b) /\ half' = <<>> /\ pins'["EN"] = 0
    BY <1>14, <1>16, <1>19, <1>9
  <2>2. mode = 4
    BY <1>12 DEF ByteAt
  <2>3. rs = 1 => mode' = mode
    BY <2>1 DEF Execute, WriteData
  <2>4. rs = 0 => b \notin 32..63
    BY <1>4, <1>5, RequestIs
  <2>5. rs = 0 => mode' = mode
    BY <2>1, <2>4 DEF Execute, ExecuteInstruction
  <2> QED
    BY <2>1, <2>2, <2>3, <2>5
<1>20. Len(todo) # 1 => Ends(todo', SendByte(Register(call), Code(call)))
  BY <1>5, <1>15 DEF program
<1>21. Len(todo) # 1 => /\ \E i \in Nat : /\ i = 16 - Len(todo')
                                           /\ ByteAt(Register(call), Code(call), i)'
                        /\ UNCHANGED <<text, addr, right>>
  <2>1. Len(todo) # 1 => call' = call
    BY <1>1, NextWriteIs
  <2>2. Len(todo) # 1 => rs = Register(call') /\ b = Code(call')
    BY <1>5, <2>1
  <2> QED
    BY <1>18, <2>2, Zenon
<1>22. Len(todo) = 1 => /\ Execute(Register(call), Code(call))
                        /\ mode' = 4 /\ half' = <<>> /\ pins'["EN"] = 0
  BY <1>5, <1>19
<1> QED
  BY <1>4, <1>20, <1>21, <1>22

LEMMA GpioWriteValueInv ==
  ASSUME IInv, GpioWriteValue
  PROVE  IInv'
<1>1. TypeOK /\ CallInv /\ ModeInv /\ NextWrite /\ UNCHANGED lost
  BY DEF IInv, GpioWriteValue
<1>2. TypeOK' /\ ModeInv'
  BY <1>1, WriteType
<1>3. /\ phase \in {"init", "running"} /\ CallInv'
      /\ Len(todo) = 1 => todo' = <<>> /\ phase' = "running" /\ call' = NoCall
      /\ Len(todo) # 1 => todo' # <<>> /\ UNCHANGED <<phase, call>>
  BY <1>1, NextWriteIs
<1>4. InitInv'
  <2>1. SUFFICES ASSUME phase' = "init", ~lost
                 PROVE  Ends(todo', Program) /\ InitAt(108 - Len(todo))'
    BY <1>1 DEF InitInv
  <2>2. Len(todo) # 1 /\ phase = "init"
    BY <1>3, <2>1
  <2> QED
    BY <2>1, <2>2, WriteInInit
<1>5. ByteInv'
  <2>1. SUFFICES ASSUME phase' = "running", todo' # <<>>, ~lost
                 PROVE  /\ Ends(todo', SendByte(Register(call'), Code(call')))
                        /\ ByteAt(Register(call), Code(call), 16 - Len(todo))'
    BY <1>1 DEF ByteInv
  <2>2. Len(todo) # 1 /\ phase = "running" /\ call' = call
    BY <1>3, <2>1
  <2>3. Ends(todo', SendByte(Register(call), Code(call)))
    BY <2>1, <2>2, WriteInCall
  <2>4. PICK j \in Nat : j = 16 - Len(todo') /\ ByteAt(Register(call), Code(call), j)'
    BY <2>1, <2>2, WriteInCall
  <2> QED
    BY <2>2, <2>3, <2>4
<1>6. ReadyInv'
  <2>1. SUFFICES ASSUME phase' = "running", todo' = <<>>, ~lost
                 PROVE  mode' = 4 /\ half' = <<>> /\ pins'["EN"] = 0
    BY <1>1 DEF ReadyInv
  <2>2. Len(todo) = 1
    BY <1>3, <2>1
  <2>3. CASE phase = "init"
    BY <2>1, <2>2, <2>3, WriteInInit
  <2>4. CASE phase = "running"
    BY <2>1, <2>2, <2>4, WriteInCall
  <2> QED
    BY <1>3, <2>3, <2>4
<1> QED
  BY <1>2, <1>3, <1>4, <1>5, <1>6 DEF IInv

LEMMA StepInv == IInv /\ [Next]_vars => IInv'
<1> SUFFICES ASSUME IInv, [Next]_vars PROVE IInv'
  OBVIOUS
<1>1. CASE Start
  BY <1>1, StartInv
<1>2. CASE GpioWriteValue
  BY <1>2, GpioWriteValueInv
<1>3. CASE GpioWriteFails
  BY <1>3, GpioWriteFailsInv
<1>4. CASE Kill
  BY <1>4, KillInv
<1>5. CASE \E r \in Abstract!Request : BeginRequest(r)
  BY <1>5, BeginInv
<1>6. CASE UNCHANGED vars
  <2>1. UNCHANGED <<phase, todo, call, pins, mode, half, text, addr, right, lost>>
    BY <1>6 DEF vars, lcd
  <2>2. TypeOK' /\ ModeInv' /\ CallInv' /\ ReadyInv'
    BY <2>1 DEF IInv, TypeOK, ModeInv, CallInv, ReadyInv
  <2>3. \A data, j : PinsIn(data, j) <=> PinsIn(data, j)'
    BY <2>1 DEF PinsIn
  <2>4. \A rs, b, j : ByteAt(rs, b, j) <=> ByteAt(rs, b, j)'
    BY <2>1, <2>3 DEF ByteAt
  <2>5. (OneNibbleIn <=> OneNibbleIn') /\ (TwoNibblesIn <=> TwoNibblesIn') /\ (Fresh <=> Fresh')
    BY <2>1 DEF OneNibbleIn, TwoNibblesIn, Fresh
  <2>6. ASSUME NEW n, InitAt(n) PROVE InitAt(n)'
    BY <2>1, <2>6 DEF InitAt, PinsIn, ByteAt, OneNibbleIn, TwoNibblesIn, Fresh
  <2>7. InitInv'
    <3>1. PICK n : n = 108 - Len(todo)
      OBVIOUS
    <3>2. n = 108 - Len(todo')
      BY <2>1, <3>1
    <3>3. phase' = "init" /\ ~lost' => Ends(todo', Program) /\ InitAt(n)
      BY <2>1, <3>1 DEF IInv, InitInv
    <3> QED
      BY <2>6, <3>2, <3>3 DEF InitInv
  <2>8. ByteInv'
    BY <2>1, <2>4 DEF IInv, ByteInv
  <2> QED
    BY <2>2, <2>8, <2>7 DEF IInv
<1> QED
  BY <1>1, <1>2, <1>3, <1>4, <1>5, <1>6, CallsAre

\* Whatever happens, and for every width of the lines, the inductive invariant
\* holds.
THEOREM Invariance == Spec => []IInv
BY InitHolds, StepInv, PTL DEF Spec

\* Every variable has its type, whatever the display latches.
THEOREM TypeCorrect == Spec => []TypeOK
<1>1. IInv => TypeOK
  BY DEF IInv
<1> QED
  BY <1>1, Invariance, PTL

\* Once lcd_init has come to its end, and between any two calls, display and
\* library agree on four bits and on where an instruction begins.
THEOREM StaysInStep == Spec => []InStep
<1>1. IInv => InStep
  BY DEF IInv, ReadyInv, InStep
<1> QED
  BY <1>1, Invariance, PTL

-----------------------------------------------------------------------------
(* the display as the caller sees it *)

\* The cells of the two lines are the addresses of the display.
LEMMA AddrOfIs ==
  ASSUME NEW cell \in Abstract!Cell
  PROVE  AddrOf(cell) \in Addr /\ CellOf(AddrOf(cell)) = cell
<1>1. PICK row \in 1..2, column \in 1..Columns : cell = <<row, column>>
  BY DEF Abstract!Cell
<1>2. AddrOf(cell) = 64 * (row - 1) + column - 1
  BY <1>1 DEF AddrOf
<1>3. Columns \in 1..40 /\ column \in Int /\ 1 <= column /\ column <= Columns
  BY ColumnsAssumption
<1>4. CASE row = 1
  <2>1. AddrOf(cell) = column - 1
    BY <1>2, <1>4
  <2> QED
    BY <1>1, <1>3, <1>4, <2>1 DEF CellOf, Addr
<1>5. CASE row = 2
  <2>1. AddrOf(cell) = 63 + column
    BY <1>2, <1>5
  <2> QED
    BY <1>1, <1>3, <1>5, <2>1 DEF CellOf, Addr
<1> QED
  BY <1>4, <1>5

\* The address counter moves as the cursor does.
LEMMA CellOfIs ==
  ASSUME NEW a \in Addr
  PROVE  /\ CellOf(a) \in Abstract!Cell /\ AddrOf(CellOf(a)) = a
         /\ CellOf(Succ(a)) = Abstract!Right(CellOf(a))
         /\ CellOf(Pred(a)) = Abstract!Left(CellOf(a))
<1>1. Columns \in 1..40
  BY ColumnsAssumption
<1>2. CASE a \in 0..Columns - 1
  <2>1. CellOf(a) = <<1, a + 1>>
    BY <1>1, <1>2 DEF CellOf
  <2>2. CellOf(a) \in Abstract!Cell /\ AddrOf(CellOf(a)) = a
    BY <1>1, <1>2, <2>1 DEF Abstract!Cell, AddrOf
  <2>3. CellOf(Succ(a)) = Abstract!Right(CellOf(a))
    BY <1>1, <1>2, <2>1 DEF Abstract!Right, Succ, CellOf
  <2>4. CellOf(Pred(a)) = Abstract!Left(CellOf(a))
    BY <1>1, <1>2, <2>1 DEF Abstract!Left, Pred, CellOf
  <2> QED
    BY <2>2, <2>3, <2>4
<1>3. CASE a \in 64..63 + Columns
  <2>1. CellOf(a) = <<2, a - 63>>
    BY <1>1, <1>3 DEF CellOf
  <2>2. CellOf(a) \in Abstract!Cell /\ AddrOf(CellOf(a)) = a
    BY <1>1, <1>3, <2>1 DEF Abstract!Cell, AddrOf
  <2>3. CellOf(Succ(a)) = Abstract!Right(CellOf(a))
    BY <1>1, <1>3, <2>1 DEF Abstract!Right, Succ, CellOf
  <2>4. CellOf(Pred(a)) = Abstract!Left(CellOf(a))
    BY <1>1, <1>3, <2>1 DEF Abstract!Left, Pred, CellOf
  <2> QED
    BY <2>2, <2>3, <2>4
<1> QED
  BY <1>2, <1>3 DEF Addr

View ==
    [text |-> [cell \in Abstract!Cell |-> text[AddrOf(cell)]],
     cursor |-> CellOf(addr),
     right |-> right]

LEMMA ShownIs ==
  /\ Known => Shown = View
  /\ ~Known => Shown = Abstract!Unknown
  /\ View # Abstract!Unknown
<1>1. DOMAIN View # DOMAIN Abstract!Unknown
  BY DEF View, Abstract!Unknown
<1>2. View # Abstract!Unknown
  BY <1>1
<1> QED
  BY <1>2 DEF Shown, View, Abstract!Cell, Abstract!Unknown

\* What the caller asks for, request by request, of a display whose parts are known.
LEMMA EffectOn ==
  ASSUME NEW t, NEW c, NEW r \in BOOLEAN, NEW d, d = [text |-> t, cursor |-> c, right |-> r]
  PROVE  /\ Abstract!Effect(<<"home">>, d) = [text |-> t, cursor |-> <<1, 1>>, right |-> r]
         /\ \A c2 : Abstract!Effect(<<"cursor", c2>>, d)
                     = [text |-> t, cursor |-> c2, right |-> r]
         /\ \A b : Abstract!Effect(<<"entry", b>>, d)
                    = [text |-> t, cursor |-> c, right |-> b]
         /\ \A ch : Abstract!Effect(<<"char", ch>>, d)
                     = [text |-> [t EXCEPT ![c] = ch],
                        cursor |-> IF r THEN Abstract!Right(c) ELSE Abstract!Left(c),
                        right |-> r]
<1>1. ASSUME NEW c2 PROVE [d EXCEPT !.cursor = c2] = [text |-> t, cursor |-> c2, right |-> r]
  OBVIOUS
<1>2. ASSUME NEW b PROVE [d EXCEPT !.right = b] = [text |-> t, cursor |-> c, right |-> b]
  OBVIOUS
<1>3. ASSUME NEW ch
      PROVE  [d EXCEPT !.text[d.cursor] = ch,
                       !.cursor = IF d.right THEN Abstract!Right(@) ELSE Abstract!Left(@)]
               = [text |-> [t EXCEPT ![c] = ch],
                  cursor |-> IF r THEN Abstract!Right(c) ELSE Abstract!Left(c),
                  right |-> r]
  <2>1. PICK t2, c2 : /\ t2 = [t EXCEPT ![c] = ch]
                      /\ c2 = IF r THEN Abstract!Right(c) ELSE Abstract!Left(c)
    OBVIOUS
  <2>2. d.text = t /\ d.cursor = c
    OBVIOUS
  <2>3. d.right = r
    OBVIOUS
  <2>4. c2 = IF d.right THEN Abstract!Right(d.cursor) ELSE Abstract!Left(d.cursor)
    BY <2>1, <2>2, <2>3
  <2>5. PICK e : e = [d EXCEPT !.text[d.cursor] = ch]
    OBVIOUS
  <2>6. e = [text |-> t2, cursor |-> c, right |-> r]
    BY <2>1, <2>2, <2>5
  <2>7. [e EXCEPT !.cursor = c2] = [text |-> t2, cursor |-> c2, right |-> r]
    BY <2>6
  <2>8. [d EXCEPT !.text[d.cursor] = ch, !.cursor = c2] = [e EXCEPT !.cursor = c2]
    BY <2>5
  <2>9. [d EXCEPT !.text[d.cursor] = ch,
                  !.cursor = IF d.right THEN Abstract!Right(@) ELSE Abstract!Left(@)]
          = [d EXCEPT !.text[d.cursor] = ch, !.cursor = c2]
    BY <2>4
  <2> QED
    BY <2>1, <2>7, <2>8, <2>9
<1> QED
  <2>1. Abstract!Effect(<<"home">>, d) = [d EXCEPT !.cursor = <<1, 1>>]
    BY DEF Abstract!Effect
  <2>2. ASSUME NEW c2 PROVE Abstract!Effect(<<"cursor", c2>>, d) = [d EXCEPT !.cursor = c2]
    BY DEF Abstract!Effect
  <2>3. ASSUME NEW b PROVE Abstract!Effect(<<"entry", b>>, d) = [d EXCEPT !.right = b]
    BY DEF Abstract!Effect
  <2>4. ASSUME NEW ch
        PROVE  Abstract!Effect(<<"char", ch>>, d) =
                 [d EXCEPT !.text[d.cursor] = ch,
                           !.cursor = IF d.right THEN Abstract!Right(@) ELSE Abstract!Left(@)]
    BY DEF Abstract!Effect
  <2> QED
    BY <1>1, <1>2, <1>3, <2>1, <2>2, <2>3, <2>4, Zenon

Cells == [cell \in Abstract!Cell |-> text[AddrOf(cell)]]

LEMMA ViewEffects ==
  ASSUME TypeOK
  PROVE  /\ Abstract!Effect(<<"home">>, View) =
              [text |-> Cells, cursor |-> <<1, 1>>, right |-> right]
         /\ \A c : Abstract!Effect(<<"cursor", c>>, View) =
              [text |-> Cells, cursor |-> c, right |-> right]
         /\ \A b : Abstract!Effect(<<"entry", b>>, View) =
              [text |-> Cells, cursor |-> CellOf(addr), right |-> b]
         /\ \A ch : Abstract!Effect(<<"char", ch>>, View) =
              [text |-> [Cells EXCEPT ![CellOf(addr)] = ch],
               cursor |-> IF right THEN Abstract!Right(CellOf(addr))
                                   ELSE Abstract!Left(CellOf(addr)),
               right |-> right]
<1>1. right \in BOOLEAN
  BY DEF TypeOK
<1>2. PICK r \in BOOLEAN : r = right
  BY <1>1
<1>3. PICK t, c, d : t = Cells /\ c = CellOf(addr) /\ d = View
  OBVIOUS
<1>4. d = [text |-> t, cursor |-> c, right |-> r]
  BY <1>2, <1>3 DEF View, Cells
<1>5. /\ Abstract!Effect(<<"home">>, d) = [text |-> t, cursor |-> <<1, 1>>, right |-> r]
      /\ \A c2 : Abstract!Effect(<<"cursor", c2>>, d) = [text |-> t, cursor |-> c2, right |-> r]
      /\ \A b : Abstract!Effect(<<"entry", b>>, d) = [text |-> t, cursor |-> c, right |-> b]
      /\ \A ch : Abstract!Effect(<<"char", ch>>, d) =
           [text |-> [t EXCEPT ![c] = ch],
            cursor |-> IF r THEN Abstract!Right(c) ELSE Abstract!Left(c),
            right |-> r]
  BY <1>4, EffectOn
<1> QED
  BY <1>2, <1>3, <1>5

LEMMA ClearTakesEffect ==
  ASSUME ExecuteInstruction(1)
  PROVE  View' = Abstract!Effect(<<"clear">>, View)
<1>1. text' = [a \in Addr |-> Blank] /\ addr' = 0
  BY DEF ExecuteInstruction
<1>2. right' = TRUE
  BY DEF ExecuteInstruction
<1>3. [cell \in Abstract!Cell |-> text'[AddrOf(cell)]] = [cell \in Abstract!Cell |-> 32]
  BY <1>1, AddrOfIs DEF Blank
<1>4. CellOf(addr') = <<1, 1>>
  BY <1>1 DEF CellOf
<1>5. View' = [text |-> [cell \in Abstract!Cell |-> 32], cursor |-> <<1, 1>>, right |-> TRUE]
  BY <1>2, <1>3, <1>4 DEF View
<1> QED
  BY <1>5 DEF Abstract!Effect, Abstract!Cleared, Abstract!Blank

LEMMA HomeTakesEffect ==
  ASSUME TypeOK, ExecuteInstruction(2)
  PROVE  View' = Abstract!Effect(<<"home">>, View)
<1>1. text' = text /\ addr' = 0
  BY DEF ExecuteInstruction
<1>2. right' = right
  BY DEF ExecuteInstruction
<1>3. CellOf(addr') = <<1, 1>>
  BY <1>1 DEF CellOf
<1>4. View' = [text |-> Cells, cursor |-> <<1, 1>>, right |-> right]
  BY <1>1, <1>2, <1>3 DEF View, Cells
<1> QED
  BY <1>4, ViewEffects

LEMMA ShiftTakesEffect ==
  ASSUME TypeOK, ExecuteInstruction(24)
  PROVE  View' = Abstract!Effect(<<"shift">>, View)
<1>1. 24 - 128 \notin Addr
  BY ColumnsAssumption DEF Addr
<1>2. text' = text /\ addr' = addr
  BY <1>1 DEF ExecuteInstruction
<1>3. right' = right
  BY DEF ExecuteInstruction
<1>4. View' = View
  BY <1>2, <1>3 DEF View
<1> QED
  BY <1>4 DEF Abstract!Effect

LEMMA CursorTakesEffect ==
  ASSUME TypeOK, NEW row \in 1..2, NEW column \in 1..Columns,
         ExecuteInstruction(LineBase(row) + column - 1)
  PROVE  View' = Abstract!Effect(<<"cursor", <<row, column>>>>, View)
<1> DEFINE c == <<row, column>>
<1>1. PICK b \in Int : b = LineBase(row) + column - 1
  BY DEF LineBase
<1>2. c \in Abstract!Cell
  BY DEF Abstract!Cell
<1>3. AddrOf(c) = 64 * (row - 1) + column - 1
  BY DEF AddrOf
<1>4. b - 128 = AddrOf(c) /\ b >= 128
  <2>1. CASE row = 1
    BY <1>1, <1>3, <2>1, ColumnsAssumption DEF LineBase
  <2>2. CASE row = 2
    BY <1>1, <1>3, <2>2, ColumnsAssumption DEF LineBase
  <2> QED
    BY <2>1, <2>2
<1>5. AddrOf(c) \in Addr /\ CellOf(AddrOf(c)) = c
  BY <1>2, AddrOfIs
<1> HIDE DEF c
<1>6. ExecuteInstruction(b)
  BY <1>1
<1>7. text' = text /\ addr' = AddrOf(c)
  BY <1>4, <1>5, <1>6 DEF ExecuteInstruction
<1>8. right' = right
  <2>1. b # 1 /\ b \notin 4..7
    BY <1>4
  <2> QED
    BY <1>6, <2>1, Zenon DEF ExecuteInstruction
<1>9. View' = [text |-> Cells, cursor |-> c, right |-> right]
  BY <1>5, <1>7, <1>8 DEF View, Cells
<1>10. Abstract!Effect(<<"cursor", c>>, View) = [text |-> Cells, cursor |-> c, right |-> right]
  BY ViewEffects
<1> QED
  BY <1>9, <1>10 DEF c

LEMMA EntryTakesEffect ==
  ASSUME TypeOK, NEW b \in BOOLEAN, ExecuteInstruction(IF b THEN 6 ELSE 4)
  PROVE  View' = Abstract!Effect(<<"entry", b>>, View)
<1>1. 6 - 128 \notin Addr /\ 4 - 128 \notin Addr
  BY ColumnsAssumption DEF Addr
<1>2. text' = text /\ addr' = addr
  BY <1>1 DEF ExecuteInstruction
<1>3. right' = b
  <2>1. CASE b = TRUE
    <3>1. right' = (6 >= 6)
      BY <2>1 DEF ExecuteInstruction
    <3>2. (6 >= 6) = TRUE
      OBVIOUS
    <3> QED
      BY <2>1, <3>1, <3>2
  <2>2. CASE b = FALSE
    <3>1. right' = (4 >= 6)
      BY <2>2 DEF ExecuteInstruction
    <3>2. (4 >= 6) = FALSE
      OBVIOUS
    <3> QED
      BY <2>2, <3>1, <3>2
  <2> QED
    BY <2>1, <2>2
<1>4. View' = [text |-> Cells, cursor |-> CellOf(addr), right |-> b]
  BY <1>2, <1>3 DEF View, Cells
<1> QED
  BY <1>4, ViewEffects

\* A character goes to the cursor, and the cursor moves on.
LEMMA CharTakesEffect ==
  ASSUME TypeOK, NEW ch \in Chars, WriteData(ch)
  PROVE  View' = Abstract!Effect(<<"char", ch>>, View)
<1>1. addr \in Addr /\ text \in [Addr -> Chars \cup {Blank}] /\ right \in BOOLEAN
  BY DEF TypeOK
<1>2. /\ text' = [text EXCEPT ![addr] = ch] /\ right' = right
      /\ addr' = IF right THEN Succ(addr) ELSE Pred(addr)
  BY DEF WriteData
<1> DEFINE here == CellOf(addr)
<1>3. here \in Abstract!Cell /\ AddrOf(here) = addr
  BY <1>1, CellOfIs
<1>4. [cell \in Abstract!Cell |-> text'[AddrOf(cell)]] = [Cells EXCEPT ![here] = ch]
  <2>1. ASSUME NEW cell \in Abstract!Cell
        PROVE  text'[AddrOf(cell)] = IF cell = here THEN ch ELSE text[AddrOf(cell)]
    <3>1. AddrOf(cell) \in Addr /\ (AddrOf(cell) = addr => cell = here)
      BY AddrOfIs
    <3>2. cell = here => AddrOf(cell) = addr
      BY <1>3
    <3> QED
      BY <1>1, <1>2, <3>1, <3>2
  <2> QED
    BY <2>1 DEF Cells
<1>5. CellOf(addr') = IF right THEN Abstract!Right(here) ELSE Abstract!Left(here)
  BY <1>1, <1>2, CellOfIs
<1> HIDE DEF here
<1>6. View' = [text |-> [Cells EXCEPT ![here] = ch],
               cursor |-> IF right THEN Abstract!Right(here) ELSE Abstract!Left(here),
               right |-> right]
  BY <1>2, <1>4, <1>5 DEF View
<1>7. Abstract!Effect(<<"char", ch>>, View) =
        [text |-> [Cells EXCEPT ![here] = ch],
         cursor |-> IF right THEN Abstract!Right(here) ELSE Abstract!Left(here),
         right |-> right]
  BY ViewEffects DEF here
<1> QED
  BY <1>6, <1>7, Zenon

\* The byte that is sent for a request does to the display what was asked for.
LEMMA TakesEffect ==
  ASSUME TypeOK, NEW r \in Abstract!Request, Execute(Register(r), Code(r))
  PROVE  View' = Abstract!Effect(r, View)
<1>1. CASE r = <<"clear">>
  <2>1. Register(r) = 0 /\ Code(r) = 1
    BY <1>1 DEF Register, Code
  <2> QED
    BY <1>1, <2>1, ClearTakesEffect DEF Execute
<1>2. CASE r = <<"home">>
  <2>1. Register(r) = 0 /\ Code(r) = 2
    BY <1>2 DEF Register, Code
  <2> QED
    BY <1>2, <2>1, HomeTakesEffect DEF Execute
<1>3. CASE r = <<"shift">>
  <2>1. Register(r) = 0 /\ Code(r) = 24
    BY <1>3 DEF Register, Code
  <2> QED
    BY <1>3, <2>1, ShiftTakesEffect DEF Execute
<1>4. ASSUME NEW row \in 1..2, NEW column \in 1..Columns, r = <<"cursor", <<row, column>>>>
      PROVE  View' = Abstract!Effect(r, View)
  <2>1. Register(r) = 0 /\ Code(r) = LineBase(row) + column - 1
    BY <1>4 DEF Register, Code
  <2>2. ExecuteInstruction(LineBase(row) + column - 1)
    BY <2>1 DEF Execute
  <2> QED
    BY <1>4, <2>2, CursorTakesEffect
<1>5. ASSUME NEW b \in BOOLEAN, r = <<"entry", b>>
      PROVE  View' = Abstract!Effect(r, View)
  <2>1. Register(r) = 0 /\ Code(r) = IF b THEN 6 ELSE 4
    BY <1>5 DEF Register, Code
  <2>2. ExecuteInstruction(IF b THEN 6 ELSE 4)
    BY <2>1 DEF Execute
  <2> QED
    BY <1>5, <2>2, EntryTakesEffect
<1>6. ASSUME NEW ch \in Chars, r = <<"char", ch>>
      PROVE  View' = Abstract!Effect(r, View)
  <2>1. Register(r) = 1 /\ Code(r) = ch
    BY <1>6 DEF Register, Code
  <2>2. WriteData(ch)
    BY <2>1 DEF Execute
  <2> QED
    BY <1>6, <2>2, CharTakesEffect
<1> QED
  BY <1>1, <1>2, <1>3, <1>4, <1>5, <1>6, RequestCases

-----------------------------------------------------------------------------
(* the refinement *)

avars == <<Shown, Requested>>

LEMMA InitImplements == Init => Abstract!Init
<1> SUFFICES ASSUME Init PROVE Abstract!Init
  OBVIOUS
<1>1. ~Known
  BY DEF Init, Known
<1> QED
  BY <1>1, ShownIs DEF Requested, Abstract!Init, Abstract!None, NoCall

\* The application is stopped, or a write is lost.
LEMMA LosesDisplay ==
  ASSUME ~Known'
  PROVE  Abstract!Lose
<1>1. Shown' = Abstract!Unknown
  BY DEF Shown, Abstract!Unknown
<1>2. Requested' = NoCall
  BY DEF Requested
<1> QED
  BY <1>1, <1>2 DEF Abstract!Lose, Abstract!None, NoCall

LEMMA BeginImplements ==
  ASSUME IInv, NEW r \in Abstract!Request, BeginRequest(r)
  PROVE  Abstract!Next \/ UNCHANGED avars
<1>1. /\ phase = "running" /\ todo = <<>> /\ call' = r
      /\ UNCHANGED <<phase, lcd, lost>>
  BY DEF BeginRequest, Begin
<1>2. Known' <=> Known
  BY <1>1 DEF Known
<1>3. CASE ~Known
  <2>1. ~Known'
    BY <1>2, <1>3
  <2> QED
    BY <2>1, LosesDisplay DEF Abstract!Next
<1>4. CASE Known
  <2>1. View' = View
    BY <1>1 DEF View, lcd
  <2>2. Shown = View /\ Shown' = View'
    BY <1>2, <1>4 DEF Shown, View, Abstract!Cell
  <2>3. Shown # Abstract!Unknown
    BY <2>2, ShownIs
  <2>4. Requested = NoCall /\ Requested' = r
    BY <1>1, <1>2, <1>4 DEF Requested, IInv, CallInv
  <2>5. Abstract!Call(r)
    BY <2>1, <2>2, <2>3, <2>4 DEF Abstract!Call, Abstract!None, NoCall
  <2> QED
    BY <2>5 DEF Abstract!Next
<1> QED
  BY <1>3, <1>4

\* The last write of lcd_init, and the last write of a call.
LEMMA GpioWriteValueImplements ==
  ASSUME IInv, GpioWriteValue
  PROVE  Abstract!Next \/ UNCHANGED avars
<1>1. TypeOK /\ CallInv /\ NextWrite /\ lost' = lost
  BY DEF IInv, GpioWriteValue
<1>2. /\ phase \in {"init", "running"}
      /\ Len(todo) = 1 => todo' = <<>> /\ phase' = "running" /\ call' = NoCall
      /\ Len(todo) # 1 => todo' # <<>> /\ UNCHANGED <<phase, call>>
  BY <1>1, NextWriteIs
<1>3. CASE ~Known'
  BY <1>3, LosesDisplay DEF Abstract!Next
<1>4. CASE Known' /\ phase = "init"
  <2>1. ~lost /\ phase' = "running"
    BY <1>1, <1>4 DEF Known
  <2>2. Len(todo) = 1
    BY <1>2, <1>4, <2>1
  <2>3. Fresh'
    BY <1>4, <2>1, <2>2, WriteInInit
  <2>4. Shown' = Abstract!Cleared
    <3>1. text' = [a \in Addr |-> Blank] /\ addr' = 0 /\ right' = TRUE
      BY <2>3 DEF Fresh
    <3>2. [cell \in Abstract!Cell |-> text'[AddrOf(cell)]] = [cell \in Abstract!Cell |-> 32]
      BY <3>1, AddrOfIs DEF Blank
    <3>3. CellOf(addr') = <<1, 1>>
      BY <3>1 DEF CellOf
    <3>4. Shown' = [text |-> [cell \in Abstract!Cell |-> text'[AddrOf(cell)]],
                    cursor |-> CellOf(addr'), right |-> right']
      BY <1>4 DEF Shown, Abstract!Cell
    <3> QED
      BY <3>1, <3>2, <3>3, <3>4 DEF Abstract!Cleared, Abstract!Blank
  <2>5. ~Known
    BY <1>4 DEF Known
  <2>6. Shown = Abstract!Unknown /\ Requested = NoCall
    BY <2>5, ShownIs DEF Requested
  <2>7. Requested' = NoCall
    BY <1>2, <1>4, <2>2 DEF Requested
  <2>8. Abstract!LcdInit
    BY <2>4, <2>6, <2>7 DEF Abstract!LcdInit
  <2> QED
    BY <2>8 DEF Abstract!Next
<1>5. CASE Known' /\ phase = "running"
  <2>1. ~lost /\ Known
    BY <1>1, <1>5 DEF Known
  <2>2. Shown = View /\ Shown' = View'
    BY <1>5, <2>1 DEF Shown, View, Abstract!Cell
  <2>3. Requested = call /\ Requested' = call'
    BY <1>5, <2>1 DEF Requested
  <2>4. CASE Len(todo) # 1
    <3>1. UNCHANGED <<text, addr, right>>
      BY <1>5, <2>1, <2>4, WriteInCall
    <3>2. View' = View
      BY <3>1 DEF View
    <3>3. call' = call
      BY <1>2, <2>4
    <3> QED
      BY <2>2, <2>3, <3>2, <3>3 DEF avars
  <2>5. CASE Len(todo) = 1
    <3>1. call \in Abstract!Request /\ Execute(Register(call), Code(call))
      BY <1>5, <2>1, <2>5, WriteInCall
    <3>2. View' = Abstract!Effect(call, View)
      BY <1>1, <3>1, TakesEffect
    <3>3. call # NoCall /\ call' = NoCall
      BY <1>2, <2>5, <3>1, RequestIs
    <3>4. Abstract!Return
      BY <2>2, <2>3, <3>2, <3>3 DEF Abstract!Return, Abstract!None, NoCall
    <3> QED
      BY <3>4 DEF Abstract!Next
  <2> QED
    BY <2>4, <2>5
<1> QED
  BY <1>2, <1>3, <1>4, <1>5

LEMMA StepImplements == IInv /\ [Next]_vars => [Abstract!Next]_avars
<1> SUFFICES ASSUME IInv, [Next]_vars PROVE Abstract!Next \/ UNCHANGED avars
  OBVIOUS
<1>1. CASE Start \/ GpioWriteFails \/ Kill
  <2>1. ~Known'
    BY <1>1 DEF Start, GpioWriteFails, Kill, Known
  <2> QED
    BY <2>1, LosesDisplay DEF Abstract!Next
<1>2. CASE GpioWriteValue
  BY <1>2, GpioWriteValueImplements
<1>3. CASE \E r \in Abstract!Request : BeginRequest(r)
  BY <1>3, BeginImplements
<1>4. CASE UNCHANGED vars
  <2>1. UNCHANGED <<phase, call, text, addr, right, lost>>
    BY <1>4 DEF vars, lcd
  <2>2. Known' <=> Known
    BY <2>1 DEF Known
  <2> QED
    BY <2>1, <2>2 DEF avars, Shown, Requested
<1> QED
  BY <1>1, <1>2, <1>3, <1>4, CallsAre

\* Each call of the library is, to its caller, one step of the display it was
\* asked for, after lcd_init at any moment of the display's life.
THEOREM CallsTakeEffect == Spec => ImplementsDisplay
BY InitImplements, InitHolds, StepInv, StepImplements, PTL
   DEF Spec, ImplementsDisplay, Abstract!Spec, avars

=============================================================================

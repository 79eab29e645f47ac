----------------------------- MODULE Calculator -----------------------------
(***************************************************************************)
(* The desk calculator of src/kernel/gui.cpp: calc_press, one action per   *)
(* kind of button, and the two conversions between the display and the     *)
(* accumulator.  The buttons "(" and ")" do nothing.                       *)
(*                                                                         *)
(* The accumulator is a two's complement word and every result wraps (the  *)
(* code computes in int64_t, and what gcc makes of it does wrap); of the   *)
(* display we keep what calc_parse_display reads: a sign and digits.       *)
(* `sum` is the user's side: numbers and operators in the order they were  *)
(* entered, as unbounded integers, or Lost once one has left the word.     *)
(***************************************************************************)
EXTENDS Integers, Sequences, SequencesExt

CONSTANTS Word,       \* 2^63: the word holds -Word .. Word - 1
          DisplaySize,  \* sizeof(g_calc_display): any number fits
          Digits,     \* the digit buttons that are pressed
          MaxSum      \* bound: numbers and operators of one sum

VARIABLES g_calc_display, g_calc_acc, g_calc_op, g_calc_fresh,
          halted,  \* the exception handler has stopped the machine
          sum

calcVars == <<g_calc_display, g_calc_acc, g_calc_op, g_calc_fresh, halted, sum>>

Operators == {"+", "-", "*", "/"}
Lost == <<>>

Wrap(v) == ((v + Word) % (2 * Word)) - Word
Abs(v) == IF v < 0 THEN -v ELSE v
InWord(v) == Abs(v) < Word

\* calc_set_display_from_int.  The least integer is its own negation, and the
\* remainders it is printed from are negative: a sign and no digit.
DigitsOf(v) ==
  LET many == CHOOSE n \in 1..DisplaySize : v < 10^n /\ (n = 1 \/ v >= 10^(n - 1))
  IN  [i \in 1..many |-> (v \div 10^(many - i)) % 10]

Shown(v) == [neg |-> v < 0, digits |-> IF v = -Word THEN <<>> ELSE DigitsOf(Abs(v))]

\* calc_parse_display
ParsedUnsigned(display) ==
  FoldLeft(LAMBDA v, d : Wrap(10 * v + d), 0, display.digits)

Parsed(display) == IF display.neg THEN Wrap(-ParsedUnsigned(display))
                                  ELSE ParsedUnsigned(display)

\* C++ division truncates toward 0; the code answers 0 where it has no result.
Quotient(a, b) == IF b = 0 THEN 0
                  ELSE IF (a < 0) = (b < 0) THEN Abs(a) \div Abs(b)
                  ELSE -(Abs(a) \div Abs(b))

Apply(a, op, b) == CASE op = "+" -> a + b
                     [] op = "-" -> a - b
                     [] op = "*" -> a * b
                     [] op = "/" -> Quotient(a, b)

\* The switch of calc_press.  For the one quotient that does not fit the word
\* the divide instruction raises an exception.
Computed == Wrap(Apply(g_calc_acc, g_calc_op, Parsed(g_calc_display)))
Traps == g_calc_op = "/" /\ g_calc_acc = -Word /\ Parsed(g_calc_display) = -1

-----------------------------------------------------------------------------
(* The user's side.                                                        *)

\* The value of numbers and operators, from left to right; Word, which no word
\* holds, when some value on the way is not in the word.
Value(s) ==
  LET value(v) == IF InWord(v) THEN v ELSE Word
      step(v, i) == IF v = Word \/ ~InWord(s[i + 1]) THEN Word
                    ELSE value(Apply(v, s[i], s[i + 1]))
  IN  FoldLeft(step, value(s[1]), [k \in 1..((Len(s) - 1) \div 2) |-> 2 * k])

\* A sum that has left the word is lost.
Kept(s) == IF Value(s) = Word THEN Lost ELSE s
EndsInOperator(s) == Len(s) % 2 = 0

-----------------------------------------------------------------------------

Init == /\ g_calc_display = Shown(0)
        /\ g_calc_acc = 0
        /\ g_calc_op = "none"
        /\ g_calc_fresh = TRUE
        /\ halted = FALSE
        /\ sum = <<0>>

\* A digit that starts a number: after an operator, a result or C.
FirstDigit(d) ==
  /\ g_calc_fresh
  /\ g_calc_display' = [neg |-> FALSE, digits |-> <<d>>]
  /\ g_calc_fresh' = FALSE
  /\ sum' = IF g_calc_op = "none" THEN <<d>>
            ELSE IF sum = Lost THEN Lost ELSE Append(sum, d)
  /\ UNCHANGED <<g_calc_acc, g_calc_op, halted>>

\* A further digit, if the display has room for it; a lone 0 is replaced.
NextDigit(d) ==
  LET digits == g_calc_display.digits
  IN  /\ ~g_calc_fresh
      /\ Len(digits) + 1 < DisplaySize - 1
      /\ g_calc_display' = [g_calc_display EXCEPT !.digits =
                              IF digits = <<0>> THEN <<d>> ELSE Append(digits, d)]
      /\ sum' = IF sum = Lost THEN Lost ELSE Kept([sum EXCEPT ![Len(sum)] = 10 * @ + d])
      /\ UNCHANGED <<g_calc_acc, g_calc_op, g_calc_fresh, halted>>

\* What an operator button does to the sum: it follows the number entered, or
\* replaces the operator entered before.
Extended(op) == IF sum = Lost THEN Lost
                ELSE IF EndsInOperator(sum) THEN [sum EXCEPT ![Len(sum)] = op]
                ELSE Kept(Append(sum, op))

\* An operator button computes the pending operation if its second number was
\* entered; an eager one does not ask whether it was.
PendingEager == g_calc_op # "none"
Pending == g_calc_op # "none" /\ ~g_calc_fresh

Operator(op) ==
  /\ sum = Lost \/ Len(sum) < MaxSum
  /\ \/ /\ Pending
        /\ ~Traps
        /\ g_calc_acc' = Computed
        /\ g_calc_display' = Shown(Computed)
     \/ /\ ~Pending
        /\ g_calc_acc' = Parsed(g_calc_display)
        /\ UNCHANGED g_calc_display
  /\ g_calc_op' = op
  /\ g_calc_fresh' = TRUE
  /\ sum' = Extended(op)
  /\ UNCHANGED halted

\* "=": with no number after the operator, what is shown is taken for it.
Equals ==
  /\ g_calc_op # "none"
  /\ ~Traps
  /\ g_calc_acc' = Computed
  /\ g_calc_display' = Shown(Computed)
  /\ g_calc_op' = "none"
  /\ g_calc_fresh' = TRUE
  /\ sum' = IF sum = Lost THEN Lost
            ELSE IF EndsInOperator(sum) THEN Kept(Append(sum, Value(Front(sum))))
            ELSE Kept(sum)
  /\ UNCHANGED halted

\* The division of an operator button or of "=" that raises the exception
DivideError == /\ Traps
               /\ halted' = TRUE
               /\ UNCHANGED <<g_calc_display, g_calc_acc, g_calc_op, g_calc_fresh, sum>>

Clear == /\ g_calc_display' = Shown(0)
         /\ g_calc_acc' = 0
         /\ g_calc_op' = "none"
         /\ g_calc_fresh' = TRUE
         /\ sum' = <<0>>
         /\ UNCHANGED halted

Next == /\ ~halted
        /\ \/ \E d \in Digits : FirstDigit(d) \/ NextDigit(d)
           \/ \E op \in Operators : Operator(op)
           \/ Equals
           \/ DivideError
           \/ Clear

-----------------------------------------------------------------------------

(* Whatever the order of the buttons, the display shows the number being   *)
(* entered or else the value of what was entered, from left to right, as   *)
(* long as no number left the word since the sum was begun.                *)
ShowsTheSum ==
  sum # Lost =>
    g_calc_display = IF ~g_calc_fresh THEN Shown(sum[Len(sum)])
                     ELSE IF EndsInOperator(sum) THEN Shown(Value(Front(sum)))
                     ELSE Shown(Value(sum))

(* The buttons stop the machine only after a number too long for the word. *)
HaltsOnlyLost == halted => sum = Lost

(* Together: the calculator is right on every sum that fits.               *)
CalculatorRight == ShowsTheSum /\ HaltsOnlyLost
=============================================================================

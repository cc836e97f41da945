----------------------------- MODULE SampleLine -----------------------------
(* The line main prints for a sample (alt_printf.c, main.c) and the client   *)
(* that reads it (test.py): hexadecimal digits without a sign or leading      *)
(* zeros on one side, the value and its sign put together again on the other. *)
(* The channel between them is CharChannel: bytes in order, none lost.  The   *)
(* client may start while a line is under way, the head of which an earlier   *)
(* one has taken.                                                             *)
EXTENDS Integers, Sequences

CONSTANTS LongBits,      \* bits of an unsigned long (32)
          DigitBits,  \* bits of a digit (4)
          Lines,      \* samples: three coordinates, buttons, switches
          Ahead       \* bound on the lines the channel holds

ASSUME LineAssumption ==
    /\ DigitBits \in Nat \ {0} /\ LongBits \in Nat \ {0} /\ LongBits % DigitBits = 0
    /\ Ahead \in Nat \ {0}
    /\ \A s \in Lines : /\ Len(s) = 5 /\ s \in Seq(Int)
                        /\ \A i \in 1..3 : s[i] \in -2^(LongBits-1)..2^(LongBits-1) - 1
                        /\ \A i \in 4..5 : s[i] \in 0..2^LongBits - 1

VARIABLES stream,    \* characters printed and not yet read
          printed,   \* history: the samples of those lines, the one being read included
          client,    \* "away", "reading" or "stopped" (an exception)
          line,      \* what the client has of the current line
          cut,       \* history: the head of that line went to an earlier client
          got        \* the last line read: the sample it stood for, and what the client made of it

lineVars == <<stream, printed, client, line, cut, got>>

(* Characters: a digit is its value. *)
Comma == -1
Newline == -2
NoLine == [cut |-> TRUE, of |-> <<>>, data |-> <<>>]

LineInit == /\ stream = <<>> /\ printed = <<>> /\ client = "away"
            /\ line = <<>> /\ cut = FALSE /\ got = NoLine

---------------------------------------------------------------------------
(* alt_printf: %x of an argument taken as an unsigned long. *)
Digits == LongBits \div DigitBits
Shifts == 0..Digits - 1
Digit(v, shift) == (v \div 2^(DigitBits * shift)) % 2^DigitBits

FirstShift(v) == CHOOSE s \in Shifts : Digit(v, s) # 0 /\ \A t \in Shifts : t > s => Digit(v, t) = 0

Hex(v) == IF v = 0 THEN <<0>>
          ELSE LET first == FirstShift(v)
               IN  [i \in 1..first + 1 |-> Digit(v, first + 1 - i)]

\* "%x,%x,%x,%x,%x\n"
Printed(s) == LET x(i) == Hex(s[i] % 2^LongBits)
              IN  x(1) \o <<Comma>> \o x(2) \o <<Comma>> \o x(3) \o <<Comma>>
                       \o x(4) \o <<Comma>> \o x(5) \o <<Newline>>

(* main prints and flushes. *)
alt_printf(s) ==
    /\ Len(printed) < Ahead
    /\ stream' = stream \o Printed(s) /\ printed' = Append(printed, s)
    /\ UNCHANGED <<client, line, cut, got>>

---------------------------------------------------------------------------
(* The client. *)
Field(f, c) == IF c = Comma THEN Append(f, <<>>) ELSE [f EXCEPT ![Len(f)] = Append(@, c)]
Fields(chars) == LET split[i \in 0..Len(chars)] == IF i = 0 THEN <<<<>>>> ELSE Field(split[i-1], chars[i])
                 IN  split[Len(chars)]
Int16(digits) == LET value[i \in 0..Len(digits)] ==
                         IF i = 0 THEN 0 ELSE value[i-1] * 2^DigitBits + digits[i]
                 IN  value[Len(digits)]

\* Mutant: only the values above the middle are taken as negative.
twos_compAbove(val) == IF val > 2^(LongBits-1) THEN val - 2^LongBits ELSE val
twos_comp(val) == IF (val \div 2^(LongBits-1)) % 2 # 0 THEN val - 2^LongBits ELSE val

(* process_data: None for a line of another number of fields. *)
Readable(f) == Len(f) = 5 /\ \A i \in 1..5 : f[i] # <<>>
process_data(f) == [i \in 1..5 |-> IF i <= 3 THEN twos_comp(Int16(f[i])) ELSE Int16(f[i])]

(* A character taken by the client before this one. *)
Lost == /\ client = "away" /\ stream # <<>> /\ stream' = Tail(stream)
        /\ IF Head(stream) = Newline THEN printed' = Tail(printed) /\ cut' = FALSE
                                     ELSE cut' = TRUE /\ UNCHANGED printed
        /\ UNCHANGED <<client, line, got>>

Start == client = "away" /\ client' = "reading" /\ UNCHANGED <<stream, printed, line, cut, got>>

ReadChar == /\ client = "reading" /\ stream # <<>> /\ Head(stream) # Newline
            /\ line' = Append(line, Head(stream)) /\ stream' = Tail(stream)
            /\ got' = NoLine /\ UNCHANGED <<printed, client, cut>>

(* At the end of a line: an empty one is skipped, one that is not five       *)
(* numbers ends the script with an exception.                                 *)
ReadLine ==
    /\ client = "reading" /\ stream # <<>> /\ Head(stream) = Newline
    /\ stream' = Tail(stream) /\ printed' = Tail(printed) /\ line' = <<>> /\ cut' = FALSE
    /\ IF line = <<>> THEN UNCHANGED <<client, got>>
       ELSE IF Readable(Fields(line))
       THEN /\ got' = [cut |-> cut, of |-> Head(printed), data |-> process_data(Fields(line))]
            /\ UNCHANGED client
       ELSE /\ got' = [cut |-> cut, of |-> Head(printed), data |-> <<>>] /\ client' = "stopped"

(* The client is stopped, by its exception or by its user. *)
Stop == /\ client # "away" /\ client' = "away"
        /\ line' = <<>> /\ cut' = (cut \/ line # <<>>) /\ UNCHANGED <<stream, printed, got>>

LineNext == \/ \E s \in Lines : alt_printf(s)
            \/ Lost \/ Start \/ ReadChar \/ ReadLine \/ Stop

LineSpec == LineInit /\ [][LineNext]_lineVars
---------------------------------------------------------------------------
(* Every line the client has read from its beginning gave it the sample that *)
(* main printed, signs and zeros included, and only a line of which it missed *)
(* the beginning can stop it (alt_printf.c:83-107, test.py:8-23).             *)
LineIsSample == got.cut \/ got.data = got.of
---------------------------------------------------------------------------
(* The inductive invariant behind LineIsSample: LineIInv holds for some ends  *)
(* of the lines.                                                              *)

LineTypeOK ==
    /\ stream \in Seq(Int) /\ printed \in Seq(Lines) /\ line \in Seq(Int)
    /\ client \in {"away", "reading", "stopped"} /\ cut \in BOOLEAN

(* A text at its place in the channel, characters from + 1 to to; what has     *)
(* been taken already has no place.                                            *)
Stands(text, chars, from, to) ==
    /\ to = from + Len(text) /\ to <= Len(chars)
    /\ \A i \in 1..Len(text) : from + i > 0 => chars[from + i] = text[i]

(* What is in the channel: the lines printed, one after the other, but for     *)
(* the head of the first of them.  Line k ends at ends[k] and begins after     *)
(* ends[k-1], which is negative where the head has been read.                  *)
Placed(ends, chars, samples) ==
    /\ ends \in [0..Len(samples) -> Int] /\ ends[0] <= 0 /\ ends[Len(samples)] = Len(chars)
    /\ samples # <<>> => ends[1] > 0
    /\ \A k \in 1..Len(samples) : Stands(Printed(samples[k]), chars, ends[k-1], ends[k])

(* What the client has is the head of the first line, unless it came in late.  *)
HeadRead(ends) ==
    ~cut => Len(line) = -ends[0] /\ \A i \in 1..Len(line) : line[i] = Printed(printed[1])[i]

LineIInv(ends) == /\ LineTypeOK /\ Placed(ends, stream, printed) /\ HeadRead(ends)
                  /\ client = "away" => line = <<>>
                  /\ LineIsSample
===========================================================================

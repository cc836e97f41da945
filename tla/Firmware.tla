----------------------------- MODULE Firmware -----------------------------
(* main.c: the controller's main loop and the sampling interrupt it shares  *)
(* its coordinates with.  The loop reads bytes from the host, splits them   *)
(* into messages at '$', obeys the last message, and, when there is a new   *)
(* sample, filters and prints it and refreshes the displays.                *)
(* An action is one piece of the loop between two accesses to what the      *)
(* interrupt routine shares.                                                *)
EXTENDS Integers, Sequences

CONSTANTS Input,      \* what the host may send: some of Char
          ReadMax,    \* sizeof stdin_buff (256)
          DISP,       \* length of the scrolled text (25)
          WIN,        \* digits of the 7-segment display (6)
          HEX_DELAY,  \* samples between two scroll steps (40)
          MaxBytes    \* bound: bytes the host sends in all

END_RECIEVE == "$"
Char  == {END_RECIEVE, "1", "0", "~", "-", "+", "t", "u"}
Blank == "blank"                    \* the 255 that pads a text
Nul   == "nul"                      \* the 0 the globals start as
EasyFilter == <<"E">>               \* the two banners, one cell each
HardFilter == <<"H">>
AllOn == 1023                       \* 0b1111111111

ASSUME FirmwareAssumption ==
    /\ Input \subseteq Char
    /\ ReadMax \in Nat \ {0} /\ MaxBytes \in Nat
    /\ WIN \in Nat \ {0} /\ DISP \in Nat /\ WIN <= DISP
    /\ HEX_DELAY \in Nat \ {0}
    \* No text fills word[] and no score overruns score_unprocessed[]: main.c
    \* checks neither length, and what it does beyond them is not modelled.
    /\ MaxBytes <= DISP /\ MaxBytes <= WIN + 2

VARIABLES stdin,        \* received by the driver, not yet read
          stdin_buff,   \* read, not yet parsed
          messagebuff,  \* its first messagebuffind bytes
          message, message_is_ready,
          filter, leds, stopscroll, delay, word, display_buff,
          coord_data_ready,
          fresh,        \* axes of coords that main has not filtered since they were sampled
          ledsHw, hexHw,    \* what the LED and 7-segment PIOs show
          pc,
          heard, handled    \* history: bytes read, messages obeyed

display == <<leds, stopscroll, delay, word, display_buff, ledsHw, hexHw>>
parser  == <<stdin, stdin_buff, messagebuff, message, message_is_ready, heard>>
sample  == <<coord_data_ready, fresh>>
vars == <<parser, filter, display, sample, pc, handled>>

Axes == {"x", "y", "z"}

(* A text, padded with blanks to len cells or cut there. *)
Padded(s, len) == [i \in 1..len |-> IF i <= Len(s) THEN s[i] ELSE Blank]

(* What a digit shows: nothing for a blank and for what lies above 'z', the  *)
(* byte found before the table for what lies below '0', the character's own *)
(* segments for the others.                                                 *)
Dark  == {Blank, "~"}
Below == {Nul, END_RECIEVE, "-", "+"}
decode_7seg(c) == IF c \in Dark THEN "dark" ELSE IF c \in Below THEN "stray" ELSE c
Decoded(s) == [i \in DOMAIN s |-> decode_7seg(s[i])]

Init ==
    /\ stdin = <<>> /\ stdin_buff = <<>> /\ messagebuff = <<>> /\ message = <<>> /\ message_is_ready = FALSE
    /\ filter = 0 /\ leds = 0 /\ stopscroll = FALSE /\ delay = 0
    /\ word = [i \in 1..DISP |-> Nul] /\ display_buff = word
    /\ coord_data_ready = FALSE /\ fresh = {}
    /\ ledsHw = 0 /\ hexHw = [i \in 1..WIN |-> "all"]
    /\ pc = "read" /\ heard = <<>> /\ handled = 0

At(l) == pc = l
Goto(l) == pc' = l

---------------------------------------------------------------------------
(* Reading and parsing.                                                      *)

\* Mutant: the partial message is not emptied at its terminator.
ByteNoReset(st, c) ==
    IF c # END_RECIEVE
    THEN [st EXCEPT !.buff = Append(@, c)]
    ELSE [st EXCEPT !.message = st.buff, !.ready = TRUE]

(* One turn of the loop over stdin_buff. *)
Byte(st, c) ==
    IF c # END_RECIEVE
    THEN [st EXCEPT !.buff = Append(@, c)]
    ELSE [buff |-> <<>>, message |-> st.buff, ready |-> TRUE]

(* A non-blocking read takes what there is, up to the buffer. *)
Read ==
    /\ At("read") /\ Goto("parse")
    /\ LET size == IF Len(stdin) < ReadMax THEN Len(stdin) ELSE ReadMax
       IN  /\ stdin_buff' = SubSeq(stdin, 1, size)
           /\ stdin' = SubSeq(stdin, size + 1, Len(stdin))
    /\ UNCHANGED <<messagebuff, message, message_is_ready, heard, filter, display, sample, handled>>

Parse ==
    /\ At("parse") /\ stdin_buff # <<>> /\ stdin_buff' = Tail(stdin_buff)
    /\ LET c == Head(stdin_buff)
           st == Byte([buff |-> messagebuff, message |-> message, ready |-> message_is_ready], c)
       IN  /\ messagebuff' = st.buff /\ message' = st.message /\ message_is_ready' = st.ready
           /\ heard' = Append(heard, c)
    /\ UNCHANGED <<stdin, filter, display, sample, pc, handled>>

EndOfBuffer ==
    /\ At("parse") /\ stdin_buff = <<>> /\ Goto("handle")
    /\ UNCHANGED <<parser, filter, display, sample, handled>>

---------------------------------------------------------------------------
(* Obeying a message.                                                        *)

Command == IF message = <<>> THEN END_RECIEVE ELSE message[1]

LedCommand ==
    /\ Command \in {"0", "1"}
    /\ leds' = IF Command = "1" THEN AllOn ELSE 0
    /\ UNCHANGED <<filter, stopscroll, delay, word, display_buff, ledsHw, hexHw>>

Score ==
    /\ Command = "~"
    /\ hexHw' = Decoded(Padded(Tail(message), WIN))
    /\ stopscroll' = TRUE
    /\ UNCHANGED <<filter, leds, delay, word, display_buff, ledsHw>>

(* setBuffer: the text from its start, and scrolling resumes. *)
ShowText(w) ==
    /\ word' = w /\ display_buff' = Padded(w, DISP)
    /\ stopscroll' = FALSE
    /\ UNCHANGED <<delay, ledsHw, hexHw>>

Difficulty ==
    /\ Command \in {"-", "+"}
    /\ ShowText(IF Command = "+" THEN HardFilter ELSE EasyFilter)
    /\ filter' = IF Command = "+" THEN 1 ELSE 0
    /\ leds' = IF Command = "+" THEN AllOn ELSE 0

Text ==
    /\ Command \notin {"0", "1", "~", "-", "+"}
    /\ ShowText(message)
    /\ UNCHANGED <<filter, leds>>

Handle ==
    /\ At("handle") /\ Goto("sample")
    /\ IF message_is_ready
       THEN /\ LedCommand \/ Score \/ Difficulty \/ Text
            /\ message_is_ready' = FALSE /\ handled' = handled + 1
       ELSE UNCHANGED <<filter, display, message_is_ready, handled>>
    /\ UNCHANGED <<stdin, stdin_buff, messagebuff, message, heard, sample>>

---------------------------------------------------------------------------
(* Outputting a sample.                                                      *)

TestReady ==
    /\ At("sample")
    /\ Goto(IF coord_data_ready THEN "x" ELSE "read")
    /\ UNCHANGED <<parser, filter, display, sample, handled>>

(* fir_filter_fixed on one axis reads its coordinate once. *)
FilterAxis(a, next) ==
    /\ At(a) /\ Goto(next)
    /\ fresh' = fresh \ {a}
    /\ UNCHANGED <<parser, filter, display, coord_data_ready, handled>>

\* Mutant: the cell that leaves on the left does not come back on the right.
RotatedDropping(s) == Append(Tail(s), Blank)

(* shiftBuffer *)
Rotated(s) == Append(Tail(s), s[1])

\* Mutants: one update_hex that scrolls over a score, and one that never counts
\* the steps that do not scroll.
UpdateHexAlways ==
    IF delay = 0
    THEN /\ hexHw' = Decoded(SubSeq(display_buff, 1, WIN))
         /\ display_buff' = Rotated(display_buff)
         /\ delay' = HEX_DELAY - 1
    ELSE delay' = delay - 1 /\ UNCHANGED <<hexHw, display_buff>>

UpdateHexStuck ==
    IF stopscroll \/ delay # 0 THEN UNCHANGED <<hexHw, display_buff, delay>>
    ELSE /\ hexHw' = Decoded(SubSeq(display_buff, 1, WIN))
         /\ display_buff' = Rotated(display_buff)
         /\ delay' = HEX_DELAY - 1

(* update_hex, when a score does not hold the display: its four outcomes. *)
UpdateHex ==
    IF stopscroll THEN UNCHANGED <<hexHw, display_buff, delay>>
    ELSE IF delay = 0
    THEN /\ hexHw' = Decoded(SubSeq(display_buff, 1, WIN))
         /\ display_buff' = Rotated(display_buff)
         /\ delay' = HEX_DELAY - 1
    ELSE delay' = delay - 1 /\ UNCHANGED <<hexHw, display_buff>>

\* Mutant: the LEDs wait for a delay that has always been counted down already.
UpdateLedsTooLate ==
    IF delay' = HEX_DELAY
    THEN leds' = (leds + (leds % 2) * 1024) \div 2 /\ ledsHw' = leds'
    ELSE UNCHANGED <<leds, ledsHw>>

(* update_leds: rotate the ten LEDs one to the right and write them out. *)
UpdateLeds ==
    IF delay' = 0
    THEN leds' = (leds + (leds % 2) * 1024) \div 2 /\ ledsHw' = leds'
    ELSE UNCHANGED <<leds, ledsHw>>

Refresh ==
    /\ At("refresh") /\ Goto("clear")
    /\ UpdateHex /\ UpdateLeds
    /\ UNCHANGED <<parser, filter, stopscroll, word, sample, handled>>

\* Mutant: the flag of the sample just shown stays up.
ClearForgotten ==
    /\ At("clear") /\ Goto("read")
    /\ UNCHANGED <<parser, filter, display, sample, handled>>

Clear ==
    /\ At("clear") /\ Goto("read")
    /\ coord_data_ready' = FALSE
    /\ UNCHANGED <<parser, filter, display, fresh, handled>>

---------------------------------------------------------------------------
(* The environment.                                                          *)

(* get_accler_isr, on every timer 0 interrupt. *)
get_accler_isr ==
    /\ coord_data_ready' = TRUE /\ fresh' = Axes
    /\ UNCHANGED <<parser, filter, display, pc, handled>>

HostSends ==
    /\ Len(heard) + Len(stdin_buff) + Len(stdin) < MaxBytes
    /\ \E c \in Input : stdin' = Append(stdin, c)
    /\ UNCHANGED <<stdin_buff, messagebuff, message, message_is_ready, heard,
                   filter, display, sample, pc, handled>>

MainStep == \/ Read \/ Parse \/ EndOfBuffer \/ Handle \/ TestReady
            \/ FilterAxis("x", "y") \/ FilterAxis("y", "z") \/ FilterAxis("z", "refresh")
            \/ Refresh \/ Clear

Next == MainStep \/ get_accler_isr \/ HostSends

Spec == Init /\ [][Next]_vars

(* The processor executes main, and timer 0 keeps interrupting it. *)
FairSpec == Spec /\ WF_vars(MainStep) /\ WF_vars(get_accler_isr)

---------------------------------------------------------------------------
(* Properties.                                                               *)

(* Every variable has its type; the scroll delay never goes below zero. *)
TypeOK ==
    /\ stdin \in Seq(Char) /\ stdin_buff \in Seq(Char) /\ messagebuff \in Seq(Char) /\ message \in Seq(Char)
    /\ message_is_ready \in BOOLEAN /\ filter \in {0, 1} /\ leds \in 0..AllOn
    /\ stopscroll \in BOOLEAN /\ delay \in 0..HEX_DELAY-1
    /\ Len(display_buff) = DISP /\ Len(hexHw) = WIN /\ ledsHw \in 0..AllOn
    /\ coord_data_ready \in BOOLEAN /\ fresh \subseteq Axes
    /\ pc \in Axes \cup {"read", "parse", "handle", "sample", "refresh", "clear"}
    /\ heard \in Seq(Char) /\ handled \in Nat

(* Where the terminators are in what main has read. *)
Ends == {i \in DOMAIN heard : heard[i] = END_RECIEVE}
PrevEnd(j) == CHOOSE i \in Ends \cup {0} : i < j /\ \A e \in Ends : e < j => e <= i

(* However the bytes were cut into reads, the partial message is what came  *)
(* after the last terminator and the complete one what came between the    *)
(* last two: no byte of one message gets into another (main.c:233-252).    *)
ParserFollowsInput ==
    LET last == PrevEnd(Len(heard) + 1)
    IN  /\ messagebuff = SubSeq(heard, last + 1, Len(heard))
        /\ last > 0 => message = SubSeq(heard, PrevEnd(last) + 1, last - 1)

(* The parser follows the input, on fields of their types. *)
FirmwareInv == TypeOK /\ ParserFollowsInput

(* "only output if there is new sample" (main.c:313): main filters no       *)
(* coordinate twice, although the interrupt routine may rewrite all three   *)
(* and set the flag anywhere in between, and main clears the flag last.     *)
OnlyNewSamples == pc \in Axes => pc \in fresh

(* Scrolling only rotates: the buffer holds the text that was last set, cut *)
(* at no other place than its end, however long it has scrolled.            *)
ScrollKeepsText ==
    \E r \in 0..DISP-1 : \A i \in 1..DISP :
        display_buff[i] = Padded(word, DISP)[((i - 1 + r) % DISP) + 1]

(* A score stays on the display, whatever is sampled, until a message       *)
(* replaces it or lets the text scroll again.                               *)
ScoreHeld == [][stopscroll /\ hexHw' # hexHw => pc = "handle" /\ Command = "~"]_vars

(* While the text scrolls, what the LEDs should show reaches them.  While a *)
(* score is shown it does not: the delay that gates update_leds stands still *)
(* (main.c:172, 330), so the LEDs wait for the next text.                   *)
LedsRefreshed == leds # ledsHw ~> (leds = ledsHw \/ stopscroll)

(* A text that was set is shown from its start, unless a score takes over.  *)
TextShown ==
    display_buff = Padded(word, DISP) /\ ~stopscroll
        ~> hexHw = Decoded(Padded(word, WIN)) \/ stopscroll

(* "FPGA receives data, parses it, then chages its state accordingly"       *)
(* (README.md:26): main has obeyed as many messages as it has seen end when *)
(* it turns to the sample.                                                  *)
EveryMessageObeyed ==
    pc = "sample" => handled = Len(SelectSeq(heard, LAMBDA c : c = END_RECIEVE))

---------------------------------------------------------------------------
(* The inductive invariants behind OnlyNewSamples and ScrollKeepsText.       *)

(* While the flag is up and main has not begun, and as main goes from axis  *)
(* to axis, the axes still to be filtered are fresh.                        *)
SampleInv ==
    /\ coord_data_ready /\ pc \in {"read", "parse", "handle", "sample"} => fresh = Axes
    /\ pc = "x" => fresh = Axes
    /\ pc = "y" => {"y", "z"} \subseteq fresh
    /\ pc = "z" => "z" \in fresh

(* s turned left by r cells. *)
Turned(s, r) == [i \in 1..DISP |-> s[((i - 1 + r) % DISP) + 1]]

ScrollInv == \E r \in 0..DISP-1 : display_buff = Turned(Padded(word, DISP), r)
===========================================================================

------------------------------ MODULE JsonText ------------------------------
(***************************************************************************)
(* An event as a line of JSON: serialize_event of the Windows agent        *)
(* (windows-agent/src/event_serializer.cpp), and of the library it calls   *)
(* (windows-agent/src/nlohmann/json.hpp) what dump() runs for it: objects, *)
(* strings with the default error handler, integers.  A byte is a number.  *)
(***************************************************************************)
EXTENDS Integers, SequencesExt

CONSTANTS
  BufSize,  \* string_buffer: 512
  Margin    \* 13

Backslash == 92
Quote == 34
Hex(d) == IF d < 10 THEN 48 + d ELSE 87 + d

-----------------------------------------------------------------------------
(* decode: the state of a UTF-8 text after one byte more.                  *)
Accept == 0
Reject == 1

Class(b) ==
  CASE b < 128 -> 0
    [] b \in 128..143 -> 1
    [] b \in 144..159 -> 9
    [] b \in 160..191 -> 7
    [] b \in {192, 193} \cup 245..255 -> 8
    [] b \in 194..223 -> 2
    [] b = 224 -> 10
    [] b \in 225..239 \ {237} -> 3
    [] b = 237 -> 4
    [] b = 240 -> 11
    [] b \in 241..243 -> 6
    [] b = 244 -> 5

FirstByte == <<0, 1, 2, 3, 5, 8, 7, 1, 1, 1, 4, 6>>

Decode(state, b) ==
  LET c == Class(b)
  IN CASE state = Accept -> FirstByte[c + 1]
       [] state = 2 /\ c \in {1, 7, 9} -> Accept
       [] state = 3 /\ c \in {1, 7, 9} -> 2
       [] state = 4 /\ c = 7 -> 2
       [] state = 5 /\ c \in {1, 9} -> 2
       [] state = 6 /\ c \in {7, 9} -> 3
       [] state = 7 /\ c \in {1, 7, 9} -> 3
       [] state = 8 /\ c = 1 -> 3
       [] OTHER -> Reject

-----------------------------------------------------------------------------
(* dump_escaped.  A character of one byte may be escaped, the bytes of a   *)
(* longer one are copied.                                                  *)
Named == [b \in {8, 9, 10, 12, 13, Quote, Backslash} |->
            CASE b = 8 -> 98 [] b = 9 -> 116 [] b = 10 -> 110 [] b = 12 -> 102
              [] b = 13 -> 114 [] OTHER -> b]
IsControl(b) == b <= 31 /\ b \notin DOMAIN Named

EscapedByte(b) ==
  IF b \in DOMAIN Named THEN <<Backslash, Named[b]>>
  ELSE IF IsControl(b) THEN <<Backslash, 117, 48, 48, Hex(b \div 16), Hex(b % 16)>>
  ELSE <<b>>

(* buf is string_buffer up to bytes, top how far it was ever written, the  *)
(* 0 of snprintf included.                                                 *)
EscapeStep(w, b) ==
  LET state == Decode(w.state, b)
      single == w.state = Accept /\ state = Accept
      buf == w.buf \o (IF single THEN EscapedByte(b) ELSE <<b>>)
      top == Len(buf) + (IF single /\ IsControl(b) THEN 1 ELSE 0)
      full == state = Accept /\ BufSize - Len(buf) < Margin
  IN IF w.state = Reject \/ state = Reject THEN [w EXCEPT !.state = Reject]
     ELSE [state |-> state,
           out |-> IF full THEN w.out \o buf ELSE w.out,
           buf |-> IF full THEN <<>> ELSE buf,
           top |-> IF top > w.top THEN top ELSE w.top]

DumpEscaped(s) ==
  FoldLeft(EscapeStep, [state |-> Accept, out |-> <<>>, buf |-> <<>>, top |-> 0], s)

(* Otherwise it throws type_error 316.                                     *)
Dumped(s) == DumpEscaped(s).state = Accept
Text(s) == LET w == DumpEscaped(s) IN w.out \o w.buf

-----------------------------------------------------------------------------
RECURSIVE CountDigits(_)
CountDigits(x) ==
  IF x < 10 THEN 1 ELSE IF x < 100 THEN 2 ELSE IF x < 1000 THEN 3
  ELSE IF x < 10000 THEN 4 ELSE 4 + CountDigits(x \div 10000)

(* The digits, two at a time and from the last.                            *)
RECURSIVE DigitsOf(_)
DigitsOf(x) ==
  IF x >= 100 THEN DigitsOf(x \div 100) \o <<48 + ((x % 100) \div 10), 48 + (x % 10)>>
  ELSE IF x >= 10 THEN <<48 + (x \div 10), 48 + (x % 10)>>
  ELSE <<48 + x>>

(* remove_sign: without negating the least integer.                        *)
LastStep(x) == -(x + 1)
RemoveSign(x) == LastStep(x) + 1

Minus == <<45>>
DumpInteger(x) == IF x < 0 THEN Minus \o DigitsOf(RemoveSign(x)) ELSE DigitsOf(x)
CountedChars(x) == IF x < 0 THEN 1 + CountDigits(RemoveSign(x)) ELSE CountDigits(x)

-----------------------------------------------------------------------------
(* dump of an object of strings and integers, whose keys std::map keeps in *)
(* order.  A key is one byte here, and there is one at least.              *)
Quoted(s) == <<Quote>> \o Text(s) \o <<Quote>>
Value(v) == IF DOMAIN v = {"int"} THEN DumpInteger(v.int) ELSE Quoted(v.string)
Member(obj, k) == Quoted(<<k>>) \o <<58>> \o Value(obj[k])

Dump(obj) ==
  LET keys == SetToSortSeq(DOMAIN obj, <)
      ending(i) == <<IF i < Len(keys) THEN 44 ELSE 125>>
  IN <<123>> \o FlattenSeq([i \in DOMAIN keys |-> Member(obj, keys[i]) \o ending(i)])

-----------------------------------------------------------------------------
(* serialize_event: a type has a name, and what is 0 may be left out.      *)
Unknown == 0
TypeName(t) == IF t \in 1..8 \cup 12..16 \cup 19..22 THEN t ELSE Unknown

Optional == {"dst_ip", "dst_port", "src_port"}
Serialized(evt) ==
  [f \in {g \in DOMAIN evt : g \in Optional => evt[g] # 0} |->
     IF f = "event_type" THEN TypeName(evt[f]) ELSE evt[f]]
=============================================================================

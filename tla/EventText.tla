----------------------------- MODULE EventText -----------------------------
(***************************************************************************)
(* The text of an event on its way out of the kernel and of the sensors:   *)
(* the name of a DNS query (ghost_agent.bpf.c), the path in a slot of the  *)
(* ring and the two programs that read it (ghost_agent.c, events.rs), the  *)
(* escaping of the C loader, and the path of the Windows agent             *)
(* (etw_provider.cpp, event_serializer.cpp).  A byte is a number; 0 ends a *)
(* string.                                                                 *)
(***************************************************************************)
EXTENDS Integers, SequencesExt

CONSTANTS
  Window,      \* DNS_BUF_LEN: 128
  Header,      \* the DNS header: 12
  LabelMax,    \* 63
  LabelsMax,   \* 16
  NameMax,     \* 62
  Dot,         \* the byte '.'
  PathSize,    \* path[64], path[56] on Windows
  EscSize,     \* the buffer of json_str
  Lead, Cont   \* the two bytes of a character of two bytes

Smallest(S) == CHOOSE x \in S : \A y \in S : x <= y

(* The first n elements of s.                                              *)
Cut(s, n) == SubSeq(s, 1, Smallest({n, Len(s)}))

-----------------------------------------------------------------------------
(* if (out < 62) { e->path[out] = '.'; out++; }                            *)
Dotted(name) == IF Len(name) < NameMax THEN Append(name, Dot) ELSE name

(* try_parse_dns_query: the two loops, from offset pos on.                 *)
RECURSIVE Labels(_, _, _, _)
Labels(buf, pos, name, n) ==
  LET len == buf[pos + 1]
      taken == Smallest({len, Window - 2 - pos, NameMax - Len(name)})
  IN IF n = LabelsMax \/ pos >= Window - 1 \/ Len(name) >= NameMax
          \/ len = 0 \/ len > LabelMax
       THEN name
       ELSE Labels(buf, pos + 1 + taken,
                   Dotted(name \o SubSeq(buf, pos + 2, pos + 1 + taken)), n + 1)

(* buf is the window: the message of n bytes and what follows it in the    *)
(* memory of the sender.                                                   *)
DnsName(buf, n) ==
  IF n < Header + 1 \/ n > Window THEN <<>>
  ELSE LET name == Labels(buf, Header, <<>>, 0)
       IN IF name # <<>> /\ Last(name) = Dot THEN Front(name) ELSE name

(* What it should read of a query for these labels, by the text of the     *)
(* name and not of the message.                                            *)
NameOf(labels) ==
  LET text == Cut(FlattenSeq([i \in DOMAIN labels |-> Append(labels[i], Dot)]), NameMax)
  IN IF text # <<>> /\ Last(text) = Dot THEN Front(text) ELSE text

Message(labels) ==
  [i \in 1..Header |-> 0]
    \o FlattenSeq([i \in DOMAIN labels |-> <<Len(labels[i])>> \o labels[i]]) \o <<0>>

-----------------------------------------------------------------------------
(* json_str: a byte is written as it is, with a backslash, or as \u00XX.   *)
Width == [plain |-> 1, quoted |-> 2, control |-> 6]

Reserve == EscSize - 7

(* How many bytes of src are written: until one starts beyond the reserve. *)
RECURSIVE Escaped(_, _, _)
Escaped(src, done, di) ==
  IF done = Len(src) \/ di >= Reserve THEN <<done, di>>
  ELSE Escaped(src, done + 1, di + Width[src[done + 1]])

-----------------------------------------------------------------------------
(* bpf_probe_read_user_str and bpf_probe_read_kernel_str into e->path: the *)
(* string and its end.  The memory of the ring is not cleared, so what     *)
(* follows is left of an earlier event.                                    *)
Written(slot, s) ==
  LET text == Append(Cut(s, PathSize - 1), 0)
  IN [i \in 1..PathSize |-> IF i <= Len(text) THEN text[i] ELSE slot[i]]

(* ghost_agent.c reads a C string.                                         *)
LoaderPath(slot) ==
  IF 0 \notin Range(slot) THEN slot
  ELSE Cut(slot, Smallest({i \in 1..PathSize : slot[i] = 0}) - 1)

(* Whether bytes are UTF-8: a Cont follows every Lead and nothing else.    *)
IsUtf8(s) ==
  /\ \A i \in DOMAIN s : s[i] = Lead => i < Len(s) /\ s[i + 1] = Cont
  /\ \A i \in DOMAIN s : s[i] = Cont => i > 1 /\ s[i - 1] = Lead

RECURSIVE Trimmed(_)
Trimmed(s) == IF s # <<>> /\ Last(s) = 0 THEN Trimmed(Front(s)) ELSE s

(* GhostEvent::from_raw: from_utf8 of the whole array, or "", then         *)
(* trim_end_matches.                                                       *)
AgentPath(slot) == IF IsUtf8(slot) THEN Trimmed(slot) ELSE <<>>

(* The Windows agent: strncpy of the UTF-8 into a cleared event, and       *)
(* serialize_event, which throws for anything but UTF-8.                   *)
WindowsPath(s) == Cut(s, PathSize - 1)
Dumps(s) == IsUtf8(WindowsPath(s))
=============================================================================

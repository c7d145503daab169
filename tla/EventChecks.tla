---------------------------- MODULE EventChecks ----------------------------
(***************************************************************************)
(* EventText, JsonText and HostRules against what they are for, over every *)
(* input of a bounded set: TLC evaluates the assumptions.  Each size is    *)
(* scaled down, in the relations that the sizes have in the code, so that  *)
(* every limit is reached.                                                 *)
(***************************************************************************)
EXTENDS HostRules, Sequences, FiniteSets

LOCAL INSTANCE EventText WITH
  Window <- 10, Header <- 1, LabelMax <- 3, LabelsMax <- 3, NameMax <- 5,
  Dot <- 2, PathSize <- 4, EscSize <- 16, Lead <- 7, Cont <- 8
LOCAL INSTANCE JsonText WITH BufSize <- 20, Margin <- 13
LOCAL INSTANCE SequencesExt

LOCAL UpTo(S, n) == UNION {[1..k -> S] : k \in 0..n}

-----------------------------------------------------------------------------
(* Labels of up to three letters, of which one may be a dot.               *)
LOCAL SomeLabels == {<<5>>, <<2>>, <<5, 5>>, <<5, 2>>, <<5, 5, 5>>}
LOCAL Queries == {q \in UpTo(SomeLabels, 4) : Len(Message(q)) <= 10}
LOCAL Behind(b) == [i \in 1..10 |-> b]

(* try_parse_dns_query reads a query that fits its window as its name, cut *)
(* to 62 bytes and 16 labels, whatever lies behind the message in memory.  *)
ASSUME DnsNameRead ==
  \A q \in Queries, b \in {0, 1, 5} :
    DnsName(Cut(Message(q) \o Behind(b), 10), Len(Message(q)))
      = NameOf(Cut(q, 3))

(* Whatever the bytes are, a length, the dot or a letter that is no valid  *)
(* length, it reads inside the window and writes inside the path.          *)
ASSUME DnsNameFits ==
  \A w \in [1..9 -> {0, 2, 5}] : Len(DnsName(<<0>> \o w, 10)) <= 5

-----------------------------------------------------------------------------
(* json_str: the text and its end fit the buffer, no escape is cut in two, *)
(* and what is cut off would not have fitted before the reserve.           *)
ASSUME EscapedFits ==
  \A src \in UpTo(DOMAIN Width, 7) :
    LET e == Escaped(src, 0, 0)
    IN e[2] <= 16 - 1 /\ (e[1] < Len(src) => e[2] >= Reserve)

-----------------------------------------------------------------------------
LOCAL Slots == [1..4 -> {0, 5, 7, 8}]
LOCAL Strings == {FlattenSeq(c) : c \in UpTo({<<5>>, <<6>>, <<7, 8>>}, 4)}

(* The C loader reads the path that the probe wrote, over whatever older   *)
(* one, cut to the room there is.                                          *)
ASSUME LoaderReadsWritten ==
  \A slot \in Slots, s \in Strings : LoaderPath(Written(slot, s)) = Cut(s, 3)

(* The Rust agent reads every path from a cleared slot only (a path takes  *)
(* the first two bytes itself): elsewhere what an older event left behind  *)
(* the end is part of the path, or makes it no UTF-8 and so no path.       *)
(* Nobody clears the ring.                                                 *)
LOCAL AgentReadsWritten(slot) ==
  \A s \in Strings : Len(s) \in 1..3 => AgentPath(Written(slot, s)) = s
ASSUME AgentReadsCleared ==
  {slot \in Slots : AgentReadsWritten(slot)} = {slot \in Slots : \A i \in 3..4 : slot[i] = 0}

(* The Windows agent turns every path into JSON that is not cut inside a   *)
(* character; for the others dump() throws, and nobody catches it.         *)
ASSUME WholePathDumps ==
  \A s \in Strings : Dumps(s) <=> (Len(s) <= 3 \/ s[3] # 7)

-----------------------------------------------------------------------------
(* The characters of UTF-8, by the table of the Unicode standard.          *)
LOCAL Follows == 128..191
LOCAL IsCharacter(s) ==
  \/ Len(s) = 1 /\ s[1] < 128
  \/ Len(s) = 2 /\ s[1] \in 194..223 /\ s[2] \in Follows
  \/ /\ Len(s) = 3 /\ s[3] \in Follows
     /\ \/ s[1] = 224 /\ s[2] \in 160..191
        \/ s[1] \in 225..239 \ {237} /\ s[2] \in Follows
        \/ s[1] = 237 /\ s[2] \in 128..159
  \/ /\ Len(s) = 4 /\ s[3] \in Follows /\ s[4] \in Follows
     /\ \/ s[1] = 240 /\ s[2] \in 144..191
        \/ s[1] \in 241..243 /\ s[2] \in Follows
        \/ s[1] = 244 /\ s[2] \in 128..143

LOCAL Decoded(s) == FoldLeft(Decode, Accept, s)
LOCAL Edges == {0, 127, 128, 143, 144, 159, 160, 191, 192, 193, 194, 223, 224, 225,
                236, 237, 238, 239, 240, 241, 243, 244, 245, 255}

(* decode comes back to Accept at the ends of characters only: every text  *)
(* that it accepts, and no other, is UTF-8.                                *)
ASSUME DecodesUtf8 ==
  /\ \A s \in UNION {[1..k -> Edges] : k \in 1..3} :
       Decoded(s) = Accept
         <=> \E i \in 0..Len(s) - 1 :
               Decoded(SubSeq(s, 1, i)) = Accept /\ IsCharacter(SubSeq(s, i + 1, Len(s)))
  /\ \A a \in 240..245, b \in Edges, c, d \in {127, 128, 191, 192} :
       Decoded(<<a, b, c, d>>) = Accept <=> IsCharacter(<<a, b, c, d>>)

LOCAL Characters == {<<0>>, <<34>>, <<65>>, <<240, 159, 154, 128>>}
LOCAL Others == {<<10>>, <<31>>, <<92>>, <<127>>, <<195, 164>>}
LOCAL Texts == {FlattenSeq(c) : c \in UpTo(Characters, 4) \cup UpTo(Characters \cup Others, 2)}

(* How a reader of JSON reads the text of a string.                        *)
LOCAL Escapes == [c \in {34, 92, 98, 116, 110, 102, 114} |->
  CASE c = 98 -> 8 [] c = 116 -> 9 [] c = 110 -> 10 [] c = 102 -> 12 [] c = 114 -> 13 [] OTHER -> c]
LOCAL Digit(c) == IF c <= 57 THEN c - 48 ELSE c - 87
LOCAL Read[t \in Seq(0..255)] ==
  IF t = <<>> THEN <<>>
  ELSE IF t[1] # Backslash THEN <<t[1]>> \o Read[Tail(t)]
  ELSE IF t[2] = 117 THEN <<16 * Digit(t[5]) + Digit(t[6])>> \o Read[SubSeq(t, 7, Len(t))]
  ELSE <<Escapes[t[2]]>> \o Read[SubSeq(t, 3, Len(t))]

(* dump_escaped: what a reader gets is the string, however often the       *)
(* buffer was written out; nothing is ever written beyond its end; and the *)
(* text has neither the byte that ends the string nor one that ends the    *)
(* line, so that an event is one line of the stream to the pipeline.       *)
ASSUME StringsReadBack ==
  \A s \in Texts :
    LET w == DumpEscaped(s)
    IN /\ Dumped(s) /\ Read[Text(s)] = s
       /\ w.top <= 20
       /\ \A i \in DOMAIN Text(s) :
            /\ Text(s)[i] > 31
            /\ Text(s)[i] = Quote => i > 1 /\ Text(s)[i - 1] = Backslash

(* dump_integer: as many characters as were counted, the value of its      *)
(* digits, and no leading zero; the sign is removed without leaving the    *)
(* signed integers.                                                        *)
LOCAL ValueOf(ds) == FoldLeft(LAMBDA n, c : 10 * n + c - 48, 0, ds)
ASSUME IntegersDumped ==
  /\ \A x \in -512..511 \cup {9999, 10000, 65535, 99999, 100000, 12345678} :
       LET t == DumpInteger(x)
           ds == IF x < 0 THEN Tail(t) ELSE t
       IN /\ Len(t) = CountedChars(x)
          /\ ValueOf(ds) = (IF x < 0 THEN -x ELSE x)
          /\ x < 0 => t[1] = 45
          /\ ds[1] = 48 => x = 0
  /\ \A x \in -512..-1 : LastStep(x) \in -512..511

(* dump: two objects never have one text.                                  *)
LOCAL Values == {[int |-> -1], [int |-> 10], [string |-> <<>>], [string |-> <<34, 44>>]}
LOCAL Objects == UNION {[ks -> Values] : ks \in (SUBSET {65, 66, 92}) \ {{}}}
ASSUME ObjectsDumped ==
  Cardinality({Dump(o) : o \in Objects}) = Cardinality(Objects)

(* serialize_event: the types that the ETW provider and the process hook   *)
(* give an event have a name.                                              *)
LOCAL Emitted == 1..7 \cup {13, 16}
ASSUME EmittedNamed == \A t \in Emitted : TypeName(t) # Unknown

-----------------------------------------------------------------------------
LOCAL Hard(e) == Inv1(e) \/ Inv2(e) \/ Inv4(e) \/ Inv5(e) \/ Inv6(e)

(* process_hook.c calls its six rules "always CRITICAL" (line 18).  Five   *)
(* are, whatever else holds of the process; a tool of the third alone is   *)
(* only high.                                                              *)
ASSUME HardRulesCritical ==
  \A e \in NewProcesses :
    /\ Classified(e).severity = "critical" <=> Hard(e)
    /\ Classified(e).severity = "high" <=> ~Hard(e) /\ Inv3(e)

(* coverage_mode.cpp: the Ghost layers that a host is said to have.  More  *)
(* than line 191 says, "eBPF-for-Windows GA requires Win11 22H2+ (build    *)
(* 22621+)": Windows Server 2022 too, and so a later build may have less.  *)
ASSUME CoverageByBuild ==
  \A build \in {10240, 16298, 16299, 19045, 20347, 20348, 21999, 22000, 22620, 22621, 26100} :
    LET v == Coverage(TRUE, build)
    IN /\ v.ebpf => v.etwTi
       /\ v.ebpf /\ build < Win11With22H2 => build \in Server2022..(Win11 - 1)
       /\ (v.level = "full") = v.ebpf

(* The badge and the level of a report differ exactly where the version is *)
(* not known: the report then says "standard".                             *)
ASSUME ReportAndBadge ==
  \A ten \in BOOLEAN, build \in {10240, 22000, 22621} :
    Badge(Coverage(ten, build)) = Reported(Coverage(ten, build)) <=> ten

-----------------------------------------------------------------------------
LOCAL Defaults == [k \in Settings |-> "default"]
LOCAL Lines == {HeadLine("pipeline"), HeadLine("other"), OtherLine} \cup
  {EntryLine(k, v) : k \in {"port", "host"}, v \in {"", "1", "2", "word"}}

(* The configuration: a setting has its last usable value under a head     *)
(* [pipeline], however often there is one, and the compiled one without.   *)
ASSUME LastUsableValue ==
  \A lines \in UpTo(Lines, 4), k \in Settings :
    LET heads(i) == {h \in 1..i : "section" \in DOMAIN lines[h]}
        counted == {i \in DOMAIN lines :
                      /\ "key" \in DOMAIN lines[i] /\ lines[i].key = k
                      /\ lines[i].value \notin (IF k = "port" THEN {"", "word"} ELSE {""})
                      /\ heads(i) # {} /\ lines[Max(heads(i))].section = "pipeline"}
    IN ReadConfig(lines, Defaults)[k]
         = (IF counted = {} THEN "default" ELSE lines[Max(counted)].value)

(* A property is read where it begins exactly if every one before it with  *)
(* a size could be formatted; otherwise what is read is garbage.            *)
LOCAL Properties == [name : {"FileKey", "FileName"}, size : 0..2, formats : BOOLEAN]
ASSUME PropertyRead ==
  \A schema \in UpTo(Properties, 3) :
    LET named == {i \in DOMAIN schema : schema[i].name = "FileName"}
        first == Min(named)
        read == ReadProperty(schema, "FileName")
    IN IF named = {} \/ ~schema[first].formats THEN read = ""
       ELSE read = "FileName"
              <=> \A i \in 1..first - 1 : schema[i].formats \/ schema[i].size = 0
=============================================================================

----------------------------- MODULE HostRules -----------------------------
(***************************************************************************)
(* Decisions of the Windows agent that depend on one input only: the rules *)
(* of process_hook.c for a new process, what coverage_mode.cpp makes of    *)
(* the version of Windows, how pipeline_forwarder.cpp reads its settings,  *)
(* and how etw_provider.cpp finds a property of a record.                  *)
(***************************************************************************)
EXTENDS Integers, Sequences

LOCAL INSTANCE SequencesExt

(* A new process: where it lies, the tool it is, the text of its command   *)
(* line, and whether its parent is an office program or a browser.         *)
NewProcesses ==
  [suspicious : BOOLEAN,
   image : {"certutil", "mshta", "regsvr32", "lolbin", "other"},
   args : {"url", "script", "plain"},  \* http://, /i:http, neither
   sterile : BOOLEAN]

(* The six rules of the header of process_hook.c.  "/i:http://" is a URL   *)
(* too.                                                                    *)
HasUrl(e) == e.args \in {"url", "script"}
Inv1(e) == e.suspicious
Inv2(e) == e.sterile
Inv3(e) == e.image # "other"
Inv4(e) == e.image = "certutil" /\ HasUrl(e)
Inv5(e) == e.image = "mshta" /\ HasUrl(e)
Inv6(e) == e.image = "regsvr32" /\ e.args = "script"

(* classify_event: the first rule that holds, in the order of the code.    *)
Classified(e) ==
  CASE Inv1(e) -> [rule |-> 1, severity |-> "critical"]
    [] ~Inv1(e) /\ Inv4(e) -> [rule |-> 4, severity |-> "critical"]
    [] ~Inv1(e) /\ Inv5(e) -> [rule |-> 5, severity |-> "critical"]
    [] ~Inv1(e) /\ Inv6(e) -> [rule |-> 6, severity |-> "critical"]
    [] ~Inv1(e) /\ ~Inv4(e) /\ ~Inv5(e) /\ ~Inv6(e) /\ Inv2(e) ->
         [rule |-> 2, severity |-> "critical"]
    [] ~Inv1(e) /\ ~Inv4(e) /\ ~Inv5(e) /\ ~Inv6(e) /\ ~Inv2(e) /\ Inv3(e) ->
         [rule |-> 3, severity |-> "high"]
    [] OTHER -> [rule |-> 0, severity |-> "info"]

-----------------------------------------------------------------------------
Win11 == 22000
Win11With22H2 == 22621
Server2022 == 20348
Win10WithEtwTi == 16299

(* CoverageMode::classify of a version 10.0, and of any other.             *)
Coverage(ten, build) ==
  LET ebpf == build >= Win11With22H2 \/ build \in Server2022..(Win11 - 1)
  IN IF ~ten THEN [level |-> "unknown", ebpf |-> FALSE, etwTi |-> FALSE]
     ELSE [level |-> IF ebpf THEN "full" ELSE "standard",
           ebpf |-> ebpf, etwTi |-> build >= Win10WithEtwTi]

(* detect() when RtlGetVersion fails.                                      *)
Undetected == [level |-> "standard", ebpf |-> FALSE, etwTi |-> TRUE]

(* to_json: the level of the report, and badge_string().                   *)
Reported(v) == IF v.level = "full" THEN "full" ELSE "standard"
Badge(v) == v.level

-----------------------------------------------------------------------------
(* read_pipeline_config and read_api_key_from_config: a line is the head   *)
(* of a section, an entry, or neither; stoi throws for a port that is no   *)
(* number, and the port stays.                                             *)
HeadLine(name) == [section |-> name]
EntryLine(key, value) == [key |-> key, value |-> value]
OtherLine == [other |-> TRUE]

Settings == {"host", "port", "api_key"}
Usable(key, value) == value # "" /\ (key = "port" => value # "word")

ReadLine(c, line) ==
  IF "section" \in DOMAIN line THEN [c EXCEPT !.inside = line.section = "pipeline"]
  ELSE IF /\ c.inside /\ "key" \in DOMAIN line
          /\ line.key \in Settings /\ Usable(line.key, line.value)
         THEN [c EXCEPT !.values[line.key] = line.value]
  ELSE c

ReadConfig(lines, defaults) ==
  FoldLeft(ReadLine, [inside |-> FALSE, values |-> defaults], lines).values

-----------------------------------------------------------------------------
(* read_property_wstr: a record has no offsets.  The properties before the *)
(* wanted one are formatted to learn their sizes; one that cannot be       *)
(* formatted counts as nothing.  TDH finds at an offset the property that  *)
(* begins there, or garbage.                                               *)
Garbage == "garbage"
SkippedBytes(property) == IF property.formats THEN property.size ELSE 0

ReadProperty(schema, wanted) ==
  LET named == {i \in DOMAIN schema : schema[i].name = wanted}
      n == Min(named)
      walked == MapThenSumSet(LAMBDA i : SkippedBytes(schema[i]), 1..n - 1)
      begins == MapThenSumSet(LAMBDA i : schema[i].size, 1..n - 1)
  IN IF named = {} \/ ~schema[n].formats THEN ""
     ELSE IF walked = begins THEN wanted ELSE Garbage
=============================================================================

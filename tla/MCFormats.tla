------------------------------ MODULE MCFormats -----------------------------
(***************************************************************************)
(* All that is read and written: the inputs of CodecChecks, one at a time, *)
(* and as one more kind of input the files of LdfParserChecks.             *)
(***************************************************************************)
EXTENDS CodecChecks, LdfParserChecks

(* The parser at rest, while another codec has its input.                  *)
AtRest ==
  /\ lines = <<>> /\ pos = 1 /\ pc = "done" /\ fresh = FALSE
  /\ fr = NoFrame /\ table = NoTable /\ db = NoDB /\ doc = NoDoc

File == [codec |-> "file"]

FormatsInit == (InputInit /\ AtRest) \/ (in = File /\ ChecksInit)

ReadFile == in = File /\ ChecksNext /\ UNCHANGED in
GrowInput == in # File /\ (Grow \/ Full) /\ UNCHANGED <<vars, doc>>

(* Parse is a loop that is never left early.                               *)
FormatsSpec == FormatsInit /\ [][ReadFile \/ GrowInput]_<<vars, doc, in>>
                 /\ WF_<<vars, doc, in>>(ReadFile)

-----------------------------------------------------------------------------
(* Damaged files: a file with every section, with up to two of its lines   *)
(* replaced by any other line, and any part of it, cut off at either end.  *)

MCFile ==
  <<L("attr", "LIN_speed", 19, 0, "none"),
    L("keyword", "Nodes", 0, 0, "end"),
    L("master", "M", 0, 0, "none"), L("slaves", "", <<"A", "B">>, 0, "none"), Close,
    L("keyword", "Signals", 0, 0, "none"), Open, L("signal", "s", 8, 0, "none"), Close,
    L("keyword", "Frames", 0, 0, "end"),
    L("frame", "F", 1, 8, "end"), RenderRef("s"), Close,
    L("frame", "G", 2, 4, "end"), Close, Close,
    L("keyword", "Schedule_tables", 0, 0, "none"), Open,
    L("table", "T", 0, 0, "end"), RenderEntry("F"), RenderEntry("G"), Close, Close>>

(* Lines a damaged file may have instead: numbers out of range or no       *)
(* numbers, a name that is not declared, a name declared twice.            *)
MCLines ==
  {Open, Close, L("long", "", 0, 0, "none"), L("other", "", 0, 0, "none"),
   L("frame", "F", 64, 8, "end"), L("frame", "F", 1, 9, "end"), L("frame", "F", NaN, 8, "end"),
   L("frame", "F", 3, 2, "end"), L("frame", "H", 1, 2, "inline"),
   L("ref", "s", -1, 0, "none"), L("ref", "s", NaN, 0, "none"),
   RenderEntry("H"), L("entry", "F", NaN, 0, "none"), L("assign", "F", 10, 0, "inline")}

MCTexts ==
  LET n == Len(MCFile)
      cut == {SubSeq(MCFile, i, j) : i \in 1..n, j \in 0..n}
      hit == {[MCFile EXCEPT ![i] = k, ![j] = l] : i, j \in 1..n, k, l \in MCLines}
  IN  cut \cup hit

Decl(name, id, len) == [Name |-> name, ID |-> id, Length |-> len,
                        refs |-> IF len = 8 THEN <<"s", "t">> ELSE <<>>]

(* Two frames, a third that takes the identifier of the first, two that    *)
(* are out of range.                                                       *)
MCDecls == {Decl("F", 1, 8), Decl("G", 2, 2), Decl("H", 1, 4), Decl("X", 64, 8), Decl("Y", 3, 9)}
=============================================================================

--------------------------- MODULE LdfParserChecks --------------------------
(***************************************************************************)
(* The parser against what the files mean.  A document is a list of frame  *)
(* declarations and one schedule table; Render writes it out as lines and  *)
(* Meaning says, without a cursor, which database it declares.             *)
(***************************************************************************)
EXTENDS LdfParser, SequencesExt

CONSTANTS
  Decls,        \* frame declarations: name, ID, Length, the signals
  MaxFrames,    \* declarations in a document
  EntryNames,   \* names the schedule entries use
  MaxEntries

VARIABLE doc   \* what the lines were made of, NoDoc for any other text

NoDoc == [frames |-> <<>>, entries |-> <<>>, style |-> "text"]

Distinct(s) == \A i, j \in DOMAIN s : s[i].Name = s[j].Name => i = j

Docs == [frames : {s \in BoundedSeq(Decls, MaxFrames) : Distinct(s)},
         entries : BoundedSeq(EntryNames, MaxEntries),
         style : {"end", "none"}]

RenderRef(name)   == L("ref", name, 4, 0, "none")
RenderEntry(name) == L("entry", name, 10, 0, "none")

(* The header, the signals and the brace have lines of their own.          *)
RenderFrame(d) ==
  <<L("frame", d.Name, d.ID, d.Length, "end")>>
  \o [i \in DOMAIN d.refs |-> RenderRef(d.refs[i])] \o <<Close>>

(* A section with its brace on the keyword's line or on the next.          *)
RenderSection(keyword, style, body) ==
  <<L("keyword", keyword, 0, 0, style)>>
  \o (IF style = "end" THEN <<>> ELSE <<Open>>) \o body \o <<Close>>

Render(d) ==
  RenderSection("Frames", d.style, FlattenSeq([i \in DOMAIN d.frames |-> RenderFrame(d.frames[i])]))
  \o RenderSection("Schedule_tables", d.style,
       <<L("table", "T", 0, 0, "end")>>
       \o [i \in DOMAIN d.entries |-> RenderEntry(d.entries[i])] \o <<Close>>)

ChecksInit ==
  /\ \/ doc \in Docs /\ lines = Render(doc)
     \/ doc = NoDoc /\ lines \in Texts
  /\ Start

ChecksNext == (Parse \/ Finished) /\ UNCHANGED doc

-----------------------------------------------------------------------------
Valid(d) == d.ID \in 0..LINMaxID /\ d.Length \in 0..LINMaxDataLen

(* The declaration an identifier keeps: the last valid one.                *)
Kept(d, id) ==
  LET s == SelectSeq(d.frames, LAMBDA f : Valid(f) /\ f.ID = id)
  IN  s[Len(s)]

KeptIDs(d) == {f.ID : f \in {g \in ToSet(d.frames) : Valid(g)}}

MeantFrames(d) ==
  [id \in KeptIDs(d) |->
     LET f == Kept(d, id)
     IN  [Name |-> f.Name, ID |-> id, Length |-> f.Length,
          Signals |-> [i \in DOMAIN f.refs |-> [Name |-> f.refs[i], BitOffset |-> 4]]]]

(* The slots of the table: the entries that name a frame that is kept.     *)
MeantSlots(d) ==
  LET id(name) == {i \in KeptIDs(d) : Kept(d, i).Name = name}
      kept     == SelectSeq(d.entries, LAMBDA name : id(name) # {})
  IN  [i \in DOMAIN kept |-> [ID |-> CHOOSE j \in id(kept[i]) : TRUE, DelayMs |-> 10]]

(* REQ-LDF-005, -006, -011: a file is read as what it declares; a frame    *)
(* with a bad header, and its body on the lines below, costs that frame    *)
(* and the slots that name it, and not the frames, the section or the      *)
(* table after it.                                                         *)
ParsesMeaning ==
  doc # NoDoc /\ Ended =>
    /\ pc = "done"
    /\ db.frames = MeantFrames(doc)
    /\ db.schedules = [t \in {"T"} |-> MeantSlots(doc)]
=============================================================================

----------------------------- MODULE LdfParser ------------------------------
(***************************************************************************)
(* The LDF parser of ldf/parser.go: a cursor over the non-empty lines of   *)
(* the file, one loop per section, loops inside for the bodies of frames   *)
(* and schedule tables.  One step handles one line, as one turn of a loop  *)
(* does, or the end of the file.                                           *)
(*                                                                         *)
(* A line is what the string tests of the parser tell apart: its kind k, a *)
(* name, up to two numbers (NaN when they do not parse) and its brace:     *)
(* "end" when it ends in "{", "inline" when it holds one, else "none".     *)
(*   keyword  Frames {          frame   F : 1, M, 8 {    table  T {        *)
(*   attr     LIN_speed = ...   ref     s, 0;            entry  F delay 10 *)
(*   master, slaves             signal  s : 8, 0, M, S;  open { close } .. *)
(* Other kinds match no test; a "long" line is over the scanner's limit.   *)
(* Delays and initial values are not negative and fit their types.         *)
(***************************************************************************)
EXTENDS LinFrame, FiniteSets

CONSTANTS
  Texts,   \* the files parsed: sequences of lines
  NaN      \* text that is not a number

VARIABLES
  lines, pos,  \* ldfParser
  pc,          \* the loop it is in
  fresh,       \* it is at the optional "{" of a section
  fr,          \* parseFrames: the frame under construction
  table,       \* parseScheduleTables: name and entries so far
  db           \* DB

vars == <<lines, pos, pc, fresh, fr, table, db>>

L(k, name, a, b, brace) == [k |-> k, name |-> name, a |-> a, b |-> b, brace |-> brace]
Open  == L("open", "", 0, 0, "end")
Close == L("close", "", 0, 0, "none")

Section == {"Nodes", "Signals", "Frames", "Schedule_tables"}
NoFrame == [Name |-> "", ID |-> 0, Length |-> 0, Signals |-> <<>>]
NoTable == [name |-> "", entries |-> <<>>]

(* Frames, signals and schedules are maps, here functions of their keys.   *)
NoDB == [attr |-> <<>>, nodes |-> <<>>, frames |-> <<>>, signals |-> <<>>, schedules |-> <<>>]
Store(f, key, value) == [x \in DOMAIN f \cup {key} |-> IF x = key THEN value ELSE f[x]]

Start ==
  /\ pos = 1
  /\ pc = "scan" /\ fresh = FALSE
  /\ fr = NoFrame /\ table = NoTable
  /\ db = NoDB

Init == lines \in Texts /\ Start

AtEnd == pos > Len(lines)
Line  == lines[pos]
Is(kind) == ~AtEnd /\ Line.k = kind

Next1    == pos' = pos + 1 /\ UNCHANGED lines
Stay(p)  == pc' = p /\ fresh' = FALSE
InLoop(p) == pc = p /\ ~AtEnd /\ ~(fresh /\ Line.k = "open")

Number(n) == IF n = NaN THEN 0 ELSE n

-----------------------------------------------------------------------------
(* parse reads all the lines first, or fails on one.                       *)
Scan ==
  /\ pc = "scan"
  /\ Stay(IF \E i \in DOMAIN lines : lines[i].k = "long" THEN "error" ELSE "top")
  /\ UNCHANGED <<lines, pos, fr, table, db>>

(* parseTop: a keyword enters its section, a property is set, anything     *)
(* else is skipped.                                                        *)
Top ==
  /\ pc = "top" /\ ~AtEnd
  /\ Next1
  /\ IF Line.k = "keyword" THEN pc' = Line.name /\ fresh' = TRUE ELSE UNCHANGED <<pc, fresh>>
  /\ db' = IF Line.k = "attr" THEN [db EXCEPT !.attr = Store(@, Line.name, Line.a)] ELSE db
  /\ UNCHANGED <<fr, table>>

TopEnd == pc = "top" /\ AtEnd /\ Stay("done") /\ UNCHANGED <<lines, pos, fr, table, db>>

(* The "{" of a section, when it is on a line of its own.                  *)
SkipBrace ==
  /\ pc \in Section /\ fresh /\ Is("open")
  /\ Next1 /\ Stay(pc)
  /\ UNCHANGED <<fr, table, db>>

(* "}" ends a section; the end of the file in one is an error.             *)
EndSection ==
  /\ pc \in Section
  /\ \/ Is("close") /\ Next1 /\ Stay("top")
     \/ AtEnd /\ Stay("error") /\ UNCHANGED <<lines, pos>>
  /\ UNCHANGED <<fr, table, db>>

ParseNodes ==
  /\ InLoop("Nodes") /\ Line.k # "close"
  /\ Next1 /\ Stay("Nodes")
  /\ db' = [db EXCEPT !.nodes =
       CASE Line.k = "master" -> Store(@, "Master", <<Line.name>>)
         [] Line.k = "slaves" ->
              Store(@, "Slaves", (IF "Slaves" \in DOMAIN @ THEN @["Slaves"] ELSE <<>>) \o Line.a)
         [] OTHER -> @]
  /\ UNCHANGED <<fr, table>>

(* Any line with a colon and three fields is a signal here, a frame header *)
(* and Master: M, 5 ms, 0.1 ms too; numbers that do not parse are 0.       *)
ParseSignals ==
  /\ InLoop("Signals") /\ Line.k # "close"
  /\ Next1 /\ Stay("Signals")
  /\ db' = CASE Line.k = "signal" ->
                  [db EXCEPT !.signals = Store(@, Line.name,
                     [BitWidth |-> Number(Line.a), InitValue |-> Number(Line.b)])]
             [] Line.k = "frame" ->
                  [db EXCEPT !.signals = Store(@, Line.name,
                     [BitWidth |-> Number(Line.a), InitValue |-> 0])]
             [] Line.k = "master" ->
                  [db EXCEPT !.signals = Store(@, "Master", [BitWidth |-> 0, InitValue |-> 0])]
             [] OTHER -> db
  /\ UNCHANGED <<fr, table>>

(* parseFrameHeader: what it accepts.                                      *)
HeaderUnchecked(l) == l.k = "frame" /\ l.brace = "end" /\ l.a # NaN /\ l.b # NaN  \* mutant

HeaderOK(l) ==
  /\ l.k = "frame" /\ l.brace = "end"
  /\ l.a # NaN /\ l.a \in 0..LINMaxID
  /\ l.b # NaN /\ l.b \in 0..LINMaxDataLen

NoSkip == "Frames"  \* mutant of AfterBadHeader: the body is not skipped

(* Where the loop goes on after a header it cannot use.                    *)
AfterBadHeader == "skip"

(* A line with a brace is a header, good or bad; any other is skipped.     *)
ParseFrames ==
  /\ InLoop("Frames") /\ Line.k # "close"
  /\ Next1
  /\ \/ /\ Line.brace # "none" /\ HeaderOK(Line)
        /\ fr' = [Name |-> Line.name, ID |-> Line.a, Length |-> Line.b, Signals |-> <<>>]
        /\ Stay("body")
     \/ Line.brace # "none" /\ ~HeaderOK(Line) /\ Stay(AfterBadHeader) /\ UNCHANGED fr
     \/ Line.brace = "none" /\ Stay("Frames") /\ UNCHANGED fr
  /\ UNCHANGED <<table, db>>

(* Mutant of SkipBody: it only stops at a brace.                           *)
SkipSpins ==
  /\ pc = "skip"
  /\ \/ ~AtEnd /\ Next1 /\ Stay(IF Line.k = "close" THEN "Frames" ELSE "skip")
     \/ AtEnd /\ UNCHANGED <<lines, pos, pc, fresh>>
  /\ UNCHANGED <<fr, table, db>>

(* The rest of a frame whose header was bad.                               *)
SkipBody ==
  /\ pc = "skip"
  /\ \/ ~AtEnd /\ Next1 /\ Stay(IF Line.k = "close" THEN "Frames" ELSE "skip")
     \/ AtEnd /\ Stay("Frames") /\ UNCHANGED <<lines, pos>>
  /\ UNCHANGED <<fr, table, db>>

(* Signal references; one with a bad or negative offset is left out.       *)
ParseRef ==
  /\ pc = "body" /\ ~AtEnd /\ Line.k # "close"
  /\ Next1 /\ Stay("body")
  /\ fr' = IF Line.k = "ref" /\ Line.a # NaN /\ Line.a >= 0
           THEN [fr EXCEPT !.Signals = Append(@, [Name |-> Line.name, BitOffset |-> Line.a])]
           ELSE fr
  /\ UNCHANGED <<table, db>>

(* The frame is stored at its "}" or at the end of the file.               *)
EndFrame ==
  /\ pc = "body"
  /\ \/ Is("close") /\ Next1
     \/ AtEnd /\ UNCHANGED <<lines, pos>>
  /\ Stay("Frames")
  /\ db' = [db EXCEPT !.frames = Store(@, fr.ID, fr)]
  /\ UNCHANGED <<fr, table>>

-----------------------------------------------------------------------------
(* Any line that ends in "{" opens a table here, under the line's text.    *)
ParseTables ==
  /\ InLoop("Schedule_tables") /\ Line.k # "close"
  /\ Next1
  /\ IF Line.brace = "end"
     THEN table' = [name |-> Line.name, entries |-> <<>>] /\ Stay("entries")
     ELSE Stay("Schedule_tables") /\ UNCHANGED table
  /\ UNCHANGED <<fr, db>>

(* frameIDByName ranges over the map and takes the first match, so any     *)
(* frame of that name; none gives 0xFF.                                    *)
frameIDByName(name) ==
  LET ids == {id \in DOMAIN db.frames : db.frames[id].Name = name}
  IN  IF ids = {} THEN {255} ELSE ids

ParseEntry ==
  /\ pc = "entries" /\ ~AtEnd /\ Line.k # "close"
  /\ Next1 /\ Stay("entries")
  /\ \/ Line.k # "entry" /\ UNCHANGED table
     \/ /\ Line.k = "entry"
        /\ \E id \in frameIDByName(Line.name) :
             table' = IF id > LINMaxID THEN table
                      ELSE [table EXCEPT !.entries =
                              Append(@, [ID |-> id, DelayMs |-> Number(Line.a)])]
  /\ UNCHANGED <<fr, db>>

EndTable ==
  /\ pc = "entries"
  /\ \/ Is("close") /\ Next1
     \/ AtEnd /\ UNCHANGED <<lines, pos>>
  /\ Stay("Schedule_tables")
  /\ db' = [db EXCEPT !.schedules = Store(@, table.name, table.entries)]
  /\ UNCHANGED <<fr, table>>

Parse ==
  \/ Scan \/ Top \/ TopEnd \/ SkipBrace \/ EndSection
  \/ ParseNodes \/ ParseSignals
  \/ ParseFrames \/ SkipBody \/ ParseRef \/ EndFrame
  \/ ParseTables \/ ParseEntry \/ EndTable

(* What Parse returns: the database, or nil with the error.                *)
Result == IF pc = "done" THEN {db} ELSE {}

Ended    == pc \in {"done", "error"}
Finished == Ended /\ UNCHANGED vars

Spec == Init /\ [][Parse \/ Finished]_vars /\ WF_vars(Parse)

-----------------------------------------------------------------------------
(* Whatever the text, the range checks of parseFrameHeader, of the offsets *)
(* and of the slots leave a usable database at every step: identifiers and *)
(* lengths are a frame's and the key is the frame's own, offsets are not   *)
(* negative, every slot of a schedule is a frame of the database.          *)
Usable ==
  /\ \A id \in DOMAIN db.frames :
       LET f == db.frames[id]
       IN  /\ f.ID = id /\ id <= LINMaxID /\ f.Length \in 0..LINMaxDataLen
           /\ \A i \in DOMAIN f.Signals : f.Signals[i].BitOffset >= 0
  /\ \A t \in DOMAIN db.schedules : \A i \in DOMAIN db.schedules[t] :
       db.schedules[t][i].ID \in DOMAIN db.frames

(* REQ-SEC-001, truncated input: Parse comes to an end on every text, no   *)
(* loop waits for a brace that does not come.                              *)
ParseEnds == <>Ended
=============================================================================

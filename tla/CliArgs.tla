------------------------------ MODULE CliArgs -------------------------------
(***************************************************************************)
(* The send, pid and cs commands of go-lin and of lintool.                 *)
(*                                                                         *)
(* An argument is a piece of text that may start with a flag: "--id" is    *)
(* [flag |-> "--id", text |-> None], "--id=5" has the text of 5 with it,   *)
(* and "5" has no flag.  A text is given by what the parsers make of it:   *)
(* dec, ParseUint(s, 10, 8); hex16, ParseUint(s[2:], 16, 8) after 0x, with *)
(* None for no such prefix; bytes, hex.DecodeString.  NoParse is an error. *)
(***************************************************************************)
EXTENDS RelayMessage

CONSTANTS None, NoParse

Text ==
  [dec : Byte \cup {NoParse}, hex16 : Byte \cup {None, NoParse}, bytes : Seq(Byte) \cup {NoParse}]

(* The values that stand for nothing are not mistaken for something.       *)
ASSUME CliAssumption ==
  /\ None \notin Text \cup {"--id", "--data"} \cup Byte
  /\ NoParse \notin Byte \cup Seq(Byte)
  /\ NoEntry \notin [data : Seq(Byte), ct : LINChecksumType]

Usage == [exit |-> 2]   \* the usage line
Fatal == [exit |-> 1]   \* fatal(...)

(* What the parsers make of an argument that is itself a flag.             *)
FlagText == [dec |-> NoParse, hex16 |-> None, bytes |-> NoParse]
TextOf(a) == IF a.flag = None THEN a.text ELSE FlagText

(* flagValue: the first "--name value" or "--name=value".                  *)
Gives(args, i, name) ==
  args[i].flag = name /\ (args[i].text # None \/ i < Len(args))

flagValue(args, name) ==
  LET found == {i \in DOMAIN args : Gives(args, i, name)}
      i     == CHOOSE k \in found : \A j \in found : k <= j
  IN  IF found = {} THEN None
      ELSE IF args[i].text # None THEN args[i].text ELSE TextOf(args[i + 1])

hasFlag(args, name) == \E i \in DOMAIN args : args[i].flag = name

LooseID(s) == IF s.hex16 # None THEN s.hex16 ELSE s.dec  \* mutant: no bound

parseID(s) ==
  LET v == IF s.hex16 # None THEN s.hex16 ELSE s.dec
  IN  IF v \in 0..LINMaxID THEN v ELSE NoParse

parseHex(s) ==
  IF s.bytes # NoParse /\ Len(s.bytes) \in 1..LINMaxDataLen THEN s.bytes ELSE NoParse

(* SendHeader on the bus that Publish left: the frame that is exchanged.   *)
SendHeader(reg, id) ==
  IF reg[id] = NoEntry THEN Fatal
  ELSE [exit |-> 0, ID |-> id, Data |-> reg[id].data,
        Checksum |-> CalcChecksum(ProtectID(id), reg[id].data, reg[id].ct)]

(* Publish, SendHeader and printFrame on a bus of the command's own.       *)
Exchange(idText, dataText) ==
  LET id   == parseID(idText)
      data == parseHex(dataText)
      bus  == Publish([i \in 0..LINMaxID |-> NoEntry], id, data)
  IN  IF id = NoParse \/ data = NoParse THEN Fatal
      ELSE IF bus.err THEN Fatal
      ELSE SendHeader(bus.reg, id)

(* go-lin: --format json is the stream, handled in Crossbar; then the flag *)
(* form if either flag is there, else two plain arguments.                 *)
parseSendArgs(args) ==
  IF hasFlag(args, "--id") \/ hasFlag(args, "--data")
  THEN LET id == flagValue(args, "--id")
           data == flagValue(args, "--data")
       IN  IF id = None \/ data = None THEN Usage ELSE Exchange(id, data)
  ELSE IF Len(args) = 2 THEN Exchange(TextOf(args[1]), TextOf(args[2]))
  ELSE Usage

(* lintool: two arguments, whatever they look like.                        *)
lintoolSend(args) ==
  IF Len(args) = 2 THEN Exchange(TextOf(args[1]), TextOf(args[2])) ELSE Fatal

(* pid <id>: the protected identifier.                                     *)
cmdPID(args) ==
  LET id == parseID(TextOf(args[1]))
  IN  IF Len(args) # 1 THEN Fatal
      ELSE IF id = NoParse THEN Fatal
      ELSE [exit |-> 0, ID |-> id, PID |-> ProtectID(id)]

(* cs <id> <hex-data>: the enhanced checksum.                              *)
cmdCS(args) ==
  LET id   == parseID(TextOf(args[1]))
      data == parseHex(TextOf(args[2]))
  IN  IF Len(args) # 2 THEN Fatal
      ELSE IF id = NoParse \/ data = NoParse THEN Fatal
      ELSE [exit |-> 0, ID |-> id, PID |-> ProtectID(id), Data |-> data,
            Checksum |-> CalcChecksum(ProtectID(id), data, "enhanced")]
=============================================================================

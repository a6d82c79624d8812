----------------------------- MODULE MCCrossbar -----------------------------
(* An instance of Crossbar for TLC: what runs on the buses.                *)
EXTENDS Crossbar

F(id, data, ct, sum) == [ID |-> id, Data |-> data, ChecksumType |-> ct, Checksum |-> sum]

(* Two responses to one identifier, with a diagnostic frame in between.    *)
Frames == <<F(9, <<1>>, "enhanced", 181), F(60, <<1, 2, 3, 4, 5, 6, 7, 8>>, "classic", 219),
            F(9, <<2>>, "enhanced", 180)>>

ASSUME SumsRight ==
  \A f \in {Frames[i] : i \in DOMAIN Frames} :
    f.Checksum = CalcChecksum(ProtectID(f.ID), f.Data, f.ChecksumType)

M(id, data) == [ID |-> id, Payload |-> data, checksum_type |-> "none", checksum |-> <<>>]

(* An empty payload, one that is too long, and an identifier out of range. *)
Foreign == {M(<<9>>, <<>>), M(<<9>>, [i \in 1..9 |-> i]), M(<<6, 4>>, <<1>>)}

(* No limit, nothing at all, and two of the up to three that come.         *)
SomeCounts == {-1, 0, 2}
=============================================================================

--------------------------- MODULE MCDiagnostics ----------------------------
(* Two requests, one that does not fit, and raw frames good and bad.       *)
EXTENDS Diagnostics

Request(nad, sid, data) == [NAD |-> nad, SID |-> sid, Data |-> data]

MCRequests == {Request(1, 178, <<1, 255>>), Request(2, 180, <<>>),
               Request(1, 178, <<1, 2, 3, 4, 5, 6>>)}
MCExtra    == {<<1, 0, 242, 9, 9, 9, 9, 9>>, <<1, 7, 242, 9, 9, 9, 9, 9>>, <<1, 2, 242>>,
               <<3, 1, 242, 9, 9, 9, 9, 9>>}
=============================================================================

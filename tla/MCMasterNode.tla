---------------------------- MODULE MCMasterNode ----------------------------
(* A table with an ordinary and a sporadic slot, groups that come and go.  *)
EXTENDS MasterNode

Entry(i, d) == [ID |-> i, DelayMs |-> d]

MCLive    == {1, 2}
MCId      == {1, 2, 5, 64}
MCTables  == {<<>>, <<Entry(5, 10), Entry(1, 0)>>, <<Entry(64, 10)>>}
MCGroups  == {[slot |-> 5, candidates |-> <<1, 2>>],
              [slot |-> 5, candidates |-> <<64>>],
              [slot |-> 5, candidates |-> <<>>]}
=============================================================================

------------------------ MODULE MCFlashblockBuilder ------------------------
(* Two accounts and a slot that the system calls write; transactions that     *)
(* read what others write and use gas depending on it.                        *)
EXTENDS FlashblockBuilder

CONSTANTS a, b, slot, ab, ba, read_slot, write_slot, deposit

MCKey == {a, b, slot}
MCValue == 0 .. 2
MCTx == {ab, ba, read_slot, write_slot, deposit}
MCDeposit == {deposit}
MCParent == [k \in MCKey |-> IF k = a THEN 1 ELSE 0]
MCSystemWrites == slot :> 2
MCTip == [tx \in MCTx |-> IF tx = ab THEN 2 ELSE 1]
MCSigner == [tx \in MCTx |-> IF tx = ba THEN b ELSE a]

\* A transfer fails, writes nothing and uses less gas, when there is nothing to move.
Transfer(s, from, to) ==
  IF s[from] = 0 \/ s[to] = 2 THEN [writes |-> <<>>, gas |-> 1]
  ELSE [writes |-> (from :> (s[from] - 1)) @@ (to :> (s[to] + 1)), gas |-> 2]

MCEffect == [tx \in MCTx |-> [s \in [MCKey -> MCValue] |->
  CASE tx = ab -> Transfer(s, a, b)
    [] tx = ba -> Transfer(s, b, a)
    [] tx = read_slot -> [writes |-> a :> s[slot], gas |-> 1 + s[slot]]
    [] tx = write_slot -> [writes |-> slot :> s[a], gas |-> 1]
    [] tx = deposit -> [writes |-> a :> ((s[a] + 1) % 3), gas |-> 1]]]

=============================================================================

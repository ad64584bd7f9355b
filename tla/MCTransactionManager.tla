------------------------ MODULE MCTransactionManager ------------------------
(* Instances of TransactionManager for TLC.                                 *)
EXTENDS TransactionManager

CONSTANTS c1, c2, c3, alice, bob

Pay(from, to, amount, fee) == [sender |-> from, receiver |-> to, amount |-> amount, fee |-> fee]

(* Two payments of one sender that its balance covers one at a time, and a  *)
(* payment the other way.                                                   *)
MCRequest == [c \in Call |-> IF c = c3 THEN Pay(bob, alice, 1, 1) ELSE Pay(alice, bob, 5, 1)]
MCBalance == [a \in Account |-> IF a = alice THEN 8 ELSE 3]
=============================================================================

------------------------------ MODULE MCDelivery ------------------------------
(* Instances of Delivery for TLC.                                          *)
EXTENDS Delivery, TLC

(* No webhook, and both of them: one alone behaves as the first of both.   *)
NoneOrBoth == {<<>>, <<"discord", "extra">>}

Symmetry == Permutations(Call) \cup Permutations(Page)
===============================================================================

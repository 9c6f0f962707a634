--------------------------- MODULE MCStorageLedger ---------------------------
(***************************************************************************)
(* Model values and bounds for the runs of StorageLedger.                  *)
(***************************************************************************)
EXTENDS StorageLedger, TLC

CONSTANTS u1, u2, i1, i2, k1, k2, k3, h1, h2, e1, e2

OneUser == {u1}
OneItem == {i1}
TwoItems == {i1, i2}
OneKey == {k1}
ThreeKeys == {k1, k2, k3}
OneHandler == {h1}
TwoHandlers == {h1, h2}
NoEditors == {}
TwoEditors == {e1, e2}

\* Deposits and withdrawals of both items, and of one to make them differ; adjustments
\* to either amount, also with a recipient, which an adjustment has not.
Ask(type, lines, to) == [type |-> type, lines |-> lines, to |-> to]
Line(i, q) == [[j \in Items |-> NoLine] EXCEPT ![i] = q]
Both == [i \in Items |-> 1]
SomeRequests ==
  {Ask("intake", Both, None), Ask("distribute", Both, u1), Ask("distribute", Line(i1, 1), u1)}
  \cup {Ask("adjust", Line(i1, q), to) : q \in {0, 1}, to \in {None, u1}}
AnyRequest == Request

Open == {[deposit |-> TRUE, withdraw |-> TRUE]}
AnyPolicy == Flags

KeySymmetry == Permutations(TwoHandlers) \cup Permutations(ThreeKeys)
EditorSymmetry == Permutations(TwoEditors)
==============================================================================

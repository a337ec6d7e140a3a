----------------------------- MODULE MCLevelRun ------------------------------
(* LevelRun on three documents, one of them without a ground truth, in a   *)
(* fresh directory or one where an earlier run left an empty file, or the  *)
(* records of d2 and of a document outside the corpus.                     *)
EXTENDS LevelRun

CONSTANTS d1, d2, d3, x1

Docs3 == {d1, d2, d3}
Corpus3 == <<d1, d2, d3>>
Strangers3 == {x1}
Old(d) == [doc |-> d, reply |-> "good"]
Leftovers3 == {<<>>, <<Old(x1), Old(d2)>>}
Baselines3 == {{<<d1, "expected">>, <<d2, "different">>}}
=============================================================================

---------------------------- MODULE MCRunMetrics -----------------------------
(***************************************************************************)
(* Measures for TLC: every small input.                                    *)
(***************************************************************************)
EXTENDS Measures

MCExpected == {"d1", "d2"}

Good == [ok |-> TRUE, reason |-> "completed", flags |-> TRUE, chunks |-> 1,
         dim |-> TRUE, norms |-> TRUE, hashes |-> <<"A">>]

Bodies == {
  Good, [Good EXCEPT !.hashes = <<"B">>], [Good EXCEPT !.hashes = NoHashes],
  [Good EXCEPT !.chunks = 2], [Good EXCEPT !.flags = FALSE],
  [Good EXCEPT !.chunks = 0, !.hashes = <<>>, !.dim = FALSE],
  [Good EXCEPT !.ok = FALSE, !.reason = "no_documents"],
  [Good EXCEPT !.ok = FALSE, !.reason = "timeout"]}

RowsFor(docs, bodies) == {[doc |-> d] @@ body : d \in docs, body \in bodies}

(* d3 is not in the manifest. *)
MCFirstRecords == RowsFor(MCExpected, Bodies) \cup RowsFor({"d3"}, {Good})

MCSecondRecords ==
  RowsFor(MCExpected, {Good, [Good EXCEPT !.hashes = <<"B">>],
                       [Good EXCEPT !.ok = FALSE, !.reason = "no_documents"]})
=============================================================================

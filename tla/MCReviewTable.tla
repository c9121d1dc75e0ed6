--------------------------- MODULE MCReviewTable ---------------------------
(* Pages of one and two records; a walk, or two reviewers. *)
EXTENDS ReviewTable

MCFilters ==
  {[status |-> AnyStatus, from |-> 0, to |-> 9], [status |-> AnyStatus, from |-> 2, to |-> 9],
   [status |-> "pending", from |-> 0, to |-> 9]}
=============================================================================

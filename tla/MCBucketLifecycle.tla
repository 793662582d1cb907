------------------------ MODULE MCBucketLifecycle ------------------------
(* Small instances of BucketLifecycle for TLC. *)
EXTENDS BucketLifecycle, TLC

CONSTANTS k1, k2, d

\* k1 lies in the directory d, k2 in the bucket's own.
Below == [k \in Keys |-> IF k = k2 THEN None ELSE d]

Everything == AllOps \X AllOps

\* Nothing overlaps a deletion, and of two admin calls only creations overlap.
OneAdminCall ==
  {p \in Everything : \/ p = <<"create", "create">>
                      \/ "delete" \notin {p[1], p[2]} /\ ~({p[1], p[2]} \subseteq AdminOps)}

Symmetry == Permutations(Requests)

-----------------------------------------------------------------------------
(* What a comment says and the code does not keep. *)

\* "a stale row can never outlive its bucket (and leak into a same-name recreate's
\* listing)" (store.go, DeleteBucket): no index row without a bucket.
RowsNeverOutlive == \A k \in Keys : row[k] # None => bucket # None

\* "409 BucketNotEmpty if it still has objects" (_docs/api-reference.md): a deletion
\* is refused only if there are objects.
RefusedOnlyWithObjects ==
  [][\A r \in Requests : At(r, "isempty") /\ pc'[r] = "refused"
       => \E k \in Keys : file[k] # None]_vars
=============================================================================

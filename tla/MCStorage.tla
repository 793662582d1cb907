----------------------------- MODULE MCStorage -----------------------------
(* Small instances of Storage for TLC. *)
EXTENDS StorageRefinement, TLC

\* Lengths that let a shorter sidecar land on a longer one.
MCTypeLen == [t \in Types |-> CASE t = NoType -> 4 [] t = Garbage -> 300 [] OTHER -> 10]

Everything == AllOps \X AllOps

\* Only GETs and listings may share a key; whatever changes a key has it to itself.
ReadersOverlap == {"get", "anon", "list"} \X {"get", "anon", "list"}

\* Walkers run alone; the other operations overlap.
WalkersAlone == (AllOps \ Walkers) \X (AllOps \ Walkers)

Symmetry == Permutations(Requests)

-----------------------------------------------------------------------------
(* What the documentation says and the code does not keep. *)

\* "walks the bucket directory, re-stats and re-hashes every file"
\* (_docs/api-reference.md, POST reindex): after a forced pass that ran alone,
\* every indexed ETag is the hash of the file's bytes.
ForcedReindexRehashes ==
  [][\A r \in Requests : At(r, "apply") /\ pc'[r] = "ok" /\ Forced(r)
       => \A k \in Keys : file[k] # None => row'[k].etag = Hash(file[k])]_vars

\* "Same endpoint with { public: false } makes it private again - immediately; the very
\* next GET with no credential gets 401" (_docs/public-and-private-objects.md), and
\* "contentType is replayed verbatim as the Content-Type response header on every future
\* GET/HEAD of that key" (_docs/data-model.md): when nothing is at work on a key, its row
\* has the visibility and the Content-Type that the one PUT or ACL change it ever had asked
\* for, or that it was stored with, whatever GETs came besides.
CallsOn(k) == {r \in Requests : req[r] # None /\ req[r].key = k}
ChangesOf(k) == {r \in CallsOn(k) : req[r].op # "get"}
Said(k) == Stored(k, "unindexed").side
MetadataReplayed ==
  \A k \in Keys :
    Settled(k) /\ row[k] # None =>
      /\ ChangesOf(k) = {} => row[k].ct = Said(k).ct /\ row[k].public = Said(k).public
      /\ \A r \in Requests :
           ChangesOf(k) = {r} /\ At(r, "ok") /\ req[r].op \in {"put", "acl"} =>
             /\ row[k].public = req[r].public
             /\ req[r].op = "put" => row[k].ct = req[r].ct
=============================================================================

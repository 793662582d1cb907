# A verification project for S3Bender's engine

S3Bender is a small object store: a Go server keeps the bytes of every object
in a file, what cannot be derived from the bytes in a JSON sidecar, and a row
per object in a SQLite table, and a console in the browser drives it. This
directory holds TLA+ modules of the engine (`src/engine`), TLC configurations
that check them on small instances, and proofs, checked by TLAPS, of what holds
on every instance.

    tlc -config MCStorageFree.cfg MCStorage      # one run
    tlapm StorageSafety.tla                      # the proofs of one module

## 1. The system

| Component | State | Operations | Source |
|---|---|---|---|
| Object storage | `{root}/{bucket}/{key}` (bytes), `{root}/.meta/{bucket}/{key}` (sidecar), one reindex mutex per bucket | PutObject, OpenObject, SetPublic, IsPublic, DeleteObject, ListObjects, ReindexBucket | `internal/server/storage.go` |
| Object index | table `Objects` | one SQL statement or transaction per method of `Store` | `store.go` |
| Buckets | table `Buckets`, one directory each | create, list, delete, rotate key, reindex | `handlers.go`, `store.go` |
| Authentication | none of its own; reads both tables | admin key, signed header, presigned URL, public read | `auth.go`, `crypto.go` |
| Process | two HTTP servers, one background reindex at startup | start, shutdown, crash | `main.go`, `server.go` |
| Console | current bucket, page cursors, uploads | browse, upload, preview, page | `wwwroot/app.js` |

**How they interact.** Every request runs in its own goroutine through
`recoverPanics`, `adminAuth`, `bucketAuth` and the router. A handler calls
`Storage`, which calls the file system and `Store` step by step. At startup a
goroutine reindexes every bucket while requests are already being served. The
only lock is the mutex of `ReindexBucket`: **PUT, GET, ACL, DELETE and listing
take none**, and nothing makes file, sidecar and row change together.

**What is hard.** Three copies of one truth, written one after the other by
handlers without locks; readers that write (a GET of a file without a row, or of
a row without an ETag, repairs both); a walk that reads the index, then the
directory, then each file, and commits much later; `os.WriteFile`, which
truncates before it writes; cancelled requests between any two calls; a process
that dies between any two calls and starts with another reindex. `PROJECT.json`
lists the hazards by line.

**What makes each component correct.**

* *Object storage*: a file is always one whole uploaded body; ETags are hashes of
  such bodies; nothing becomes public by itself; temporary files go with their
  upload; one reindex at a time, nobody waits for ever; a first listing is not empty
  while there are files; a reindex restores agreement after a crash. As long as nothing
  fails, every file has a row or an ETag, and only GETs and listings overlap on a key, file,
  sidecar and row agree whenever the key is at rest and the whole is an atomic map. The
  code keeps neither beyond these terms: see "What overlap costs" below.
* *Buckets*: rows and files never outlive their bucket; an answered upload is not
  lost with it; unless a call has failed or a crash happened, a bucket without objects can
  be deleted; a key pair that was returned works until the next rotation or deletion and is
  dead from then on.
* *Keys as paths*: handlers that share directories spare each other's files; no
  directory, sidecar or row is left that makes a later call fail or find what is
  not there, but where an upload was broken off or a DELETE took a file for a directory.
* *Authentication*: a request reaches a handler only with the admin key, a
  signature by the current secret of that very bucket, unexpired, or as a read of
  a public object; a good credential is not refused; a copied one ends; what was
  made private is private for whoever comes later, unless a reader that was under way at
  the change writes back what it read before.
* *Listing*: following the cursors returns every key once, in order, and the totals
  are those of what it returns.
* *Console*: what is on screen belongs to the filter and page the user chose last.

## 2. Modules

| Module | Role |
|---|---|
| `Storage` | the object layer of one bucket, one action per file system call or SQL statement of every handler, with crashes and failed calls |
| `ObjectStore` | what a bucket promises: a map whose calls act at once |
| `StorageRefinement` | the mapping under which `Storage` implements `ObjectStore` |
| `MCStorage` | TLC instances, and three claims of the documentation |
| `StorageProofs` | type correctness of `Storage`, for all constants |
| `StorageSafety` | five safety invariants of `Storage`, for all constants |
| `StorageApart` | what `Storage` keeps as long as calls are kept apart: agreement, listings, the atomic store, what a reindex restores |
| `BucketLifecycle` | one bucket name over time: create, delete, rotate, the object calls that were let in before, and the directories that keys make below the bucket's |
| `MCBucketLifecycle` | TLC instances, a claim of a comment and one of the documentation |
| `BucketProofs` | type correctness and two safety invariants of `BucketLifecycle`, for all constants |
| `BucketSafety` | the properties of `BucketLifecycle` that hold for calls kept apart, for all other constants |
| `Auth` | who is let in: the admin key, public reads, signed headers and presigned URLs, while keys rotate, handlers change an object's visibility step by step, the clock runs and the master key is lost |
| `MCAuth` | its TLC instance |
| `AuthProofs` | type correctness and six safety invariants of `Auth`, for all constants |
| `KeyTree` | keys as paths: directories that handlers of different keys make and clear away, one file system call at a time |
| `KeyTreeProofs` | type correctness, tree shape and every invariant of `KeyTree`, for all constants |
| `MCKeyTree` | its TLC instance |
| `Listing` | what the index answers to a listing and to a request for totals, as operators |
| `Pager` | the object table of the console, on top of `Listing` |
| `MCPager` | its TLC instance |
| `PagerProofs` | the order of keys, ranks and pages (`Listing`) and all safety invariants of `Pager`, for all constants |

`Storage`, `KeyTree`, `BucketLifecycle` and `Auth` look at the same handlers with
different eyes: one key at the level of bytes, many keys at the level of directories,
one bucket name over time, and what happens before a handler runs. Each says below what
it takes from the others as given. `Pager` extends `Listing` as the console calls the
engine; `StorageRefinement` instantiates `ObjectStore` over `Storage`.

### Storage and the code

A request `r` is a call `req[r]` and a program counter `pc[r]` whose labels are
the calls its handler makes. `Start` lets a request arrive (or the startup pass
begin); `Step(r)` is the disjunction of the steps below; `Fail(r)` makes a call
return an error (I/O error, cancelled context) and runs the deferred calls;
`Misread(r)` fails a read whose error the code drops;
`Crash` kills every handler, forgets the mutex and allows a new startup pass.

| Variable | Code |
|---|---|
| `file[k]`, `tmp[r]` | the object's file; the file `os.CreateTemp` made for upload r. Bytes are who wrote them and how many chunks |
| `side[k]` | what `readMeta` would return: an absent or empty sidecar is `NoMeta`, one that does not parse is `GarbledMeta` |
| `linked` | requests between the truncation and the write of `os.WriteFile` whose file was not unlinked meanwhile |
| `row[k]` | the row in `Objects` |
| `lock` | `reindexLocks[bucket]` |
| `fd`, `meta`, `cur`, `scan` | what a handler holds in memory: the open file, an `objectMeta`, an `ObjectRow`, and the local variables of `ReindexBucket` |

| Handler | Steps |
|---|---|
| PutObject | CreateTemp, Copy (per chunk), Rename, Truncate/Write (writeMeta), StatTarget, Upsert |
| OpenObject, statIndexed | Open, GetRow, then nothing, HashFile/SetETag, or indexFromDisk/Upsert |
| IsPublic, then OpenObject | IsPublic, IsPublicOnDisk, Open, ... |
| SetPublic | IsFile, ReadMeta, Truncate/Write, GetRow, (indexFromDisk,) Upsert |
| DeleteObject | RemoveFile, RemoveMeta, RemoveRow |
| ListObjects | HasRows, HasFiles, (ReindexBucket,) Query |
| ReindexBucket | Lock, ReadIndex, ReadDir, Visit and indexFromDisk per file, Apply |
| indexFromDisk | IfdStat, IfdMeta, (IfdHash, IfdTruncate, IfdWrite) |

Abstractions, all of data:

* MD5 is injective; the hash of some bytes stands for them.
* A PUT with public=true, an ACL change and so on are values of `Calls`; a
  Content-Type that `sanitizeContentType` drops is `NoType`. That a garbled
  sidecar's text of more than 255 characters would be dropped in turn is left out.
* Two sidecar writers overlay: after both truncated, the second one to write
  leaves the tail of a longer first text, which does not parse. `TypeLen` gives
  the lengths that decide which text is longer.
* A SQL statement or transaction is atomic and survives a crash of the process
  (SQLite); power loss and `synchronous=NORMAL` are not modelled.
* The walk visits the names it read at its start in any order. Keys are flat, so
  the directory is read once; parent directories are in `KeyTree`.
* Any call may fail, except waiting for a mutex. A read whose failure the code takes for
  absence or privacy (`Tolerant`: a sidecar, a stat, the visibility, the look for files)
  goes on as if nothing were there (`Misread`), so a healing handler may forget metadata it
  failed to read.
* Times are left out: nothing in the storage layer decides by them.
* `PutObject`'s MultiWriter hashes what it writes, so the hash is the body's.

### BucketLifecycle and the code

Names are independent (every table, directory and mutex is keyed by the name), so
one name is modelled. What `Storage` looks at closely is coarse here: an object is
present or absent, and carries the request that created the bucket its upload was
authenticated for. That tells the buckets apart that had the name one after the other.

| Variable | Code |
|---|---|
| `bucket` | the row in `Buckets`: `born` is the `createBucket` that inserted it, `pair` the request that minted its keys |
| `row[k]`, `file[k]` | the row in `Objects` and the object's file |
| `dir`, `sub` | the bucket directory; the directories below it that keys lie in (`Folder`) |
| `tmp` | uploads whose `.upload-*.tmp` is in their key's directory |
| `auth[r]` | the bucket that `bucketAuth` found for r's access key and put into its context |
| `cur`, `scan`, `lock` | as in `Storage` |
| `before[r]` | no code: the requests that had ended when r arrived, for properties about answered calls |

| Handler | Steps |
|---|---|
| createBucket | Lookup, Insert (the primary key decides), CreateBucketDirectory or Undo |
| deleteBucket | RequireBucket, IsBucketEmpty, DropBucket (one transaction), RemoveBucketDirectory |
| rotateBucketKey | RequireBucket, UpdateBucketKeys |
| PUT | BucketAuth, MakeParents, (MakeFolder,) CreateTemp, Rename, StatTarget, UpsertObject |
| GET, ACL | BucketAuth, Open, GetRow, (Heal,) UpsertObject |
| DELETE | BucketAuth, RemoveFile, (RemoveEmptyParents,) RemoveRow |
| list, admin reindex, startup | BucketAuth, HasRows, HasFiles / RequireBucket / ListBuckets, then Lock, IsDir, IndexedObjects, ReadDir, Visit, Apply |

`Fail` makes a call return its error, after which directories that were made stay; `Tolerate`
fails a call whose error the code drops: a stat of the bucket directory that fails counts
as no directory, and the reindex deletes all rows of the bucket.

Abstractions: clients only use key pairs they were given, and a signature with the
right secret is the pair itself. A key lies in the bucket's directory or one below it, and is
not itself the directory of another key, which is what `KeyTree` is about (there a DELETE
can unlink another key's new object, see below). Sidecars are outside the bucket's directory and
left out; so are public reads (a GET that needs no pair, with the same writes) and
`listBuckets` as a call. `VisitFile` reads a file, its sidecar and its hash in one step;
whether a non-forced pass keeps a row is a choice unless the row describes that
very file, because sizes may coincide.

### Auth and the code

| Variable | Code |
|---|---|
| `now`, `master` | `time.Now()` in `Ticks` to the second; the master key of this server process |
| `row[b]` | the key pair in the bucket's row, named by who minted it, and the master key that seals its secret |
| `files`, `sidecars` | the objects that have a file; those whose sidecar says `Public` |
| `index[o]` | what o's row says of its visibility, if there is one |
| `cred[r]` | what comes with request r: a header, the query of a URL, the admin key, nothing |
| `found[r]`, `pass[r]` | the `Bucket` that bucketAuth read; the `authInfo` in r's context (with the time of the verification, for properties) |
| `url[r]`, `fresh[r]` | the answer of a presign; until when a browser may reuse r's answer without asking |
| `held[r][k]` | what a handler has read of k and may write back: a visibility, that there was a row, that the file is gone |
| `seen[r]` | no code: pair, master key and finished calls when r arrived |

| Code | Steps |
|---|---|
| adminAuth | AdminAuth |
| bucketAuth | IsPublic, IsPublicOnDisk (GET and HEAD of objects), BucketByAccessKey, Verify |
| authedBucket | Unauthenticated, or the guard `Handling` of each handler |
| PUT, ACL, DELETE | ChangeFile, ChangeMeta, ChangeRow (an ACL change without a row: IndexFromDisk, CacheETags, UpsertRows) |
| GET | GetObject; without a row IndexFromDisk, CacheETags, UpsertRows; `Answer` with cacheControl |
| list, admin reindex | ListObjects, ReindexBucket, IndexFromDisk (of all keys), CacheETags, UpsertRows |
| presign, rotate | Presign, RotateKey |
| any of them | Fail |
| the world | Arrive, Tick, Restart |

`Entry` is where the two parsers of a path part: `bucketPathRe` does not match a path
with a newline, so such a request goes to the router unauthenticated, and only
`authedBucket` stops it (`FailClosed`). It stops the owner's too: an object whose key has
a newline can be neither written nor read, and a presigned URL for one, which `presign`
hands out, never works.

Abstractions: signatures are symbolic (`Sign` is injective, nobody signs without the
secret); clients send headers signed with pairs they were given, for any offset in
`Calls`, and copies of any credential or URL that was sent or handed out, whatever it was
meant for. URLs come from the server's presign only: the cap on their expiry is not
looked at again when one is used, so an owner who signs a longer one has it. `Wrap` is
two's complement of width `MaxInt`; a timestamp half the range away from the clock passes
the skew check, because the magnitude of the least integer is itself negative, but
`ReplayWindow` holds for it too. Buckets are never deleted (`BucketLifecycle`). Of the
objects there is what decides who is let in: the visibility in the sidecar and in the row,
which handlers write one after the other and which healing readers read, hold and write
back; whether a sidecar has an ETag and so is left alone is a choice, a walk reads all
sidecars at one moment and writes those it heals at another, and torn or unreadable
sidecars, which never say `Public`, are `Storage`'s. A restart waits for running handlers, as
`Shutdown` does; a master key that is never lost is the case without one. Left out: a
server without an admin key (every admin call answers 500), a query with an access key but
without expiry or signature next to a header, header syntax.

### KeyTree and the code

A key is a sequence of segments; `Path` drops empty ones as `filepath.Join` does, so
`<<"d">>` and `<<"d", "">>` (the keys `d` and `d/`) are one path with two rows.

| Variable | Code |
|---|---|
| `dirs[t]`, `file[t][p]` | the directories and files below `{root}/{bucket}` (`"data"`) and `{root}/.meta/{bucket}` (`"meta"`) |
| `tmp` | uploads whose `.upload-*.tmp` lies beside their object's place |
| `row[k]` | the row in `Objects` |
| `tree[r]`, `level[r]` | which tree r's handler is in, how many directories deep its MkdirAll or removeEmptyParents is |
| `etag[r]` | the ETag it is about to write |
| `with`, `due`, `last`, `swept` | no code: whom r overlapped, how it should end if nobody (as the objects say; nothing is expected where `Departs`), the last request of a path, paths untouched since a reindex |

| Handler | Steps |
|---|---|
| PutObject | Stat, Mkdir per directory, CreateTemp, Rename (or Abort), then Stat, Mkdir, WriteMeta in the tree of sidecars, Upsert |
| OpenObject, statIndexed | Open, GetRow, (Stat, Mkdir, WriteMeta,) Upsert |
| DeleteObject | Unlink, Prune per directory, the same in the tree of sidecars, RemoveRow |
| ReindexBucket | Reindex, in one step, when nothing else runs |

Calls on one path do not overlap here: that is `Storage`. Visibility and content type
are left out, an ACL change does nothing to directories that a GET of an unindexed file
does not do. A reindex that cannot write a sidecar fails and changes no row; nothing more
is modelled of it (`RoomForSidecars` says when it cannot happen).

What the model shows besides its invariants, each an exception one of them names:

* `removeEmptyParents` goes up with `os.Remove` and takes an error for "not empty"
  (storage.go:510). `os.Remove` also unlinks files: if DELETE of `d/x` has emptied and
  removed `d`, or not yet looked at it, and PUT of `d` puts its file there meanwhile, the
  DELETE removes the object that has just been acknowledged (`Pruned`). If only the
  file goes, its sidecar stays. It then blocks uploads below `d` and makes a reindex that needs a
  directory there fail, until `d` is put or deleted again; and it keeps the directories of
  sidecars above it, so that an upload to one of those paths, whose own place among the
  objects is free, finds a directory where its sidecar should go (`PrunedNear`).
* A key that is a directory of other keys (`d` next to `d/x`), or below an object, cannot be
  stored: PUT answers 500 (`Crowded`), and no document promises otherwise. DELETE of such a
  key answers 500 too, and so does GET of a key below an object, and that **contradicts**
  what is documented: "idempotent - deleting a missing key is not an error"
  (api-reference.md:97-98, and the comment at storage.go:270), 404 for a missing key.
  `AnsweredByTheFiles` claims nothing there (`Departs`); it does not call the 500 right.
* An upload that breaks off leaves the directories it has made (`AbortedBelow`); the bucket
  then counts as non-empty although it has no object: run `undeletable`.
* `os.Stat` succeeds on a directory as well. A PUT whose object was replaced by a directory
  before it looks, and a GET that found no row, then write a row for it (`Upsert`, `GetRow`).
* A reindex forgets the row of `d/` and of keys whose last segment begins with `.upload-`,
  although both can be read (`SweptClean`).

### Listing, Pager and the code

A key is a sequence of bytes; `Order` is SQLite's BINARY collation. `Page` is
`Storage.ListObjects` without the reindex of a first listing (`Storage` has it), `Stats` is
`Store.Stats` without byte totals.

| Variable | Code |
|---|---|
| `rows` | the keys with a row |
| `prefix`, `pageSize`, `pageCursors`, `pageIndex`, `listSeq` | the fields of `state` in app.js; the prefix is folder and filter |
| `calls` | fetches under way, from the click to the answer's arrival; the server answers somewhere between |
| `shown`, `summary` | the table (or an error message), the totals above it |
| `begun`, `quiet`, `stayed`, `ahead`, `walk` | no code: when the listing began, what happened to the rows since, whether a click ran ahead of its cursor, what clicks on Next have shown |

`Relist` is the filter, the page size and everything else that calls `listObjects`;
`ClickNext` and `ClickPrev` move `pageIndex` and fetch; `Refresh` fetches the page again
after a change of visibility; `Serve` answers at one moment; `ReceivePage` and
`ReceiveStats` are what follows the `await`. `null`, `undefined` and no cursor are `None`.
Left out: byte totals, the upload queue, previews, switching to another bucket.

Exceptions that the invariants name: a second click on Next before the first page has
come has no cursor and shows the first page as a later one (`ahead`), and where a user who
goes on from there gets to is not claimed by `WalkEnds` either; a cursor that is
known is kept, so Prev or Refresh after rows have changed may repeat or pass over keys
(`walk` is about clicks on Next alone, `ExactPages` about quiet rows); `refreshStats` has
no check for late answers, so that older totals may replace newer ones, and stay: nothing is
claimed of totals that were asked for earlier than the listing (`summary.seq`).

## 3. Runs

| Run | Instance | Checks |
|---|---|---|
| `free` | 1 key, 2 requests of any kind overlapping at will, bodies of 0 or 2 chunks, every initial state of the key, 1 crash, 1 failed call | TypeOK, WholeObjects, ETagsGenuine, PublicOnlyIfAsked, ReindexExclusive, TempOwned, Progress |
| `serial` | 2 keys, 3 requests; GETs and listings overlap, everything else has its key to itself; no failure; every file has a row or an ETag | SettledAgree, ListNotSilentlyEmpty, ActsAtomically |
| `recovery` | 1 key, 3 requests; PUT, ACL and DELETE overlap, reindexes run alone; 1 crash | ReindexRebuilds |
| `rehash` | PUT and reindex, 1 crash | violates ForcedReindexRehashes |
| `replay` | two of PUT, ACL change and GET, overlapping, nothing fails | violates MetadataReplayed |
| `buckets_free` | 1 name, 1 nested key, 3 requests of any kind overlapping at will, unused, empty, filled and unindexed bucket, 1 crash, 1 failed call | LifecycleTypeOK, RevokedAtOnce, UploadsSurvive |
| `buckets_apart` | 2 keys, one nested; as before, but deletions overlap nothing, of two admin calls only creations overlap, no crash, 1 failed call | Belongs, PairWorks, PairKnown, RefusedForCause |
| `orphan` | PUT and deletion, overlapping, nothing fails | violates RowsNeverOutlive |
| `undeletable` | PUT of a nested key, deletion and reindex, 1 crash, 1 failed call, deletion runs alone | violates RefusedOnlyWithObjects |
| `auth` | 2 buckets, 3 keys (one with a newline), 3 requests, two at a time, 4 seconds, 2 master keys, 1 restart, integers from -32 to 31; calls about signatures on a private object, or calls about visibility on a public one without a row while the clock stands | AuthTypeOK, OnlyAsSigned, GoodCredentialsWork, ReplayWindow, PrivateUnlessReread, FailClosed, FreshOnlyWhileValid |
| `key_tree` | the keys `d`, `d/`, `d/x`, `d/x/y`, `d/.upload-z`, 3 requests, two at a time, four initial trees, any number of reindexes | KeyTreeTypeOK, NeighboursSpared, NoEmptyDirs, AnsweredByTheFiles, SweptClean, RoomForSidecars |
| `pager` | the keys `a/b`, `a/c`, `aa`, `b`, filters "" and "a", page sizes 1 and 3 (with a limit of 2), 3 calls under way, 4 pages, 2 events besides clicks on Next | PagerTypeOK, NewestShown, ExactPages, WalkMissesNothing, TotalsMatchWalk, WalkEnds |

*Bounds.* Hazards of `free` are races of two handlers on one key: a third adds
nothing to a pair that shares only the key (and the theorems below hold for any
number). Two chunks make a partial body visible; zero chunks is the boundary
`io.Copy` has. One crash and one failure are enough to cut each of two handlers
at each of its steps, independently. `serial` has two keys because a walk and a
listing relate keys, and three requests so that two readers can heal one key
while the third has left it unhealed. `recovery` has two requests to leave damage
and one to repair it. The bucket runs have three requests: a revocation or deletion,
a call that it races, and a later call that sees the outcome. `buckets_apart` has a key
in the bucket's own directory and one below it, because what an upload of the second leaves
in the first directory is what keeps the bucket from looking empty; one key is enough for
the others. `auth` has three requests: one that changes something (a rotation, an ACL
change, a presign), one it races or that hands out a credential, and one that uses it. What
is asked of credentials and what is asked of visibility do not meet in one behaviour
(`Scenarios`): no handler decides by both. Timestamps are at both edges of
the skew, one beyond, and where the subtraction wraps; four seconds are one more than a
credential lives, so that each can be used before, at and after its end. A second is one
tick in the run, so a maximal age is never a fraction that is cut off there: that truncation
does no harm is in the theorem `ReuseEnds` only, for any number of ticks. `key_tree` has keys nested three
deep (a sidecar left at the middle one stands in the way of those above it and of those
below), two siblings and an alias; a race needs two handlers, the third request meets
what they leave. `pager` has as many pages as keys, and two events: the filter and a change
of rows, a change and Prev, and so on, with any number of clicks on Next between. Deadlock is checked in
all runs; `Rest` is the idle server.

*Fairness* (`FairSpec`). The Go scheduler runs every goroutine that can run, so
each handler is weakly fair. Copying the body is not: a client may stop sending
(`main.go` sets no read timeout on purpose). Waiting for the mutex needs only weak
fairness because every request is used once. `Progress` then says that a stalled
upload holds up nobody else. In `Pager`, `FairSpec` says only that something goes on as
long as anything can: the server answers or fails, answers arrive, and a user who wants to
see everything clicks Next; which of these, and in which order, stays open. `WalkEnds` is
what such a user gets. No other module claims liveness.

*What the violations show.* (1) The admin reindex is documented to re-hash
every file; it re-hashes only files whose sidecar has no ETag, so after a crash
between the rename and the sidecar of an overwriting PUT the new bytes keep the old
ETag, and only another PUT or a DELETE corrects it. (2) A GET of a file
without a row builds one from what it reads, and writes it (and perhaps the sidecar) many
steps later. The trace: the GET reads "public", an ACL change to private is carried out
and answered, the GET's upsert makes the row public again, and whoever comes next is let in
without a credential, although the documentation says that the very next such GET gets 401. A
GET that meets the first PUT of a key in the middle erases the Content-Type and visibility
the PUT has written in the same way, and of two GETs of a legacy file (no row, no ETag) one
can read the other's truncated sidecar and write that back. (3) An
upload that was let in before its bucket is deleted finishes after it: it makes the
directory again and leaves a file and a row that the next bucket of that name shows
as its own. (4) An upload of a nested key that fails after `MkdirAll` leaves the
directories, one that dies with the server its temporary file too; either keeps the bucket
from being deleted, although it has no object, and no listing shows what is in the way.

*What overlap costs.* `SettledAgree`, `ActsAtomically` and `ReindexRebuilds` are
about calls that do not overlap on a key because the code does not keep them
otherwise: it has no lock per key. In `serial`, and in the theorems about it, a GET must not
overlap a PUT, an ACL change or a DELETE of its key either, nothing may fail (a sidecar that
cannot be read for once is healed away), and no file may lack both row and ETag, because the
GETs that heal it would erase each other's work. So these properties do not speak of the
races `replay` shows; nor of a GET that serves old bytes under a new ETag, of a row that a
GET puts back after a DELETE, and of an ACL change that writes back the row of before a PUT,
which all happen. The properties of `free` are what is left. The
same split is made for buckets: `Belongs` fails if a deletion overlaps an upload
(`orphan`), and `PairWorks` if a creation whose directory cannot be made overlaps a
deletion and a second creation, because its undo goes by name and deletes the new
bucket. `PairWorks` does not speak of a rotation that overlaps a deletion, which may
answer 200 for a bucket that is gone. The process must also not die, or a bucket may
remain whose key pair was never answered, and only a rotation gives access to it.
`RefusedForCause` speaks of deletions before anything has failed: after that the code does
refuse to delete buckets without objects (`undeletable`). `PrivateUnlessReread` excepts the
stale readers of `replay`, and says that nobody else makes an object public again.
`RevokedAtOnce` and `UploadsSurvive` need none of this.

## 4. Proofs

For every set of keys and requests, all lengths, any pattern of overlaps and any
number of crashes and failures, but where the table names an assumption. The theorems about `Storage` rest on its assumptions
`ConstantsOK` and `SentinelsOK` alone (no sentinel is a value or another sentinel), the
refinement also on `NoneIsNoObject` (nor is no object an object), those about `BucketLifecycle` on
`LifecycleConstants` and `LifecycleSentinels`, those about `Auth` on `AuthConstants`,
`AuthSentinels` and `ClockFits` (the clock stays away from the ends of the integers, as it
does for the next 292 billion years), those about `KeyTree` on `KeyTreeConstants` (paths are
sequences of segments, and joining one again changes nothing), those about `Pager` on
`ListingConstants` and `PagerConstants` (finitely many keys, each a sequence of bytes, which
`None` is not; the bounds `MaxCalls`, `MaxPages` and `MaxEvents` are any numbers):

| Theorem | Property | Inductive invariant |
|---|---|---|
| `TypeCorrect` | TypeOK | `TypeInv`: TypeOK and `Placed`, which operations reach which label and which local variables are set there. Without it the type of `tmp[r]` at Rename or of `cur[r]` at Upsert does not follow |
| `ReindexIsExclusive` | ReindexExclusive | the property itself: a step takes the free mutex, leaves it alone or ends the holder's section (`LockMoves`) |
| `TempFilesOwned` | TempOwned | `TempInv`: a temporary file has its owner's chunks only, not more than the body, at Rename all of it |
| `ObjectsAreWhole` | WholeObjects | `WholeInv`: files and open files are among the bodies uploaded to the key, a set that only grows |
| `ETagsAreGenuine`, `PublicOnlyOnRequest` | ETagsGenuine, PublicOnlyIfAsked | `SoundInv`: sidecars, rows, and also whatever a handler has read and may still write (`InHand`), carry ETags of the key's own bodies and are public only by request |
| `KeysAgree`, `ListingsShowSomething` | SettledAgree, ListNotSilentlyEmpty | `ApartInv` of `StorageApart`, see below. Assumes `KeptApart` |
| `CallsActAtomically` | ActsAtomically | `ApartInv` and a step of `ObjectStore` for each step, see below. Assumes `KeptApart` |
| `ReindexRestores` | ReindexRebuilds | `RebuildInv`: what a walk has found out so far about each key it is through with. Assumes `WalksApart` alone: any crashes, failures and overlaps of the other calls |
| `LifecycleTypeCorrect` | LifecycleTypeOK | `TypeInv` of `BucketProofs`: with `Placed`, as above |
| `OldPairsStayOut` | RevokedAtOnce | `RevokeInv`: from the step that commits a rotation or deletion on, the bucket has no pair issued before that request arrived. The property alone is not inductive: it says nothing of the bucket's row |
| `UploadsAreKept` | UploadsSurvive | `KeepInv`: the key has a file from the rename on, and an upload reaches its rename only if it was let in |
| `ObjectsBelong`, `AnsweredPairsWork` | Belongs, PairWorks | `ApartInv`, assuming `Apart`, see below |
| `RefusalsHaveCause` | RefusedForCause | `ApartInv` and `Tidy`: until something fails a temporary file is that of an upload about to rename it, and a directory below the bucket's holds something or a handler is about to fill or clear it (`Tended`). Assumes `Apart` alone |
| `PairsAreKnown` | PairKnown | `ApartInv`, `Known` (a pair that was not answered is that of a creation at work) and `Undoing` (an undo has used up the failed call). Assumes `Apart`, `MaxCrashes = 0`, `MaxFaults <= 1` |
| `AuthTypes`, `LetInAsSigned`, `FailsClosed`, `HiddenFromThenOn`, `ReplayEnds`, `ReuseEnds`, `GoodOnesWork` | the properties of `auth` | `AuthInv`, see below |
| `KeyTreeTypeCorrect`, `TreesStayTrees` | KeyTreeTypeOK | `TypeInv` of `KeyTreeProofs` (a handler at Mkdir is not below its key's directory, a temporary file is of an upload at its rename), then `Treelike`: what is there lies in directories that are there, and nothing is a file and a directory |
| `SweptStaysClean` | SweptClean | `SweptInv`: `Treelike`, `Fresh` (a handler's own path is not swept) and `Ahead`, see below |
| `NoDirStaysEmpty` | NoEmptyDirs | `TreeInv`, with `Needed`: every directory has a reason, see below |
| `SidecarsHaveRoom` | RoomForSidecars | `TreeInv` and `KeptInv`: `Cover`, `Stored`, `Strays`, see below |
| `AloneIsAnswered` | AnsweredByTheFiles | also `Answering`: a handler that meets nobody is where the files say it should be |
| `NeighboursAreSpared` | NeighboursSpared | also `Latest`: what the last call for a path has done so far is still there |
| `LateAnswersDropped` | NewestShown | `PagerInv`: a fetch that carries the newest number asks with the console's prefix, no number is above `listSeq`, and the property |
| `PagerTypes` | PagerTypeOK | `TypeInv` of `PagerProofs`: also that a call keeps what it asks for while it is answered (`CallOK`) |
| `NothingIsPassedOver` | WalkMissesNothing | `WalkInv`: one fetch is the newest, and where it goes on from, see below |
| `PagesAreSlices` | ExactPages | `Exact`: the cursor of page `i` comes after `i * Limit(pageSize)` keys, see below |
| `TotalsAgree` | TotalsMatchWalk | `TotalsInv`, with `WalkInv` and `Exact`: totals counted for this listing are those of the rows, and the walk has seen no other keys |

`AuthInv` is one invariant with a part for each of the questions, because the parts rest
on each other: `Arrived` and `Stages` say what a request at a label has behind it (which
credential it can have, that `found` was read and when it was let in); `Pairs`, that the
pair that was read is not older than the one `seen` at arrival and is what the credential
shows; `Times`, when a verification took place and what the clock said; `Fresh`,
the reuse of answers; `Hidden`, that once a change to private is past its sidecar the
sidecar, then the row, and whatever a later reader may write back say so too, unless
the object was published or reread (`Republished`), from which `PrivateOf` follows for each
request without a credential; `Good`, that a request whose credential is still good has
not been refused on its way.
`GoodCredentialsWork` alone says nothing of a request before its verification, and
`OnlyAsSigned` nothing of the pair it was looked up with. The arithmetic of the skew, that
`WithinSkew` bounds the distance in integers that wrap, is in `SkewIsDistance` and
`NearWithin`; that a maximal age in whole seconds ends in time, in `MaxAgeEnds`.

`Apart` is what the run `buckets_apart` has clients do: nothing overlaps a deletion, and
of two admin calls only creations overlap (`KeptApart` is what that makes of the handlers
at work). Under it crashes and failures may be as many as one likes for `Belongs` and
`PairWorks`. `ApartInv` follows whatever could still be written: `Present(v)` says that
a file, a row or what a handler holds (`Holding`) is of bucket `v`, and `PresentMoves` that
a step brings nothing in but by letting a request in. So all that is present is of the
bucket there is (`Own`), a deletion at its drop is alone with an empty directory
(`Emptied`), and while a creation stands between its insert and its answer nothing is
present (`Unissued`), because nobody has its pair (`PairsIssued`): its undo takes nothing
of anybody's away. `RefusalsHaveCause` follows directories as well (`Tidy`): whoever makes one
puts a file there or fails, whoever empties one removes it. `PairsAreKnown` needs more: a
crash between insert and answer leaves a bucket nobody has the pair of, and so does an undo
that fails.

`removeEmptyParents` calls `os.Remove` on what it takes for directories, and can so take
the object of another key away. `Ahead` says that it does this only to an object that came
there since the last reindex: `Unlink` went through, so its parents were directories then,
because the tree is a tree (`Treelike`), and a file at one of them now is that of a later
request. That `Mkdir` and `Rename` keep the tree one uses that they fail without the parent
(`ParentSuffices`), and `Prune` that only an empty directory goes (`NothingBelow`).

The other invariants of `KeyTree` compare a state at rest with what handlers did on the
way, so they are proved from what is so while handlers run:

* `Needed`: each directory has a file below it, or a broken-off upload, or a handler that
  is below it and on its way to put a file there or to take the directory away (`Holds`).
  A handler that goes hands its reason on: an upload to its file, `Prune` to the
  directory above, or, when `os.Remove` fails, to whatever made it fail (`WhyPasses`).
* `Cover`: from its `Unlink` on, a DELETE has no file at any directory above its path, but
  those of uploads that it overlapped, which is what `Pruned` says. So whatever file
  `Prune` takes is at a Pruned place (`PrunesPruned`).
* `Stored` and `Strays` follow: an upload's file is there until its row is written, and a
  sidecar without a file is at a Pruned place or that of a DELETE between its two trees.
* `Answering` adds what a handler that overlaps no other relies on, label by label: its
  `due`, where there is one, is what the files say now, the parent it has made is there. `NoStrayNear` says
  that no sidecar is then in its way. The first attempt at this proof failed on a sidecar
  left at `d/x` that keeps a PUT of `d` from writing its own; the exception had named
  only the paths below.
* `Latest` says what the last call for a path has established of object, sidecar and row,
  label by label. Handlers elsewhere change only their own path (`FileMoves`, `RowMoves`),
  or take what `Cover` and `Strays` allow them, which is nothing at a path not Pruned.

`KeptApart` is what the run `serial` has clients do: only GETs and listings share a key,
nothing fails, and no file lacks both row and ETag at first. (Without it the properties are
false, as `replay` and `rehash` show. The theorems under it say that many steps on three
copies add up to one when they are let alone, not that the code lets them alone.) `ApartInv` then has
one story per key: `Tells(k, m)` says that file, sidecar and row of `k` fit the metadata
`m`, up to what a reader may still have to heal, and `Healthy` that a key nobody is
changing tells the story of its own sidecar. While a PUT, an ACL change, a DELETE or a
walk changes a key, its `...Work` says label by label how far it is; what it leaves
unchanged of other keys (`TakesUp`, `Stories`) makes the steps of others harmless to it. A
listing that ends empty has seen, at one label after the other, that there is no row and
then no file.

For the refinement the objects of `ObjectStore` are the files with what describes them
(`Described`): the sidecar, or what its writer is about to put there. `DescribedByWriter`
says that there is one writer at most. Each operation has a lemma that its one effective
step (Rename, the truncation of an ACL change, the unlink, the last step of a read) maps to
the abstract call, and every other step to a stutter (`Same`): a healing reader
rewrites a sidecar without changing what it says of the object. `Told` carries the answer.

`WalksApart` is what the run `recovery` has clients do: no call overlaps a walk. Nothing
else is assumed, neither that the calls before were kept apart nor that none failed, and
any call may fail in the walk too. `Found` says what a walk knows of a key it is through
with: the row it will write, or that the row it keeps fits the file.

`SoundInv` has to speak of the handlers' memory because each of them writes what
it read many steps of others earlier; it rests on `WholeInv` (a hash is taken of a
whole file), and that on `TempInv`. Each invariant is preserved action by action;
`StepFrame` and the `...Writers` lemmas say once who changes what.

Pages are proved from the order of keys upwards. `LessTotal` and `LessTransitive` say that
byte order is total; the first byte that differs is found by `LeastOf`, and that by
`ByCounting`, which gets the induction over numbers from the pigeonhole principle for
finite sets. `RankTells` and `RankTaken`: how many keys come before a key (`Rank`) tells
any two apart, and every number below the size of the set is a rank; so `InOrder` lists
all keys (`Ordered`), and a page the first of those after its cursor (`PageOf`,
`NoneOmitted`). Then:

* `WalkInv` says of the newest fetch that its cursor is the last key of the walk and that
  no later cursor is set yet (`GoesOn`), so a click on Next while it is under way runs
  ahead; and once it is shown, that the next cursor is the last key again (`Stands`). An
  answer given when more rows were there is `Honest` about the fewer that stayed
  (`HonestOfFewer`), so rows that come or go between the server's answer and its
  arrival do no harm, and `WalksOn` joins page to page.
* `Exact` speaks of every cursor that is set, not only of the current one, because Prev
  and a second Next go back to it. `AfterRanks` shifts the ranks of a page by what its
  cursor passes, so its keys are the next slice (`PageSlice`, `CurrentSlice`).
* `TotalsInv` ties the totals to the listing they were asked with: a late answer of an
  older one carries an older number.

Only model-checked: `Progress` and `WalkEnds`, because liveness is out of the provers'
reach. Every other property of a passing run is proved.

## 5. What is left

The plan of the first version, `Storage`, `BucketLifecycle`, `KeyTree`, `Listing`, `Auth` and
the console's pager, is carried out. Worth adding next: a
model of the console's upload queue beside its navigation.

Not modelled:

* JSON, HTTP formatting and error texts (`errors.go`, `writeJSON`): which kind of answer
  a call gets is part of its operation, how it reads is not.
* Configuration (`config.go`): environment variables read once; the values that matter
  are constants.
* AES-GCM, HMAC, base64 and random keys: library code, symbolic in `Auth`.
* Static assets, `/healthz`, `listBuckets`, range requests and conditional GETs: reads
  of one immutable thing without a step in between.
* The console's upload queue, previews, dialogs, stored keys and bucket switching. They
  drive the same calls; but the queue reads the current folder and bucket anew for each
  file (`app.js:716`), so it can follow the user into another folder, and previews reuse
  presigned URLs per access key and ETag (`app.js:847`). Both need the navigation of
  the console, of which `Pager` has one folder only.
* Power loss, `synchronous=NORMAL`, SQLite's own locking and the size of its connection
  pool: below the level of a statement, which is taken as atomic.
* CI and container files.

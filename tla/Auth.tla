-------------------------------- MODULE Auth --------------------------------
(***************************************************************************)
(* Who is let in (engine/internal/server: auth.go, the routes of           *)
(* server.go, the signing half of crypto.go, the handlers presign and      *)
(* rotateBucketKey, and of every operation on objects what it does to      *)
(* their visibility, which decides who will be let in later).              *)
(*                                                                         *)
(* A request passes the admin check, the look at the object's visibility,  *)
(* the look-up of the bucket by access key and the verification of a       *)
(* signature in separate steps, while the clock runs, keys are rotated and *)
(* the server is started again, perhaps with another master key.           *)
(* Cryptography is symbolic: a key pair is the request that minted it, a   *)
(* signature is what was signed and the secret, a sealed secret remembers  *)
(* its master key.  Integers have the bounds of int64, scaled down.        *)
(*                                                                         *)
(* An object's visibility is in its sidecar and in its row.  Whoever       *)
(* changes it writes one after the other; a GET that finds no row and a    *)
(* reindex read the sidecar and write what they read later.  Of the object *)
(* layer only this is kept: a read that fails or meets half a sidecar,     *)
(* after which nothing is public, is Storage's.  Buckets exist for ever    *)
(* (BucketLifecycle is about their coming and going).                      *)
(***************************************************************************)
EXTENDS Integers, FiniteSets

CONSTANTS
  Buckets, Keys,
  Multiline,   \* the keys that contain a newline
  Requests,    \* requests the server may be handling, each used once
  Masters,     \* master keys the operator may start the server with
  None,        \* no request, credential, bucket row, URL
  Scenarios,   \* bound: what clients ask for together and how long the clock runs then
  InitPublic, InitPrivate,  \* the objects that are there initially
  InitRows,    \* those of them that have a row
  ClockSkewSeconds, MaxPresignExpirySeconds,
  PresignCacheCap,  \* presignCacheCap in seconds
  MaxInt,      \* integers are -MaxInt-1 .. MaxInt
  Ticks,       \* clock ticks in a second
  MaxTime,     \* bound: clock ticks
  MaxRestarts, \* bound: restarts of the server
  AtOnce       \* bound: requests in progress

ObjectOps == {"get", "head", "put", "remove"}
AdminOps == {"rotate", "reindex"}
AllOps == ObjectOps \cup {"list", "acl", "presign"} \cup AdminOps

\* public is what a PUT or ACL change asks for, method and seconds what a presign does.
\* with is the credential that comes along, offset how far the Timestamp of a header
\* is from the clock.
CallTypes == [op : AllOps, bucket : Buckets, key : Keys, public : BOOLEAN,
              method : {"GET", "PUT"}, seconds : Int,
              with : {"nothing", "admin", "header", "foreign", "copy"}, offset : Int]

Calls == UNION {s.calls : s \in Scenarios}

Int64 == (-MaxInt - 1)..MaxInt

\* Key pairs: the first one of a bucket is named by the bucket, a later one by the
\* request that minted it.
Minters == Buckets \cup Requests
Rows == [pair : Minters, sealed : Masters]

\* authInfo, and when the signature was verified.
Passes == [bucket : Buckets, how : {"public", "header", "query"}, time : 0..MaxTime]

\* What a row says of an object, and what else a reader may hold of one: that there is a
\* row, or that there was one and the file is gone.
Visibility == {"public", "private"}
Held == Visibility \cup {"row", "gone", None}

ASSUME AuthSentinels ==
  /\ Buckets \cap Requests = {}
  /\ None \notin Minters \cup Keys \cup CallTypes \cup Rows \cup Passes
  /\ None \notin Visibility \cup {"row", "gone"}

ASSUME AuthConstants ==
  /\ Multiline \subseteq Keys
  /\ Scenarios \subseteq [calls : SUBSET CallTypes, until : 0..MaxTime]
  /\ ClockSkewSeconds \in Nat /\ MaxPresignExpirySeconds \in Nat /\ PresignCacheCap \in Nat
  /\ MaxInt \in Nat /\ Ticks \in Nat \ {0} /\ MaxTime \in Nat /\ Ticks <= MaxTime
  /\ MaxRestarts \in Nat /\ AtOnce \in Nat
  /\ InitPublic \subseteq Buckets \X Keys /\ InitPrivate \subseteq Buckets \X Keys

\* The clock stays far from the ends of the integers.
ASSUME ClockFits ==
  /\ MaxTime + ClockSkewSeconds + MaxPresignExpirySeconds < MaxInt

VARIABLES
  now,       \* the clock, in ticks
  master,    \* the master key of this server process
  row,       \* row[b]: b's key pair in Buckets, and the master key that seals the secret
  files,     \* the objects that have a file
  sidecars,  \* the objects whose sidecar says Public
  index,     \* index[o]: what o's row says, None if there is none
  req, cred, pc,  \* each request: what it asks for, its credential, its handler's place
  found,     \* found[r]: the bucket row that bucketAuth read for r
  pass,      \* pass[r]: the authInfo in r's context, and when a signature was verified
  url,       \* url[r]: the presigned URL that r was answered with
  fresh,     \* fresh[r]: until when a browser reuses the answer to r without asking, or 0
  held,      \* held[r][k]: what r read of k and goes by (afterwards: went by)
  seen,      \* history: what r found when it arrived
  restarts

state == <<row, files, sidecars, index>>
local == <<found, pass, url, fresh, held>>
env   == <<now, master, req, cred, seen, restarts>>
vars  == <<state, pc, local, env>>

-----------------------------------------------------------------------------
(* Paths, credentials, integers *)

Method(op) == CASE op \in {"get", "list"} -> "GET"    [] op = "head" -> "HEAD"
                [] op \in {"put", "acl"} -> "PUT"     [] op = "remove" -> "DELETE"
                [] OTHER -> "POST"

ObjectPath(b, k) == [route |-> "objects", bucket |-> b, key |-> k]
Path(c) == CASE c.op \in ObjectOps -> ObjectPath(c.bucket, c.key)
             [] c.op = "acl" -> [route |-> "acl", bucket |-> c.bucket, key |-> c.key]
             [] OTHER -> [route |-> c.op, bucket |-> c.bucket, key |-> None]

StringToSign(method, path, seconds) == [method |-> method, path |-> path, at |-> seconds]
Sign(secret, text) == [secret |-> secret, text |-> text]

\* An Authorization header, and the query of a presigned URL.
Header(pair, method, path, ts) ==
  [form |-> "header", ak |-> pair, at |-> ts, sig |-> Sign(pair, StringToSign(method, path, ts))]
Query(pair, method, path, expires) ==
  [form |-> "query", ak |-> pair, at |-> expires,
   sig |-> Sign(pair, StringToSign(method, path, expires))]
AdminKey == [form |-> "admin", ak |-> None, at |-> 0, sig |-> None]

Unix(t) == t \div Ticks

\* Two's complement: what an int64 holds of an integer that is at most one range away.
Wrap(n) == IF n > MaxInt THEN n - 2 * (MaxInt + 1)
           ELSE IF n < -MaxInt - 1 THEN n + 2 * (MaxInt + 1) ELSE n

WithinSkew_Future(seconds, ts) == Wrap(seconds - ts) <= ClockSkewSeconds
WithinSkew(seconds, ts) ==
  LET skew == Wrap(seconds - ts)
      size == IF skew < 0 THEN Wrap(-skew) ELSE skew
  IN  size <= ClockSkewSeconds

VerifyHeader(c, k, secret) ==
  /\ WithinSkew(Unix(now), k.at)
  /\ k.sig = Sign(secret, StringToSign(Method(c.op), Path(c), k.at))

VerifyPresigned_Strict(c, k, secret) ==
  /\ Method(c.op) \in {"GET", "PUT", "HEAD"}
  /\ Unix(now) < k.at
  /\ k.sig = Sign(secret, StringToSign(Method(c.op), Path(c), k.at))
VerifyPresigned(c, k, secret) ==
  /\ Method(c.op) \in {"GET", "PUT", "HEAD"}
  /\ ~(Unix(now) > k.at)
  /\ k.sig = Sign(secret, StringToSign(Method(c.op), Path(c), k.at))

\* max-age of an answer to a presigned GET: whole seconds of what is left, capped.
\* A negative duration rounds towards zero, or is no time at all to a browser.
MaxAge_Capped(expires) == IF expires * Ticks - now <= -Ticks THEN 0 ELSE PresignCacheCap
MaxAge(expires) ==
  LET left == expires * Ticks - now
  IN  IF left <= 0 THEN 0
      ELSE IF left < PresignCacheCap * Ticks THEN left \div Ticks ELSE PresignCacheCap

-----------------------------------------------------------------------------
Ended == {"ok", "unauthorized", "forbidden", "badrequest", "notfound", "error", "failed"}
Acting == {"sidecar", "row", "reindex", "walk", "cache", "upsert"}
Labels == Ended \cup Acting \cup
            {"idle", "admin", "public", "nosuchrow", "find", "verify", "handle"}

Running(r) == pc[r] \notin Ended \cup {"idle"}
At(r, label) == pc[r] = label
Goto(r, label) == pc' = [pc EXCEPT ![r] = label]
Object(r) == <<req[r].bucket, req[r].key>>

\* What the path of a request leads to: bucketPathRe does not match a newline, so
\* such a path goes past bucketAuth to the router.
Entry(c) == IF c.op \in AdminOps THEN "admin"
            ELSE IF Path(c).key \in Multiline THEN "handle"
            ELSE IF c.op \in {"get", "head"} THEN "public" ELSE "find"

Init ==
  /\ now \in 0..(Ticks - 1)
  /\ master \in Masters
  /\ row = [b \in Buckets |-> [pair |-> b, sealed |-> master]]
  /\ files = InitPublic \cup InitPrivate
  /\ sidecars = InitPublic
  /\ index = [o \in Buckets \X Keys |-> IF o \notin InitRows THEN None
                ELSE IF o \in InitPublic THEN "public" ELSE "private"]
  /\ req = [r \in Requests |-> None]
  /\ cred = [r \in Requests |-> None]
  /\ pc = [r \in Requests |-> "idle"]
  /\ found = [r \in Requests |-> None]
  /\ pass = [r \in Requests |-> None]
  /\ url = [r \in Requests |-> None]
  /\ fresh = [r \in Requests |-> 0]
  /\ held = [r \in Requests |-> [k \in Keys |-> None]]
  /\ seen = [r \in Requests |-> None]
  /\ restarts = 0

\* Key pairs and URLs that clients were given, and credentials they sent before.
Issued(b) == {b} \cup {q \in Requests : At(q, "ok") /\ req[q].op = "rotate" /\ req[q].bucket = b}
Sent == {cred[q] : q \in Requests} \cup {url[q] : q \in {p \in Requests : At(p, "ok")}}

Signed(p, c) == Header(p, Method(c.op), Path(c), Unix(now) + c.offset)

\* The credentials a client may send with c: a header signed for it with a pair of the
\* bucket or of another one, or a copy of what was sent or handed out before, whatever
\* it was meant for.
Credentials(c) ==
  CASE c.with = "nothing" -> {None}
    [] c.with = "admin" -> {AdminKey}
    [] c.with = "copy" -> Sent \ {None, AdminKey}
    [] c.with = "header" -> {Signed(p, c) : p \in Issued(c.bucket)}
    [] c.with = "foreign" -> {Signed(p, c) : p \in UNION {Issued(b) : b \in Buckets \ {c.bucket}}}

\* The answered requests that changed an object, or may have while they read it.
Done == {q \in Requests :
  /\ pc[q] \in Ended
  /\ req[q].op \in {"put", "acl", "remove"} \/ \E k \in Keys : held[q][k] # None}

Arrive(r) ==
  /\ At(r, "idle")
  /\ Cardinality({q \in Requests : Running(q)}) < AtOnce
  /\ \E c \in Calls : \E k \in Credentials(c) :
       /\ \E s \in Scenarios : {c} \cup {req[q] : q \in Requests} \subseteq s.calls \cup {None}
       /\ Unix(now) + c.offset \in Int64
       /\ req' = [req EXCEPT ![r] = c]
       /\ cred' = [cred EXCEPT ![r] = k]
       /\ Goto(r, Entry(c))
       /\ seen' = [seen EXCEPT ![r] = [pair |-> row[c.bucket].pair, master |-> master,
                                       done |-> Done]]
  /\ UNCHANGED <<state, local, now, master, restarts>>

-----------------------------------------------------------------------------
(* adminAuth, bucketAuth *)

AdminAuth(r) ==
  /\ At(r, "admin")
  /\ Goto(r, IF cred[r] = AdminKey THEN "handle" ELSE "unauthorized")
  /\ UNCHANGED <<state, local, env>>

LetIn(r, how) ==
  /\ pass' = [pass EXCEPT ![r] = [bucket |-> req[r].bucket, how |-> how,
                                  time |-> IF how = "public" THEN 0 ELSE now]]
  /\ Goto(r, "handle")

\* Storage.IsPublic, before any credential is looked at: what the row says, or else the
\* sidecar.
IsPublic(r) ==
  /\ At(r, "public")
  /\ IF index[Object(r)] = "public" THEN LetIn(r, "public")
     ELSE /\ Goto(r, IF index[Object(r)] = None THEN "nosuchrow" ELSE "find")
          /\ UNCHANGED pass
  /\ UNCHANGED <<state, found, url, fresh, held, env>>

IsPublicOnDisk(r) ==
  /\ At(r, "nosuchrow")
  /\ IF Object(r) \in sidecars THEN LetIn(r, "public")
     ELSE Goto(r, "find") /\ UNCHANGED pass
  /\ UNCHANGED <<state, found, url, fresh, held, env>>

\* The access key of the query, or else of the header, must belong to the bucket in
\* the path.
BucketByAccessKey_AnyBucket(r) ==
  /\ At(r, "find")
  /\ LET owners == {b \in Buckets : cred[r] # None /\ row[b].pair = cred[r].ak} IN
     IF owners # {}
       THEN /\ \E b \in owners : found' = [found EXCEPT ![r] = row[b]]
            /\ Goto(r, "verify")
       ELSE Goto(r, "unauthorized") /\ UNCHANGED found
  /\ UNCHANGED <<state, pass, url, fresh, held, env>>
BucketByAccessKey(r) ==
  /\ At(r, "find")
  /\ IF cred[r] # None /\ row[req[r].bucket].pair = cred[r].ak
       THEN found' = [found EXCEPT ![r] = row[req[r].bucket]] /\ Goto(r, "verify")
       ELSE Goto(r, "unauthorized") /\ UNCHANGED found
  /\ UNCHANGED <<state, pass, url, fresh, held, env>>

\* The secret opens only under the master key that sealed it.
Verify(r) ==
  /\ At(r, "verify")
  /\ LET k == cred[r] IN
     IF found[r].sealed # master THEN Goto(r, "error") /\ UNCHANGED pass
     ELSE IF k.form = "query" /\ VerifyPresigned(req[r], k, found[r].pair)
       THEN LetIn(r, "query")
     ELSE IF k.form = "header" /\ VerifyHeader(req[r], k, found[r].pair)
       THEN LetIn(r, "header")
     ELSE Goto(r, "forbidden") /\ UNCHANGED pass
  /\ UNCHANGED <<state, found, url, fresh, held, env>>

-----------------------------------------------------------------------------
(* Handlers *)

\* authedBucket: fail closed if bucketAuth did not resolve this bucket.
AuthedBucket_Trusting(r) == pass[r] # None => pass[r].bucket = req[r].bucket
AuthedBucket(r) == pass[r] # None /\ pass[r].bucket = req[r].bucket

Handling(r, ops) == At(r, "handle") /\ req[r].op \in ops /\ AuthedBucket(r)

Unauthenticated(r) ==
  /\ At(r, "handle") /\ req[r].op \notin AdminOps /\ ~AuthedBucket(r)
  /\ Goto(r, "unauthorized")
  /\ UNCHANGED <<state, local, env>>

\* How long a browser reuses the answer to a GET.
Answer(r) ==
  LET age == IF req[r].op \in {"get", "head"} /\ pass[r].how = "query"
               THEN MaxAge(cred[r].at) ELSE 0
  IN  /\ Goto(r, "ok")
      /\ fresh' = [fresh EXCEPT ![r] = IF age > 0 THEN now + age * Ticks ELSE 0]

\* A file without a row is looked up on the disk.
GetObject(r) ==
  /\ Handling(r, {"get", "head"})
  /\ IF Object(r) \notin files THEN Goto(r, "notfound") /\ UNCHANGED fresh
     ELSE IF index[Object(r)] = None THEN Goto(r, "walk") /\ UNCHANGED fresh
     ELSE Answer(r)
  /\ UNCHANGED <<state, found, pass, url, held, env>>

\* The visibility that a PUT, an ACL change or a DELETE is about to leave: every PUT
\* replaces it.
Wanted(r) == IF req[r].op = "remove" THEN None ELSE IF req[r].public THEN "public" ELSE "private"

\* First the file...
ChangeFile(r) ==
  /\ Handling(r, {"put", "acl", "remove"})
  /\ files' = CASE req[r].op = "put" -> files \cup {Object(r)}
                [] req[r].op = "remove" -> files \ {Object(r)}
                [] OTHER -> files
  /\ Goto(r, IF req[r].op = "acl" /\ Object(r) \notin files THEN "notfound" ELSE "sidecar")
  /\ UNCHANGED <<row, sidecars, index, local, env>>

\* ...then the sidecar: an object without one is private...
ChangeMeta_LeftBehind(r) ==
  /\ At(r, "sidecar")
  /\ sidecars' = CASE Wanted(r) = "public" -> sidecars \cup {Object(r)}
                   [] Wanted(r) = "private" -> sidecars \ {Object(r)}
                   [] OTHER -> sidecars
  /\ Goto(r, "row")
  /\ UNCHANGED <<row, files, index, local, env>>
ChangeMeta(r) ==
  /\ At(r, "sidecar")
  /\ sidecars' = IF Wanted(r) = "public" THEN sidecars \cup {Object(r)} ELSE sidecars \ {Object(r)}
  /\ Goto(r, "row")
  /\ UNCHANGED <<row, files, index, local, env>>

\* ...then the row.  A PUT needs the size of the file for it, an ACL change the rest of
\* the row.
ChangeRow(r) ==
  /\ At(r, "row")
  /\ IF req[r].op = "acl" /\ index[Object(r)] = None
       THEN Goto(r, "walk") /\ UNCHANGED <<index, fresh>>
       ELSE /\ req[r].op = "put" => Object(r) \in files
            /\ index' = [index EXCEPT ![Object(r)] = Wanted(r)]
            /\ Answer(r)
  /\ UNCHANGED <<row, files, sidecars, found, pass, url, held, env>>

\* A bucket without a row, but with files, is reindexed by its first listing.
ListObjects(r) ==
  /\ Handling(r, {"list"})
  /\ LET b == req[r].bucket IN
     IF (\A k \in Keys : index[b, k] = None) /\ (\E k \in Keys : <<b, k>> \in files)
       THEN Goto(r, "reindex") ELSE Goto(r, "ok")
  /\ UNCHANGED <<state, local, env>>

Walking(r) == pc[r] \in {"walk", "cache", "upsert"} /\ req[r].op \in {"list", "reindex"}

\* One at a time: the rows that are there now.  The pass at startup does the same as an
\* administrator's.
ReindexBucket(r) ==
  /\ At(r, "reindex") \/ (At(r, "handle") /\ req[r].op = "reindex")
  /\ ~\E q \in Requests : Walking(q) /\ req[q].bucket = req[r].bucket
  /\ held' = [held EXCEPT ![r] =
       [k \in Keys |-> IF index[req[r].bucket, k] = None THEN None ELSE "row"]]
  /\ Goto(r, "walk")
  /\ UNCHANGED <<state, found, pass, url, fresh, env>>

\* What r makes of k's file and sidecar.  A listing leaves a row that fits alone.
Finds(r, k) ==
  LET o == <<req[r].bucket, k>>
      read == IF o \in sidecars THEN "public" ELSE "private"
  IN  IF o \notin files THEN {IF held[r][k] = "row" THEN "gone" ELSE None}
      ELSE IF req[r].op = "list" /\ held[r][k] = "row" THEN {read, "row"} ELSE {read}

\* indexFromDisk, of the object or of all of the bucket.
IndexFromDisk(r) ==
  /\ At(r, "walk")
  /\ LET walk == req[r].op \in {"list", "reindex"} IN
     /\ walk \/ Object(r) \in files
     /\ \E h \in [Keys -> Held] :
          /\ \A k \in Keys : h[k] \in IF walk \/ k = req[r].key THEN Finds(r, k) ELSE {None}
          /\ held' = [held EXCEPT ![r] = h]
  /\ Goto(r, "cache")
  /\ UNCHANGED <<state, found, pass, url, fresh, env>>

\* A sidecar that was read without an ETag is written again, with what was read.
CacheETags(r) ==
  /\ At(r, "cache")
  /\ \E bare \in SUBSET {k \in Keys : held[r][k] \in Visibility} :
       sidecars' = {o \in Buckets \X Keys :
         IF o[1] = req[r].bucket /\ o[2] \in bare THEN held[r][o[2]] = "public"
                                               ELSE o \in sidecars}
  /\ Goto(r, "upsert")
  /\ UNCHANGED <<row, files, index, local, env>>

\* What r's rows become: an ACL change puts in what it wants, whatever it read.
Upserted(r, o) ==
  IF req[r].op \in {"put", "acl", "remove"} THEN IF o = Object(r) THEN Wanted(r) ELSE index[o]
  ELSE IF o[1] # req[r].bucket \/ held[r][o[2]] \in {None, "row"} THEN index[o]
  ELSE IF held[r][o[2]] = "gone" THEN None ELSE held[r][o[2]]

UpsertRows(r) ==
  /\ At(r, "upsert")
  /\ index' = [o \in Buckets \X Keys |-> Upserted(r, o)]
  /\ Answer(r)
  /\ UNCHANGED <<row, files, sidecars, found, pass, url, held, env>>

\* A file is gone, the disk or the database fails.
Fail(r) ==
  /\ pc[r] \in Acting
  /\ Goto(r, "failed")
  /\ UNCHANGED <<state, local, env>>

\* The URL is signed with the row that bucketAuth read.
Presign(r) ==
  /\ Handling(r, {"presign"})
  /\ IF req[r].seconds \in 1..MaxPresignExpirySeconds
       THEN /\ url' = [url EXCEPT ![r] = Query(found[r].pair, req[r].method,
                         ObjectPath(req[r].bucket, req[r].key), Unix(now) + req[r].seconds)]
            /\ Goto(r, "ok")
       ELSE Goto(r, "badrequest") /\ UNCHANGED url
  /\ UNCHANGED <<state, found, pass, fresh, held, env>>

\* rotateBucketKey: a new pair, sealed under the present master key.
RotateKey_Unsealed(r) ==
  /\ At(r, "handle") /\ req[r].op = "rotate"
  /\ row' = [row EXCEPT ![req[r].bucket] = [pair |-> r, sealed |-> None]]
  /\ Goto(r, "ok")
  /\ UNCHANGED <<files, sidecars, index, local, env>>
RotateKey(r) ==
  /\ At(r, "handle") /\ req[r].op = "rotate"
  /\ row' = [row EXCEPT ![req[r].bucket] = [pair |-> r, sealed |-> master]]
  /\ Goto(r, "ok")
  /\ UNCHANGED <<files, sidecars, index, local, env>>

-----------------------------------------------------------------------------
\* The clock starts with the first request.
Tick ==
  /\ \E r \in Requests : ~At(r, "idle")
  /\ \E s \in Scenarios : now < s.until /\ {req[q] : q \in Requests} \subseteq s.calls \cup {None}
  /\ now' = now + 1
  /\ UNCHANGED <<state, pc, local, master, req, cred, seen, restarts>>

\* The server is stopped, which waits for its handlers, and started again with another
\* master key.
Restart ==
  /\ restarts < MaxRestarts
  /\ \A r \in Requests : ~Running(r)
  /\ restarts' = restarts + 1
  /\ master' \in Masters \ {master}
  /\ UNCHANGED <<state, pc, local, now, req, cred, seen>>

Rest == (\A r \in Requests : ~Running(r)) /\ UNCHANGED vars

Step(r) ==
  \/ AdminAuth(r) \/ IsPublic(r) \/ IsPublicOnDisk(r) \/ BucketByAccessKey(r) \/ Verify(r)
  \/ Unauthenticated(r) \/ GetObject(r) \/ ChangeFile(r) \/ ChangeMeta(r) \/ ChangeRow(r)
  \/ ListObjects(r) \/ ReindexBucket(r) \/ IndexFromDisk(r) \/ CacheETags(r)
  \/ UpsertRows(r) \/ Fail(r) \/ Presign(r) \/ RotateKey(r)

Next == (\E r \in Requests : Arrive(r) \/ Step(r)) \/ Tick \/ Restart \/ Rest

Spec == Init /\ [][Next]_vars

-----------------------------------------------------------------------------
(* Properties *)

Methods == {"GET", "HEAD", "PUT", "DELETE", "POST"}
Paths == [route : {"objects", "acl", "list", "presign", "rotate", "reindex"}, bucket : Buckets,
          key : Keys \cup {None}]
Texts == [method : Methods, path : Paths, at : Int]
Creds == [form : {"header", "query"}, ak : Minters, at : Int,
          sig : [secret : Minters, text : Texts]]

Seens == [pair : Minters, master : Masters, done : SUBSET Requests]

AuthTypeOK ==
  /\ now \in 0..MaxTime /\ master \in Masters /\ restarts \in 0..MaxRestarts
  /\ row \in [Buckets -> Rows]
  /\ files \in SUBSET (Buckets \X Keys) /\ sidecars \in SUBSET (Buckets \X Keys)
  /\ index \in [Buckets \X Keys -> Visibility \cup {None}]
  /\ req \in [Requests -> Calls \cup {None}]
  /\ cred \in [Requests -> Creds \cup {None, AdminKey}]
  /\ pc \in [Requests -> Labels]
  /\ found \in [Requests -> Rows \cup {None}]
  /\ pass \in [Requests -> Passes \cup {None}]
  /\ url \in [Requests -> Creds \cup {None}]
  /\ fresh \in [Requests -> Nat]
  /\ held \in [Requests -> [Keys -> Held]]
  /\ seen \in [Requests -> Seens \cup {None}]

\* Whoever is let in by a signature shows the pair that was the bucket's when the
\* request arrived, and a signature made for this very method, bucket and key: a pair
\* is dead for every request that arrives after its rotation was answered, and so is
\* every URL signed with it, also one that a presign answered later
\* (_docs/presigned-urls.md: "Bound to one bucket, one key, one method").
OnlyAsSigned ==
  \A r \in Requests :
    pass[r] # None /\ pass[r].how # "public" =>
      /\ cred[r].ak = seen[r].pair
      /\ cred[r].sig.secret = cred[r].ak
      /\ cred[r].sig.text.method = Method(req[r].op)
      /\ cred[r].sig.text.path = Path(req[r])

\* Still good: the pair is the bucket's, and was when r arrived, its secret was sealed
\* under the master key of then and today, and the clock has not left the credential's
\* time.
StillGood(r) ==
  LET c == req[r]  k == cred[r]  p == row[c.bucket].pair IN
  /\ k # None /\ k.form # "admin"
  /\ k.ak = p /\ seen[r].pair = p /\ seen[r].master = master
  /\ IF p \in Requests THEN seen[p].master = master
                       ELSE row[c.bucket].sealed = master
  /\ IF k.form = "query"
       THEN Unix(now) <= k.at
       ELSE /\ c.with = "header" /\ c.offset \in -ClockSkewSeconds..ClockSkewSeconds
            /\ Unix(now) - k.at <= ClockSkewSeconds

\* The header was signed for this request, or the URL handed out for this object and
\* method.
MadeFor(r) ==
  IF cred[r].form = "header"
    THEN cred[r].sig.text = StringToSign(Method(req[r].op), Path(req[r]), cred[r].at)
    ELSE \E q \in Requests :
           /\ url[q] = cred[r]
           /\ req[q].bucket = req[r].bucket /\ req[q].key = req[r].key
           /\ req[r].op = IF req[q].method = "GET" THEN "get" ELSE "put"

Hides(c) == c.op = "remove" \/ (c.op \in {"put", "acl"} /\ ~c.public)
Publishes(c) == c.op \in {"put", "acl"} /\ c.public

\* A credential that was made for what it is used for works as long as it is good,
\* whatever else goes on: a header, a presigned URL until its last second, and after
\* the loss of the master key the pair of the next rotation ("which is what makes
\* rotation double as master-key-loss recovery", rotateBucketKey).  Paths that
\* bucketPathRe does not match are the exception.
GoodCredentialsWork ==
  \A r \in Requests :
    /\ pc[r] \in {"unauthorized", "forbidden", "error"} /\ req[r].op \notin AdminOps
    /\ Entry(req[r]) # "handle"
    /\ StillGood(r)
    => ~MadeFor(r)

\* A copied credential ends: two requests with the same header are let in at most two
\* clock skews apart, although the skew is computed in integers that wrap, and two with
\* the same URL at most the longest expiry (_docs/auth-and-signing.md: "This bounds how
\* long a captured header is replayable").
ReplayWindow ==
  \A q, r \in Requests :
    /\ pass[q] # None /\ pass[q].how # "public"
    /\ pass[r] # None /\ pass[r].how # "public"
    /\ cred[q] = cred[r]
    => Unix(pass[r].time) - Unix(pass[q].time)
         <= IF pass[r].how = "header" THEN 2 * ClockSkewSeconds ELSE MaxPresignExpirySeconds

Overlapped(q, r) == req[q] # None /\ q \notin seen[r].done /\ r \notin seen[q].done

\* Somebody else asked to publish r's object, or read it as public when r was under way
\* and may write that back after r.
Republished(r) ==
  \E q \in Requests \ {r} :
    \/ /\ req[q] # None /\ q \notin seen[r].done
       /\ Object(q) = Object(r) /\ Publishes(req[q])
    \/ /\ Overlapped(q, r)
       /\ req[q].bucket = req[r].bucket /\ held[q][req[r].key] = "public"

\* Once an object was made private or deleted, whoever comes later without a credential
\* is not let in, by its row or by its sidecar, whatever failed or was reindexed since,
\* unless someone asked to publish it meanwhile.
\* _docs/public-and-private-objects.md has "immediately; the very next GET with no
\* credential gets 401" without the other exception that the code makes: a GET that found
\* no row, a listing that found none, or a reindex, if it read the sidecar while the
\* change was under way, may put the old visibility back when the change was answered.
PrivateUnlessReread ==
  \A c, r \in Requests :
    /\ pass[c] # None /\ pass[c].how = "public"
    /\ r \in seen[c].done /\ At(r, "ok")
    /\ Object(r) = Object(c) /\ Hides(req[r])
    => Republished(r)

\* No handler of a bucket does anything for a request that bucketAuth did not let in
\* for this bucket, although bucketAuth and the router take paths apart in different
\* ways (authedBucket: "a routing bug - fail closed regardless").
FailClosed ==
  \A r \in Requests : At(r, "ok") =>
    IF req[r].op \in AdminOps THEN cred[r] = AdminKey
    ELSE pass[r] # None /\ pass[r].bucket = req[r].bucket

\* A browser does not reuse an answer beyond the Expires of the URL that it was got
\* with, down to fractions of a second (cacheControl: "without ever serving bytes past
\* the point the credential would have been checked again").
FreshOnlyWhileValid ==
  \A r \in Requests : fresh[r] > 0 =>
    pass[r].how = "query" /\ fresh[r] <= cred[r].at * Ticks
=============================================================================

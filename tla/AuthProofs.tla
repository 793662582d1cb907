----------------------------- MODULE AuthProofs -----------------------------
(***************************************************************************)
(* Proofs about Auth, for every set of requests, calls, buckets, keys and  *)
(* master keys, every width of the integers, every division of the second  *)
(* and every number of restarts: type correctness, the inductive invariant *)
(* and the properties that follow from it.                                 *)
(***************************************************************************)
EXTENDS Auth, TLAPS

-----------------------------------------------------------------------------
(* Data. *)

LEMMA CallFields ==
  ASSUME NEW c \in Calls
  PROVE  /\ c.op \in AllOps /\ c.bucket \in Buckets /\ c.key \in Keys
         /\ c.public \in BOOLEAN /\ c.method \in {"GET", "PUT"} /\ c.seconds \in Int
         /\ c.with \in {"nothing", "admin", "header", "foreign", "copy"} /\ c.offset \in Int
         /\ c # None
  <1>1. c \in CallTypes
    <2>1. PICK s \in Scenarios : c \in s.calls
      BY DEF Calls
    <2> QED
      BY <2>1, AuthConstants
  <1>2. c # None
    BY <1>1, AuthSentinels
  <1> QED
    BY <1>1, <1>2 DEF CallTypes

LEMMA NoneApart ==
  /\ None \notin Minters /\ None \notin Rows /\ None \notin Passes
  /\ None \notin {"public", "private", "row", "gone"}
  BY AuthSentinels DEF Visibility

LEMMA MethodType ==
  ASSUME NEW c \in Calls
  PROVE  Method(c.op) \in Methods
  BY CallFields DEF Method, Methods, AllOps, ObjectOps

LEMMA PathType ==
  ASSUME NEW c \in Calls
  PROVE  Path(c) \in Paths
  BY CallFields DEF Path, Paths, ObjectPath, AllOps, ObjectOps, AdminOps

LEMMA ObjectPathType ==
  ASSUME NEW b \in Buckets, NEW k \in Keys
  PROVE  ObjectPath(b, k) \in Paths
  BY DEF Paths, ObjectPath

LEMMA CredMade ==
  ASSUME NEW p \in Minters, NEW m \in Methods, NEW path \in Paths, NEW t \in Int
  PROVE  /\ Header(p, m, path, t) \in Creds /\ Query(p, m, path, t) \in Creds
         /\ Header(p, m, path, t).form = "header" /\ Query(p, m, path, t).form = "query"
         /\ Header(p, m, path, t).ak = p /\ Query(p, m, path, t).ak = p
         /\ Header(p, m, path, t).at = t /\ Query(p, m, path, t).at = t
  BY DEF Header, Query, Sign, StringToSign, Creds, Texts, Methods, Paths

LEMMA CredFields ==
  ASSUME NEW k \in Creds
  PROVE  k.form \in {"header", "query"} /\ k.ak \in Minters /\ k.at \in Int
  BY DEF Creds

LEMMA AdminApart == AdminKey \notin Creds
  BY DEF AdminKey, Creds

LEMMA SeenFields ==
  ASSUME NEW s \in Seens
  PROVE  s.pair \in Minters /\ s.master \in Masters /\ s.done \in SUBSET Requests
  BY DEF Seens

\* Seconds of a clock in Nat: whole, and they do not run backwards.
LEMMA UnixNat ==
  ASSUME NEW t \in Nat
  PROVE  Unix(t) \in Nat /\ Unix(t) * Ticks <= t /\ Unix(t) <= t
  <1>1. Ticks \in Nat /\ Ticks > 0
    BY AuthConstants
  <1>2. t \div Ticks \in Nat /\ (t \div Ticks) * Ticks <= t
    BY <1>1, SMT
  <1>3. t \div Ticks <= (t \div Ticks) * Ticks
    BY <1>1, <1>2, SMT
  <1> QED
    BY <1>1, <1>2, <1>3, SMT DEF Unix

LEMMA UnixMono ==
  ASSUME NEW s \in Nat, NEW t \in Nat, s <= t
  PROVE  Unix(s) <= Unix(t)
  BY AuthConstants, SMT DEF Unix

-----------------------------------------------------------------------------
(* Types. *)

LEMMA InitType == Init => AuthTypeOK
  <1> SUFFICES ASSUME Init PROVE AuthTypeOK
    OBVIOUS
  <1>1. now \in 0..MaxTime
    BY AuthConstants DEF Init
  <1>2. row \in [Buckets -> Rows]
    BY DEF Init, Rows, Minters
  <1>3. files \in SUBSET (Buckets \X Keys) /\ sidecars \in SUBSET (Buckets \X Keys)
    BY AuthConstants DEF Init
  <1>4. index \in [Buckets \X Keys -> Visibility \cup {None}]
    BY DEF Init, Visibility
  <1>5. held \in [Requests -> [Keys -> Held]]
    BY DEF Init, Held
  <1> QED
    BY <1>1, <1>2, <1>3, <1>4, <1>5, AuthConstants DEF Init, AuthTypeOK, Labels, Ended

\* What a client can send.
LEMMA CredentialsType ==
  ASSUME AuthTypeOK, NEW c \in Calls, NEW k \in Credentials(c)
  PROVE  /\ k \in Creds \cup {None, AdminKey}
         /\ k \notin {None, AdminKey} =>
              \/ \E q \in Requests : k = cred[q]
              \/ \E q \in Requests : At(q, "ok") /\ k = url[q]
              \/ \E b \in Buckets : \E p \in Issued(b) : k = Signed(p, c)
  <1>1. c.with \in {"nothing", "admin", "header", "foreign", "copy"} /\ c.bucket \in Buckets
    BY CallFields
  <1>2. \A b \in Buckets : Issued(b) \subseteq Minters
    BY DEF Issued, Minters
  <1>3. ASSUME NEW b \in Buckets, NEW p \in Issued(b) PROVE Signed(p, c) \in Creds
    <2>1. Unix(now) + c.offset \in Int
      BY CallFields, UnixNat DEF AuthTypeOK
    <2> QED
      BY <1>2, <1>3, <2>1, CredMade, MethodType, PathType DEF Signed
  <1>4. CASE c.with \in {"nothing", "admin"}
    BY <1>4 DEF Credentials
  <1>5. CASE c.with = "copy"
    <2>1. k \in Sent \ {None, AdminKey}
      BY <1>5 DEF Credentials
    <2> QED
      BY <2>1 DEF Sent, AuthTypeOK
  <1>6. CASE c.with \in {"header", "foreign"}
    <2>1. PICK b \in Buckets : \E p \in Issued(b) : k = Signed(p, c)
      BY <1>1, <1>6 DEF Credentials
    <2> QED
      BY <2>1, <1>3
  <1> QED
    BY <1>1, <1>4, <1>5, <1>6

\* A step of a handler gives one request a new place.
LEMMA GotoType ==
  ASSUME AuthTypeOK, NEW r \in Requests, NEW l \in Labels, Goto(r, l)
  PROVE  /\ pc' \in [Requests -> Labels] /\ At(r, l)'
         /\ \A q \in Requests \ {r} : pc'[q] = pc[q]
  BY DEF Goto, At, AuthTypeOK

\* Whoever is not idle has arrived: a call and what it found then are known.
Arrived ==
  \A r \in Requests :
    /\ At(r, "idle") => /\ cred[r] = None /\ req[r] = None /\ seen[r] = None
                        /\ found[r] = None /\ pass[r] = None
    /\ ~At(r, "idle") => /\ req[r] \in Calls /\ seen[r] \in Seens
                         /\ seen[r].done \subseteq Done
    /\ Running(r) => seen[r].master = master

Changers == {"put", "acl", "remove"}

\* What the place of a handler tells about what it did.
StageOf(r) ==
  /\ ~At(r, "ok") => url[r] = None /\ fresh[r] = 0
  /\ pc[r] \in {"admin", "public", "nosuchrow", "find", "verify"} => pass[r] = None
  /\ pc[r] \in {"admin", "public", "nosuchrow", "find"} => found[r] = None
  /\ At(r, "admin") => req[r].op \in AdminOps
  /\ pc[r] \in {"public", "nosuchrow", "find", "verify"} =>
       req[r].op \notin AdminOps /\ Entry(req[r]) # "handle"
  /\ pc[r] \in {"public", "nosuchrow"} => req[r].op \in {"get", "head"}
  /\ At(r, "verify") => found[r] # None
  /\ At(r, "handle") => IF req[r].op \in AdminOps THEN cred[r] = AdminKey
                        ELSE Entry(req[r]) = "handle" \/ AuthedBucket(r)
  /\ pass[r] # None => IF pass[r].how = "public" THEN req[r].op \in {"get", "head"}
                       ELSE found[r] # None
  /\ found[r] # None => /\ cred[r] # None /\ cred[r] \in Creds
                         /\ found[r].pair = cred[r].ak
  /\ pc[r] \in Acting \cup {"ok"} =>
       IF req[r].op \in AdminOps THEN cred[r] = AdminKey ELSE AuthedBucket(r)
  /\ pc[r] \in {"sidecar", "row"} => req[r].op \in Changers
  /\ At(r, "reindex") => req[r].op = "list"
  /\ pc[r] \notin {"cache", "upsert"} \cup Ended => \A k \in Keys : held[r][k] # "public"

Stages == \A r \in Requests : StageOf(r)

LEMMA ArriveType ==
  ASSUME AuthTypeOK, NEW r \in Requests, Arrive(r)
  PROVE  AuthTypeOK'
  <1>0. PICK c \in Calls : \E k \in Credentials(c) :
          /\ req' = [req EXCEPT ![r] = c]
          /\ cred' = [cred EXCEPT ![r] = k]
          /\ Goto(r, Entry(c))
          /\ seen' = [seen EXCEPT ![r] = [pair |-> row[c.bucket].pair, master |-> master,
                                          done |-> Done]]
    BY DEF Arrive
  <1>1. PICK k \in Credentials(c) :
          /\ req' = [req EXCEPT ![r] = c]
          /\ cred' = [cred EXCEPT ![r] = k]
          /\ Goto(r, Entry(c))
          /\ seen' = [seen EXCEPT ![r] = [pair |-> row[c.bucket].pair, master |-> master,
                                          done |-> Done]]
    BY <1>0
  <1>2. Entry(c) \in Labels
    BY DEF Entry, Labels
  <1>3. pc' \in [Requests -> Labels]
    BY <1>1, <1>2, GotoType
  <1>4. [pair |-> row[c.bucket].pair, master |-> master, done |-> Done] \in Seens
    BY CallFields DEF AuthTypeOK, Seens, Done, Rows
  <1>5. k \in Creds \cup {None, AdminKey}
    BY CredentialsType
  <1> QED
    BY <1>1, <1>3, <1>4, <1>5 DEF Arrive, AuthTypeOK, state, local

\* An answer is given once, and says how long it may be used.
LEMMA AnswerType ==
  ASSUME AuthTypeOK, Stages, NEW r \in Requests, req[r] \in Calls, Answer(r),
         req[r].op \in {"get", "head"} => AuthedBucket(r)
  PROVE  /\ pc' \in [Requests -> Labels] /\ fresh' \in [Requests -> Nat]
         /\ \A q \in Requests \ {r} : fresh'[q] = fresh[q] /\ pc'[q] = pc[q]
         /\ pc'[r] = "ok"
         /\ fresh'[r] > 0 => /\ req[r].op \in {"get", "head"} /\ pass[r].how = "query"
                             /\ fresh'[r] = now + MaxAge(cred[r].at) * Ticks
                             /\ MaxAge(cred[r].at) > 0
  <1>1. \A e \in Int : MaxAge(e) \in Nat
    <2> SUFFICES ASSUME NEW e \in Int PROVE MaxAge(e) \in Nat
      OBVIOUS
    <2>1. Ticks \in Nat \ {0} /\ PresignCacheCap \in Nat /\ now \in Nat
      BY AuthConstants DEF AuthTypeOK
    <2>2. e * Ticks - now \in Int
      BY <2>1
    <2>3. e * Ticks - now > 0 => (e * Ticks - now) \div Ticks \in Nat
      BY <2>1, <2>2, SMT
    <2> QED
      BY <2>1, <2>2, <2>3 DEF MaxAge
  <1>2. pc' \in [Requests -> Labels] /\ pc'[r] = "ok" /\ \A q \in Requests \ {r} : pc'[q] = pc[q]
    BY GotoType DEF Answer, Labels, Ended, At
  <1> DEFINE age == IF req[r].op \in {"get", "head"} /\ pass[r].how = "query"
                      THEN MaxAge(cred[r].at) ELSE 0
             n == IF age > 0 THEN now + age * Ticks ELSE 0
  <1>3. fresh' = [fresh EXCEPT ![r] = n]
    BY DEF Answer
  <1>4. CASE req[r].op \notin {"get", "head"}
    <2>1. n = 0
      BY <1>4
    <2> QED
      BY <1>2, <1>3, <2>1 DEF AuthTypeOK
  <1>5. CASE req[r].op \in {"get", "head"}
    <2>1. pass[r].how = "query" => cred[r].at \in Int
      BY <1>5, CredFields DEF AuthedBucket, Stages, StageOf
    <2>2. age \in Nat /\ (pass[r].how # "query" => age = 0)
      BY <1>1, <2>1
    <2>3. n = IF age > 0 THEN now + age * Ticks ELSE 0
      OBVIOUS
    <2>4. pass[r].how = "query" => age = MaxAge(cred[r].at)
      BY <1>5
    <2> HIDE DEF age, n
    <2>5. n \in Nat
      <3>1. age \in Nat /\ Ticks \in Nat /\ now \in Nat
        BY <2>2, AuthConstants DEF AuthTypeOK
      <3>2. age * Ticks \in Nat
        BY <3>1, SMT
      <3> QED
        BY <2>3, <3>1, <3>2
    <2>6. fresh' \in [Requests -> Nat] /\ fresh'[r] = n
          /\ \A q \in Requests \ {r} : fresh'[q] = fresh[q]
      BY <1>3, <2>5 DEF AuthTypeOK
    <2>7. n > 0 => age > 0
      BY <2>2, <2>3
    <2> QED
      BY <1>2, <1>5, <2>2, <2>3, <2>4, <2>6, <2>7
  <1> QED
    BY <1>4, <1>5

LEMMA ObjectType ==
  ASSUME NEW r, req[r] \in Calls
  PROVE  Object(r) \in Buckets \X Keys /\ Wanted(r) \in Visibility \cup {None}
  BY CallFields DEF Object, Wanted, Visibility

\* Who reads the disk writes rows of what a row may be.
LEMMA UpsertedType ==
  ASSUME AuthTypeOK, NEW r \in Requests, req[r] \in Calls, NEW o \in Buckets \X Keys
  PROVE  Upserted(r, o) \in Visibility \cup {None}
  <1>1. held[r][o[2]] \in Held /\ index[o] \in Visibility \cup {None}
    BY DEF AuthTypeOK
  <1> QED
    BY <1>1, ObjectType DEF Upserted, Held, Visibility

LEMMA StepType ==
  ASSUME AuthTypeOK, Arrived, Stages, NEW r \in Requests, Step(r)
  PROVE  AuthTypeOK'
  <1>0. \A l \in Labels \ {"idle"} : At(r, l) => req[r] \in Calls
    BY DEF Arrived, At
  <1>1. CASE AdminAuth(r)
    <2>1. pc' \in [Requests -> Labels]
      BY <1>1, GotoType DEF AdminAuth, Labels, Ended
    <2> QED
      BY <1>1, <2>1 DEF AdminAuth, AuthTypeOK, state, local, env
  <1>2. ASSUME NEW how \in {"public", "header", "query"}, req[r] \in Calls, LetIn(r, how)
        PROVE  pc' \in [Requests -> Labels] /\ pass' \in [Requests -> Passes \cup {None}]
    <2>1. pc' \in [Requests -> Labels]
      BY <1>2, GotoType DEF LetIn, Labels, Ended
    <2>2. [bucket |-> req[r].bucket, how |-> how, time |-> IF how = "public" THEN 0 ELSE now]
            \in Passes
      BY <1>2, CallFields, AuthConstants DEF Passes, AuthTypeOK
    <2> QED
      BY <1>2, <2>1, <2>2 DEF LetIn, AuthTypeOK
  <1>3. CASE IsPublic(r)
    <2>1. req[r] \in Calls
      BY <1>0, <1>3 DEF IsPublic, Labels
    <2>2. pc' \in [Requests -> Labels] /\ pass' \in [Requests -> Passes \cup {None}]
      <3>1. CASE LetIn(r, "public")
        BY <2>1, <3>1, <1>2
      <3>2. CASE (Goto(r, "find") \/ Goto(r, "nosuchrow")) /\ UNCHANGED pass
        BY <3>2, GotoType DEF Labels, AuthTypeOK
      <3> QED
        BY <1>3, <3>1, <3>2 DEF IsPublic
    <2> QED
      BY <1>3, <2>2 DEF IsPublic, AuthTypeOK, state, env
  <1>4. CASE BucketByAccessKey(r)
    <2>1. req[r] \in Calls
      BY <1>0, <1>4 DEF BucketByAccessKey, Labels
    <2>2. pc' \in [Requests -> Labels]
      BY <1>4, GotoType DEF BucketByAccessKey, Labels, Ended
    <2>3. found' \in [Requests -> Rows \cup {None}]
      BY <1>4, <2>1, CallFields DEF BucketByAccessKey, AuthTypeOK
    <2> QED
      BY <1>4, <2>2, <2>3 DEF BucketByAccessKey, AuthTypeOK, state, env
  <1>5. CASE Verify(r)
    <2>1. req[r] \in Calls
      BY <1>0, <1>5 DEF Verify, Labels
    <2>2. \/ LetIn(r, "query") \/ LetIn(r, "header")
          \/ Goto(r, "error") /\ UNCHANGED pass
          \/ Goto(r, "forbidden") /\ UNCHANGED pass
      BY <1>5 DEF Verify
    <2>3. pc' \in [Requests -> Labels] /\ pass' \in [Requests -> Passes \cup {None}]
      <3>1. CASE LetIn(r, "query") \/ LetIn(r, "header")
        BY <2>1, <3>1, <1>2
      <3>2. CASE (Goto(r, "error") \/ Goto(r, "forbidden")) /\ UNCHANGED pass
        BY <3>2, GotoType DEF Labels, Ended, AuthTypeOK
      <3> QED
        BY <2>2, <3>1, <3>2
    <2> QED
      BY <1>5, <2>3 DEF Verify, AuthTypeOK, state, env
  <1>6. CASE Unauthenticated(r)
    <2>1. pc' \in [Requests -> Labels]
      BY <1>6, GotoType DEF Unauthenticated, Labels, Ended
    <2> QED
      BY <1>6, <2>1 DEF Unauthenticated, AuthTypeOK, state, local, env
  <1>7. CASE GetObject(r)
    <2>1. AuthedBucket(r) /\ req[r] \in Calls
      BY <1>0, <1>7 DEF GetObject, Handling, Labels
    <2>2. pc' \in [Requests -> Labels] /\ fresh' \in [Requests -> Nat]
      <3>1. CASE Answer(r)
        BY <2>1, <3>1, AnswerType
      <3>2. CASE (Goto(r, "notfound") \/ Goto(r, "walk")) /\ UNCHANGED fresh
        BY <3>2, GotoType DEF Labels, Ended, Acting, AuthTypeOK
      <3> QED
        BY <1>7, <3>1, <3>2 DEF GetObject
    <2> QED
      BY <1>7, <2>2 DEF GetObject, AuthTypeOK, state, env
  <1>8. CASE ChangeFile(r)
    <2>1. pc' \in [Requests -> Labels]
      BY <1>8, GotoType DEF ChangeFile, Labels, Ended, Acting
    <2>2. Object(r) \in Buckets \X Keys /\ req[r].op \in {"put", "acl", "remove"}
      BY <1>0, <1>8, ObjectType DEF ChangeFile, Handling, Labels
    <2>3. files' \in {files, files \cup {Object(r)}, files \ {Object(r)}}
      <3>1. CASE req[r].op = "put"     BY <1>8, <3>1 DEF ChangeFile
      <3>2. CASE req[r].op = "acl"     BY <1>8, <3>2 DEF ChangeFile
      <3>3. CASE req[r].op = "remove"  BY <1>8, <3>3 DEF ChangeFile
      <3> QED
        BY <2>2, <3>1, <3>2, <3>3
    <2>4. files' \in SUBSET (Buckets \X Keys)
      BY <2>2, <2>3 DEF AuthTypeOK
    <2> QED
      BY <1>8, <2>1, <2>4 DEF ChangeFile, AuthTypeOK, local, env
  <1>9. CASE ChangeMeta(r)
    <2>1. pc' \in [Requests -> Labels]
      BY <1>9, GotoType DEF ChangeMeta, Labels, Acting
    <2>2. Object(r) \in Buckets \X Keys
      BY <1>0, <1>9, ObjectType DEF ChangeMeta, Labels, Acting
    <2>3. sidecars' \in SUBSET (Buckets \X Keys)
      BY <1>9, <2>2 DEF ChangeMeta, AuthTypeOK
    <2> QED
      BY <1>9, <2>1, <2>3 DEF ChangeMeta, AuthTypeOK, local, env
  <1>12. ASSUME Answer(r), req[r] \in Calls, pc[r] \in Acting
         PROVE  pc' \in [Requests -> Labels] /\ fresh' \in [Requests -> Nat]
    <2>1. req[r].op \in {"get", "head"} => AuthedBucket(r)
      BY <1>12 DEF Stages, StageOf, AdminOps
    <2> QED
      BY <1>12, <2>1, AnswerType
  <1>13. CASE ChangeRow(r)
    <2>1. req[r] \in Calls /\ pc[r] \in Acting
      BY <1>0, <1>13 DEF ChangeRow, Labels, Acting, At
    <2>2. CASE Goto(r, "walk") /\ UNCHANGED <<index, fresh>>
      <3>1. pc' \in [Requests -> Labels]
        BY <2>2, GotoType DEF Labels, Acting
      <3> QED
        BY <1>13, <2>2, <3>1 DEF ChangeRow, AuthTypeOK, env
    <2>3. CASE index' = [index EXCEPT ![Object(r)] = Wanted(r)] /\ Answer(r)
      <3>1. index' \in [Buckets \X Keys -> Visibility \cup {None}]
        BY <2>1, <2>3, ObjectType DEF AuthTypeOK
      <3>2. pc' \in [Requests -> Labels] /\ fresh' \in [Requests -> Nat]
        BY <1>12, <2>1, <2>3
      <3> QED
        BY <1>13, <3>1, <3>2 DEF ChangeRow, AuthTypeOK, env
    <2> QED
      BY <1>13, <2>2, <2>3 DEF ChangeRow
  <1>14. CASE ListObjects(r)
    <2>1. pc' \in [Requests -> Labels]
      BY <1>14, GotoType DEF ListObjects, Labels, Ended, Acting
    <2> QED
      BY <1>14, <2>1 DEF ListObjects, AuthTypeOK, state, local, env
  <1>15. CASE ReindexBucket(r)
    <2>1. pc' \in [Requests -> Labels]
      BY <1>15, GotoType DEF ReindexBucket, Labels, Acting
    <2>2. held' \in [Requests -> [Keys -> Held]]
      BY <1>15 DEF ReindexBucket, AuthTypeOK, Held
    <2> QED
      BY <1>15, <2>1, <2>2 DEF ReindexBucket, AuthTypeOK, state, env
  <1>16. CASE IndexFromDisk(r)
    <2>1. pc' \in [Requests -> Labels]
      BY <1>16, GotoType DEF IndexFromDisk, Labels, Acting
    <2>2. held' \in [Requests -> [Keys -> Held]]
      BY <1>16 DEF IndexFromDisk, AuthTypeOK
    <2> QED
      BY <1>16, <2>1, <2>2 DEF IndexFromDisk, AuthTypeOK, state, env
  <1>17. CASE CacheETags(r)
    <2>1. pc' \in [Requests -> Labels]
      BY <1>17, GotoType DEF CacheETags, Labels, Acting
    <2>2. sidecars' \in SUBSET (Buckets \X Keys)
      BY <1>17 DEF CacheETags
    <2> QED
      BY <1>17, <2>1, <2>2 DEF CacheETags, AuthTypeOK, local, env
  <1>18. CASE UpsertRows(r)
    <2>1. req[r] \in Calls /\ pc[r] \in Acting
      BY <1>0, <1>18 DEF UpsertRows, Labels, Acting, At
    <2>2. pc' \in [Requests -> Labels] /\ fresh' \in [Requests -> Nat]
      BY <1>12, <1>18, <2>1 DEF UpsertRows
    <2>3. \A o \in Buckets \X Keys : Upserted(r, o) \in Visibility \cup {None}
      BY <2>1, UpsertedType DEF AuthTypeOK
    <2>4. index' \in [Buckets \X Keys -> Visibility \cup {None}]
      BY <1>18, <2>3 DEF UpsertRows
    <2> QED
      BY <1>18, <2>2, <2>4 DEF UpsertRows, AuthTypeOK, env
  <1>19. CASE Fail(r)
    <2>1. pc' \in [Requests -> Labels]
      BY <1>19, GotoType DEF Fail, Labels, Ended
    <2> QED
      BY <1>19, <2>1 DEF Fail, AuthTypeOK, state, local, env
  <1>20. CASE IsPublicOnDisk(r)
    <2>1. req[r] \in Calls
      BY <1>0, <1>20 DEF IsPublicOnDisk, Labels
    <2>2. pc' \in [Requests -> Labels] /\ pass' \in [Requests -> Passes \cup {None}]
      <3>1. CASE LetIn(r, "public")
        BY <2>1, <3>1, <1>2
      <3>2. CASE Goto(r, "find") /\ UNCHANGED pass
        BY <3>2, GotoType DEF Labels, AuthTypeOK
      <3> QED
        BY <1>20, <3>1, <3>2 DEF IsPublicOnDisk
    <2> QED
      BY <1>20, <2>2 DEF IsPublicOnDisk, AuthTypeOK, state, env
  <1>10. CASE Presign(r)
    <2>1. pc' \in [Requests -> Labels]
      BY <1>10, GotoType DEF Presign, Labels, Ended
    <2>2. req[r] \in Calls
      BY <1>0, <1>10 DEF Presign, Handling, Labels
    <2>3. found[r] \in Rows
      BY <1>10 DEF Presign, Handling, AuthedBucket, Stages, StageOf, AuthTypeOK
    <2>4. Unix(now) + req[r].seconds \in Int /\ req[r].method \in Methods
      BY <2>2, CallFields, UnixNat DEF AuthTypeOK, Methods
    <2>5. ObjectPath(req[r].bucket, req[r].key) \in Paths
      BY <2>2, CallFields, ObjectPathType
    <2>6. Query(found[r].pair, req[r].method, ObjectPath(req[r].bucket, req[r].key),
                Unix(now) + req[r].seconds) \in Creds
      BY <2>3, <2>4, <2>5, CredMade DEF Rows
    <2>7. url' \in [Requests -> Creds \cup {None}]
      BY <1>10, <2>6 DEF Presign, AuthTypeOK
    <2> QED
      BY <1>10, <2>1, <2>7 DEF Presign, AuthTypeOK, state, env
  <1>11. CASE RotateKey(r)
    <2>1. pc' \in [Requests -> Labels]
      BY <1>11, GotoType DEF RotateKey, Labels, Ended
    <2>2. row' \in [Buckets -> Rows]
      BY <1>11 DEF RotateKey, AuthTypeOK, Rows, Minters
    <2> QED
      BY <1>11, <2>1, <2>2 DEF RotateKey, AuthTypeOK, local, env
  <1> QED
    BY <1>1, <1>3, <1>4, <1>5, <1>6, <1>7, <1>8, <1>9, <1>10, <1>11, <1>13, <1>14, <1>15, <1>16,
       <1>17, <1>18, <1>19, <1>20 DEF Step

LEMMA TickType ==
  ASSUME AuthTypeOK, Tick PROVE AuthTypeOK'
  <1>1. now' \in 0..MaxTime
    BY AuthConstants DEF Tick, AuthTypeOK
  <1> QED
    BY <1>1 DEF Tick, AuthTypeOK, state, local

LEMMA RestartType ==
  ASSUME AuthTypeOK, Restart PROVE AuthTypeOK'
  <1>1. restarts' \in 0..MaxRestarts /\ master' \in Masters
    BY AuthConstants DEF Restart, AuthTypeOK
  <1> QED
    BY <1>1 DEF Restart, AuthTypeOK, state, local

-----------------------------------------------------------------------------
(* Frames: a step of a handler disturbs its own request only, whose place  *)
(* moves on, and the shared rows and visibilities.                         *)

LEMMA StepFrame ==
  ASSUME AuthTypeOK, NEW r \in Requests, Step(r)
  PROVE  /\ UNCHANGED env
         /\ Running(r) /\ pc'[r] \in Labels \ {"idle"}
         /\ \A q \in Requests \ {r} :
              /\ pc'[q] = pc[q] /\ found'[q] = found[q] /\ pass'[q] = pass[q]
              /\ url'[q] = url[q] /\ fresh'[q] = fresh[q] /\ held'[q] = held[q]
  <1> USE DEF Running, Goto, At, Labels, Ended, Acting, AuthTypeOK
  <1>1. CASE AdminAuth(r)      BY <1>1 DEF AdminAuth, state, local
  <1>2. CASE IsPublic(r)       BY <1>2 DEF IsPublic, LetIn, state
  <1>3. CASE IsPublicOnDisk(r) BY <1>3 DEF IsPublicOnDisk, LetIn, state
  <1>4. CASE BucketByAccessKey(r)  BY <1>4 DEF BucketByAccessKey, state
  <1>5. CASE Verify(r)         BY <1>5 DEF Verify, LetIn, state
  <1>6. CASE Unauthenticated(r) BY <1>6 DEF Unauthenticated, state, local
  <1>7. CASE GetObject(r)      BY <1>7 DEF GetObject, Answer, Handling, state
  <1>8. CASE ChangeFile(r)     BY <1>8 DEF ChangeFile, Handling, local
  <1>9. CASE ChangeMeta(r)     BY <1>9 DEF ChangeMeta, local
  <1>10. CASE ChangeRow(r)     BY <1>10 DEF ChangeRow, Answer
  <1>11. CASE ListObjects(r)   BY <1>11 DEF ListObjects, Handling, state, local
  <1>12. CASE ReindexBucket(r) BY <1>12 DEF ReindexBucket, state
  <1>13. CASE IndexFromDisk(r) BY <1>13 DEF IndexFromDisk, state
  <1>14. CASE CacheETags(r)    BY <1>14 DEF CacheETags, local
  <1>15. CASE UpsertRows(r)    BY <1>15 DEF UpsertRows, Answer
  <1>16. CASE Fail(r)          BY <1>16 DEF Fail, state, local
  <1>17. CASE Presign(r)       BY <1>17 DEF Presign, Handling, state
  <1>18. CASE RotateKey(r)     BY <1>18 DEF RotateKey, local
  <1> QED
    BY <1>1, <1>2, <1>3, <1>4, <1>5, <1>6, <1>7, <1>8, <1>9, <1>10, <1>11, <1>12, <1>13, <1>14,
       <1>15, <1>16, <1>17, <1>18 DEF Step

LEMMA ArriveFrame ==
  ASSUME AuthTypeOK, NEW r \in Requests, Arrive(r)
  PROVE  /\ UNCHANGED <<state, local, now, master>>
         /\ At(r, "idle") /\ pc'[r] = Entry(req'[r])
         /\ pc'[r] \in {"admin", "handle", "public", "find"}
         /\ req'[r] \in Calls /\ cred'[r] \in Credentials(req'[r])
         /\ Unix(now) + req'[r].offset \in Int64
         /\ seen'[r] = [pair |-> row[req'[r].bucket].pair, master |-> master, done |-> Done]
         /\ \A q \in Requests \ {r} :
              /\ pc'[q] = pc[q] /\ req'[q] = req[q] /\ cred'[q] = cred[q] /\ seen'[q] = seen[q]
  <1>1. /\ UNCHANGED <<state, local, now, master>> /\ At(r, "idle")
        /\ \E c \in Calls : \E k \in Credentials(c) :
             /\ Unix(now) + c.offset \in Int64
             /\ req' = [req EXCEPT ![r] = c]
             /\ cred' = [cred EXCEPT ![r] = k]
             /\ Goto(r, Entry(c))
             /\ seen' = [seen EXCEPT ![r] = [pair |-> row[c.bucket].pair, master |-> master,
                                             done |-> Done]]
    BY DEF Arrive, state, local
  <1>2. PICK c \in Calls : \E k \in Credentials(c) :
             /\ Unix(now) + c.offset \in Int64
             /\ req' = [req EXCEPT ![r] = c]
             /\ cred' = [cred EXCEPT ![r] = k]
             /\ Goto(r, Entry(c))
             /\ seen' = [seen EXCEPT ![r] = [pair |-> row[c.bucket].pair, master |-> master,
                                             done |-> Done]]
    BY <1>1
  <1>3. Entry(c) \in {"admin", "handle", "public", "find"}
    BY DEF Entry
  <1> QED
    BY <1>1, <1>2, <1>3 DEF AuthTypeOK, Goto

\* What was answered stays answered, and so does what was read for it.
LEMMA DoneGrows ==
  ASSUME AuthTypeOK, Arrived, [Next]_vars
  PROVE  Done \subseteq Done'
  <1> SUFFICES ASSUME NEW q \in Done PROVE q \in Done'
    OBVIOUS
  <1> USE DEF Done, At
  <1>1. ASSUME NEW r \in Requests, Arrive(r) PROVE q \in Done'
    BY <1>1, ArriveFrame DEF Ended, local
  <1>2. ASSUME NEW r \in Requests, Step(r) PROVE q \in Done'
    BY <1>2, StepFrame DEF Running, env
  <1>3. CASE Tick \/ Restart \/ Rest \/ UNCHANGED vars
    BY <1>3 DEF Tick, Restart, Rest, vars, env, local
  <1> QED
    BY <1>1, <1>2, <1>3 DEF Next

LEMMA ArrivedStep ==
  ASSUME AuthTypeOK, Arrived, Stages, [Next]_vars
  PROVE  Arrived'
  <1>0. Done \subseteq Done'
    BY DoneGrows
  <1>1. ASSUME NEW r \in Requests, Arrive(r) PROVE Arrived'
    <2> DEFINE s == [pair |-> row[req'[r].bucket].pair, master |-> master, done |-> Done]
    <2>0. row[req'[r].bucket] \in Rows
      BY <1>1, ArriveFrame, CallFields DEF AuthTypeOK
    <2>1. seen'[r] = s /\ s \in Seens /\ s.done = Done /\ s.master = master
      BY <1>1, <2>0, ArriveFrame DEF Seens, AuthTypeOK, Done, Rows
    <2>2. pc'[r] # "idle"
      BY <1>1, ArriveFrame
    <2>3. ASSUME NEW q \in Requests \ {r}
          PROVE  /\ pc'[q] = pc[q] /\ req'[q] = req[q] /\ cred'[q] = cred[q] /\ seen'[q] = seen[q]
                 /\ found' = found /\ pass' = pass /\ master' = master
      BY <1>1, ArriveFrame DEF local
    <2>4. req'[r] \in Calls /\ master' = master
      BY <1>1, ArriveFrame
    <2> QED
      BY <1>0, <2>1, <2>2, <2>3, <2>4 DEF Arrived, At, Running
  <1>2. ASSUME NEW r \in Requests, Step(r) PROVE Arrived'
    BY <1>0, <1>2, StepFrame DEF Arrived, At, Running, env
  <1>3. CASE Restart
    BY <1>0, <1>3 DEF Restart, Arrived, At, Running, local
  <1>4. CASE Tick \/ Rest \/ UNCHANGED vars
    BY <1>0, <1>4 DEF Tick, Rest, vars, Arrived, At, Running, local, env
  <1> QED
    BY <1>1, <1>2, <1>3, <1>4 DEF Next

LEMMA EntryPlaces ==
  ASSUME NEW c \in Calls
  PROVE  /\ Entry(c) = "admin" <=> c.op \in AdminOps
         /\ Entry(c) = "public" => c.op \in {"get", "head"}
  BY DEF Entry

LEMMA StageStep ==
  ASSUME AuthTypeOK, Arrived, Stages, NEW r \in Requests, Step(r)
  PROVE  StageOf(r)'
  <1>1. StageOf(r) /\ req[r] \in Calls /\ pc \in [Requests -> Labels]
    BY StepFrame DEF Stages, Arrived, Running, AuthTypeOK, At
  <1> USE <1>1 DEF At, Goto, AuthedBucket, Acting, Ended, AdminOps, Changers
  <1>2. CASE AdminAuth(r)
    BY <1>2 DEF AdminAuth, StageOf, state, local, env, AuthedBucket
  <1>3. CASE IsPublic(r)
    <2>1. CASE LetIn(r, "public")
      <3>1. pass'[r].bucket = req'[r].bucket /\ pass'[r].how = "public" /\ pass'[r] # None
        <4>1. pass'[r] = [bucket |-> req[r].bucket, how |-> "public", time |-> 0]
          BY <2>1 DEF LetIn, AuthTypeOK
        <4>2. pass'[r] \in Passes
          BY <4>1, CallFields, AuthConstants DEF Passes
        <4> QED
          BY <4>1, <4>2, NoneApart, <1>3 DEF IsPublic, env
      <3> QED
        BY <1>3, <2>1, <3>1 DEF IsPublic, LetIn, StageOf, state, env, AuthTypeOK
    <2>2. CASE (Goto(r, "find") \/ Goto(r, "nosuchrow")) /\ UNCHANGED pass
      BY <1>3, <2>2 DEF IsPublic, StageOf, state, env
    <2> QED
      BY <1>3, <2>1, <2>2 DEF IsPublic
  <1>4. CASE BucketByAccessKey(r)
    <2>1. CASE cred[r] # None /\ row[req[r].bucket].pair = cred[r].ak
      <3>1. row[req[r].bucket] \in Rows
        BY CallFields DEF AuthTypeOK
      <3>2. cred[r] \in Creds
        BY <2>1, <3>1, NoneApart DEF AuthTypeOK, AdminKey, Rows
      <3>3. found'[r] = row[req[r].bucket] /\ found'[r] # None /\ pc'[r] = "verify"
        BY <1>4, <2>1, <3>1, NoneApart DEF BucketByAccessKey, AuthTypeOK
      <3> QED
        BY <1>4, <2>1, <3>2, <3>3 DEF BucketByAccessKey, StageOf, state, env
    <2>2. CASE ~(cred[r] # None /\ row[req[r].bucket].pair = cred[r].ak)
      BY <1>4, <2>2 DEF BucketByAccessKey, StageOf, state, env
    <2> QED
      BY <2>1, <2>2
  <1>5. CASE Verify(r)
    <2>1. ASSUME NEW how \in {"header", "query"}, LetIn(r, how) PROVE StageOf(r)'
      <3>1. pass'[r] = [bucket |-> req[r].bucket, how |-> how, time |-> now]
        BY <2>1 DEF LetIn, AuthTypeOK
      <3>2. pass'[r] \in Passes
        BY <3>1, CallFields DEF Passes, AuthTypeOK
      <3> QED
        BY <1>5, <2>1, <3>1, <3>2, NoneApart DEF Verify, LetIn, StageOf, state, env
    <2>2. CASE (Goto(r, "error") \/ Goto(r, "forbidden")) /\ UNCHANGED pass
      BY <1>5, <2>2 DEF Verify, StageOf, state, env
    <2>3. \/ LetIn(r, "query") \/ LetIn(r, "header")
          \/ (Goto(r, "error") \/ Goto(r, "forbidden")) /\ UNCHANGED pass
      BY <1>5 DEF Verify
    <2> QED
      BY <2>1, <2>2, <2>3
  <1>6. CASE Unauthenticated(r)
    BY <1>6 DEF Unauthenticated, StageOf, state, local, env
  <1>7. CASE GetObject(r)
    BY <1>7 DEF GetObject, Answer, Handling, StageOf, Ended, state, env
  <1>8. CASE ChangeFile(r)
    BY <1>8 DEF ChangeFile, Handling, StageOf, Ended, local, env
  <1>9. CASE ChangeMeta(r)
    BY <1>9 DEF ChangeMeta, StageOf, Ended, local, env
  <1>10. CASE ChangeRow(r)
    BY <1>10 DEF ChangeRow, Answer, StageOf, Ended, env
  <1>11. CASE ListObjects(r)
    BY <1>11 DEF ListObjects, Handling, StageOf, Ended, state, local, env
  <1>12. CASE ReindexBucket(r)
    <2>1. held'[r] = [k \in Keys |-> IF index[req[r].bucket, k] = None THEN None ELSE "row"]
      BY <1>12 DEF ReindexBucket, AuthTypeOK
    <2>2. None # "public"
      BY NoneApart
    <2>3. \A k \in Keys : held'[r][k] # "public"
      BY <2>1, <2>2
    <2> QED
      BY <1>12, <2>3 DEF ReindexBucket, StageOf, Ended, state, env
  <1>13. CASE IndexFromDisk(r)
    BY <1>13 DEF IndexFromDisk, StageOf, Ended, state, env
  <1>14. CASE CacheETags(r)
    BY <1>14 DEF CacheETags, StageOf, Ended, local, env
  <1>15. CASE UpsertRows(r)
    BY <1>15 DEF UpsertRows, Answer, StageOf, Ended, env
  <1>16. CASE Fail(r)
    BY <1>16 DEF Fail, StageOf, Ended, state, local, env
  <1>17. CASE Presign(r)
    BY <1>17 DEF Presign, Handling, StageOf, Ended, state, env
  <1>18. CASE RotateKey(r)
    BY <1>18 DEF RotateKey, StageOf, Ended, local, env
  <1>20. CASE IsPublicOnDisk(r)
    <2>1. CASE LetIn(r, "public")
      <3>1. pass'[r].bucket = req'[r].bucket /\ pass'[r].how = "public" /\ pass'[r] # None
        <4>1. pass'[r] = [bucket |-> req[r].bucket, how |-> "public", time |-> 0]
          BY <2>1 DEF LetIn, AuthTypeOK
        <4>2. pass'[r] \in Passes
          BY <4>1, CallFields, AuthConstants DEF Passes
        <4> QED
          BY <4>1, <4>2, NoneApart, <1>20 DEF IsPublicOnDisk, env
      <3> QED
        BY <1>20, <2>1, <3>1 DEF IsPublicOnDisk, LetIn, StageOf, state, env, AuthTypeOK
    <2>2. CASE Goto(r, "find") /\ UNCHANGED pass
      BY <1>20, <2>2 DEF IsPublicOnDisk, StageOf, state, env
    <2> QED
      BY <1>20, <2>1, <2>2 DEF IsPublicOnDisk
  <1> QED
    BY <1>2, <1>3, <1>4, <1>5, <1>6, <1>7, <1>8, <1>9, <1>10, <1>11, <1>12, <1>13, <1>14, <1>15,
       <1>16, <1>17, <1>18, <1>20 DEF Step

LEMMA StagesStep ==
  ASSUME AuthTypeOK, Arrived, Stages, [Next]_vars
  PROVE  Stages'
  <1> SUFFICES ASSUME NEW q \in Requests PROVE StageOf(q)'
    BY DEF Stages
  <1>0. StageOf(q)
    BY DEF Stages
  <1>1. ASSUME NEW r \in Requests, Arrive(r) PROVE StageOf(q)'
    <2>1. CASE q = r
      <3>1. /\ found'[r] = None /\ pass'[r] = None /\ url'[r] = None /\ fresh'[r] = 0
            /\ req'[r] \in Calls
            /\ pc'[r] = Entry(req'[r]) /\ pc'[r] \in {"admin", "handle", "public", "find"}
        <4>1. /\ UNCHANGED local /\ pc[r] = "idle" /\ req'[r] \in Calls
              /\ pc'[r] = Entry(req'[r]) /\ pc'[r] \in {"admin", "handle", "public", "find"}
          BY <1>1, ArriveFrame DEF At
        <4>2. found[r] = None /\ pass[r] = None /\ url[r] = None /\ fresh[r] = 0
          BY <4>1 DEF Arrived, Stages, StageOf, At
        <4> QED
          BY <4>1, <4>2 DEF local
      <3>2. \A k \in Keys : held'[r][k] # "public"
        <4>1. UNCHANGED local /\ pc[r] = "idle"
          BY <1>1, ArriveFrame DEF At
        <4>2. \A k \in Keys : held[r][k] # "public"
          BY <4>1 DEF Stages, StageOf, Ended
        <4> QED
          BY <4>1, <4>2 DEF local
      <3> QED
        BY <2>1, <3>1, <3>2, EntryPlaces DEF StageOf, At, AuthedBucket, Acting, Ended
    <2>2. CASE q # r
      <3>1. /\ UNCHANGED local /\ pc'[q] = pc[q] /\ req'[q] = req[q] /\ cred'[q] = cred[q]
        BY <1>1, <2>2, ArriveFrame
      <3> QED
        BY <1>0, <3>1 DEF StageOf, local, At, AuthedBucket
    <2> QED
      BY <2>1, <2>2
  <1>2. ASSUME NEW r \in Requests, Step(r) PROVE StageOf(q)'
    <2>1. CASE q = r
      BY <1>2, <2>1, StageStep
    <2>2. CASE q # r
      BY <1>0, <1>2, <2>2, StepFrame DEF StageOf, env, At, AuthedBucket
    <2> QED
      BY <2>1, <2>2
  <1>3. CASE Tick \/ Restart \/ Rest \/ UNCHANGED vars
    BY <1>0, <1>3 DEF Tick, Restart, Rest, vars, StageOf, At, AuthedBucket, local, env
  <1> QED
    BY <1>1, <1>2, <1>3 DEF Next

-----------------------------------------------------------------------------
(* Key pairs.  A pair is known from when the rotation that minted it was   *)
(* answered; before that nobody can have signed with it.  So the pair that *)
(* a rotation puts into a row is none that an earlier request shows.       *)

Known == Buckets \cup {p \in Requests : At(p, "ok") /\ req[p].op = "rotate"}

PairOf(r) ==
  /\ cred[r] \notin {None, AdminKey} => cred[r].ak \in Known
  /\ url[r] # None => url[r].ak \in Known
  /\ ~At(r, "idle") =>
       /\ seen[r].pair \in Known
       /\ cred[r] \notin {None, AdminKey} /\ row[req[r].bucket].pair = cred[r].ak
            => seen[r].pair = cred[r].ak
  /\ found[r] # None => seen[r].pair = cred[r].ak

Pairs == /\ \A b \in Buckets : row[b].pair \in Known
         /\ \A r \in Requests : PairOf(r)

LEMMA KnownStays ==
  ASSUME AuthTypeOK, Arrived, [Next]_vars
  PROVE  Known \subseteq Known'
  <1> SUFFICES ASSUME NEW p \in Known PROVE p \in Known'
    OBVIOUS
  <1> USE DEF Known, At
  <1>1. ASSUME NEW r \in Requests, Arrive(r) PROVE p \in Known'
    BY <1>1, ArriveFrame
  <1>2. ASSUME NEW r \in Requests, Step(r) PROVE p \in Known'
    BY <1>2, StepFrame DEF Running, Ended, env
  <1>3. CASE Tick \/ Restart \/ Rest \/ UNCHANGED vars
    BY <1>3 DEF Tick, Restart, Rest, vars, env
  <1> QED
    BY <1>1, <1>2, <1>3 DEF Next

\* Which steps touch what.
LEMMA RowFrame ==
  ASSUME NEW r \in Requests, Step(r)
  PROVE  row' = row \/ RotateKey(r)
  BY DEF Step, AdminAuth, IsPublic, IsPublicOnDisk, BucketByAccessKey, Verify,
         Unauthenticated, GetObject, ChangeFile, ChangeMeta, ChangeRow, ListObjects,
         ReindexBucket, IndexFromDisk, CacheETags, UpsertRows, Fail, Presign, state,
         local

LEMMA UrlFrame ==
  ASSUME NEW r \in Requests, Step(r)
  PROVE  url' = url \/ Presign(r)
  BY DEF Step, AdminAuth, IsPublic, IsPublicOnDisk, BucketByAccessKey, Verify,
         Unauthenticated, GetObject, ChangeFile, ChangeMeta, ChangeRow, ListObjects,
         ReindexBucket, IndexFromDisk, CacheETags, UpsertRows, Fail, RotateKey, state,
         local

LEMMA FoundFrame ==
  ASSUME NEW r \in Requests, Step(r)
  PROVE  found' = found \/ BucketByAccessKey(r)
  BY DEF Step, AdminAuth, IsPublic, IsPublicOnDisk, Verify, Unauthenticated, GetObject,
         ChangeFile, ChangeMeta, ChangeRow, ListObjects, ReindexBucket, IndexFromDisk,
         CacheETags, UpsertRows, Fail, Presign, RotateKey, state, local

LEMMA PassFrame ==
  ASSUME NEW r \in Requests, Step(r)
  PROVE  pass' = pass \/ IsPublic(r) \/ IsPublicOnDisk(r) \/ Verify(r)
  BY DEF Step, AdminAuth, BucketByAccessKey, Unauthenticated, GetObject, ChangeFile,
         ChangeMeta, ChangeRow, ListObjects, ReindexBucket, IndexFromDisk, CacheETags,
         UpsertRows, Fail, Presign, RotateKey, state, local

LEMMA FreshFrame ==
  ASSUME NEW r \in Requests, Step(r)
  PROVE  fresh' = fresh \/ GetObject(r) \/ ChangeRow(r) \/ UpsertRows(r)
  BY DEF Step, AdminAuth, IsPublic, IsPublicOnDisk, BucketByAccessKey, Verify,
         Unauthenticated, ChangeFile, ChangeMeta, ListObjects, ReindexBucket,
         IndexFromDisk, CacheETags, Fail, Presign, RotateKey, state, local

LEMMA SidecarFrame ==
  ASSUME NEW r \in Requests, Step(r)
  PROVE  sidecars' = sidecars \/ ChangeMeta(r) \/ CacheETags(r)
  BY DEF Step, AdminAuth, IsPublic, IsPublicOnDisk, BucketByAccessKey, Verify,
         Unauthenticated, GetObject, ChangeFile, ChangeRow, ListObjects, ReindexBucket,
         IndexFromDisk, UpsertRows, Fail, Presign, RotateKey, state, local

LEMMA IndexFrame ==
  ASSUME NEW r \in Requests, Step(r)
  PROVE  index' = index \/ ChangeRow(r) \/ UpsertRows(r)
  BY DEF Step, AdminAuth, IsPublic, IsPublicOnDisk, BucketByAccessKey, Verify,
         Unauthenticated, GetObject, ChangeFile, ChangeMeta, ListObjects, ReindexBucket,
         IndexFromDisk, CacheETags, Fail, Presign, RotateKey, state, local

LEMMA HeldFrame ==
  ASSUME NEW r \in Requests, Step(r)
  PROVE  held' = held \/ ReindexBucket(r) \/ IndexFromDisk(r)
  BY DEF Step, AdminAuth, IsPublic, IsPublicOnDisk, BucketByAccessKey, Verify,
         Unauthenticated, GetObject, ChangeFile, ChangeMeta, ChangeRow, ListObjects,
         CacheETags, UpsertRows, Fail, Presign, RotateKey, state, local

\* What presign hands out.
LEMMA PresignMade ==
  ASSUME AuthTypeOK, Arrived, Stages, NEW r \in Requests, Presign(r), url'[r] # url[r]
  PROVE  /\ found[r] # None /\ found[r] \in Rows
         /\ req[r].seconds \in 1..MaxPresignExpirySeconds
         /\ url'[r] = Query(found[r].pair, req[r].method,
                            ObjectPath(req[r].bucket, req[r].key), Unix(now) + req[r].seconds)
         /\ url'[r].form = "query" /\ url'[r].ak = found[r].pair
         /\ url'[r].at = Unix(now) + req[r].seconds
  <1>1. found[r] # None /\ found[r] \in Rows
    BY DEF Presign, Handling, AuthedBucket, Stages, StageOf, AuthTypeOK
  <1>2. /\ req[r].seconds \in 1..MaxPresignExpirySeconds
        /\ url'[r] = Query(found[r].pair, req[r].method,
                            ObjectPath(req[r].bucket, req[r].key), Unix(now) + req[r].seconds)
    BY DEF Presign, AuthTypeOK
  <1> QED
    BY <1>1, <1>2 DEF Query

\* The pair that a new credential shows was known.
LEMMA ArrivedPair ==
  ASSUME AuthTypeOK, Pairs, NEW c \in Calls, NEW k \in Credentials(c), k \notin {None, AdminKey}
  PROVE  k.ak \in Known
  <1>1. \/ \E q \in Requests : k = cred[q]
        \/ \E q \in Requests : At(q, "ok") /\ k = url[q]
        \/ \E b \in Buckets : \E p \in Issued(b) : k = Signed(p, c)
    BY CredentialsType
  <1>2. ASSUME NEW b \in Buckets, NEW p \in Issued(b), k = Signed(p, c) PROVE k.ak \in Known
    BY <1>2 DEF Issued, Known, Signed, Header
  <1> QED
    BY <1>1, <1>2 DEF Pairs, PairOf

LEMMA PairsStep ==
  ASSUME AuthTypeOK, Arrived, Stages, Pairs, [Next]_vars
  PROVE  Pairs'
  <1>0. Known \subseteq Known'
    BY KnownStays
  <1>1. ASSUME NEW r \in Requests, Arrive(r) PROVE Pairs'
    <2>1. /\ row' = row /\ url' = url /\ found' = found
          /\ req'[r] \in Calls /\ cred'[r] \in Credentials(req'[r])
          /\ seen'[r].pair = row[req'[r].bucket].pair
          /\ found[r] = None
      <3>1. /\ UNCHANGED <<state, local>> /\ At(r, "idle")
            /\ req'[r] \in Calls /\ cred'[r] \in Credentials(req'[r])
            /\ seen'[r] = [pair |-> row[req'[r].bucket].pair, master |-> master,
                           done |-> Done]
        BY <1>1, ArriveFrame
      <3> QED
        BY <3>1 DEF state, local, Arrived
    <2>2. cred'[r] \notin {None, AdminKey} => cred'[r].ak \in Known
      BY <2>1, ArrivedPair
    <2>3. seen'[r].pair \in Known
      BY <2>1, CallFields DEF Pairs
    <2>4. seen'[r].pair \in Known' /\ (cred'[r] \notin {None, AdminKey} => cred'[r].ak \in Known')
      BY <1>0, <2>2, <2>3
    <2>5. PairOf(r)'
      BY <1>0, <2>1, <2>4 DEF PairOf, Pairs
    <2>6. ASSUME NEW q \in Requests \ {r} PROVE PairOf(q)'
      BY <1>0, <1>1, <2>1, <2>6, ArriveFrame DEF PairOf, Pairs, At
    <2> QED
      BY <1>0, <2>1, <2>5, <2>6 DEF Pairs
  <1>2. ASSUME NEW r \in Requests, Step(r) PROVE Pairs'
    <2>1. /\ UNCHANGED <<req, cred, seen>> /\ ~At(r, "idle") /\ req[r] \in Calls
          /\ \A q \in Requests : ~At(q, "idle") <=> ~At(q, "idle")'
      BY <1>2, StepFrame DEF env, Running, At, Arrived
    <2>2. ASSUME NEW b \in Buckets
          PROVE  \/ row'[b] = row[b]
                 \/ RotateKey(r) /\ row'[b].pair = r
      BY <1>2, RowFrame DEF RotateKey, AuthTypeOK
    <2>3. RotateKey(r) => r \notin Known /\ r \in Known'
      BY <2>1, AuthSentinels DEF RotateKey, Known, At, Goto, AuthTypeOK
    <2>4. \A b \in Buckets : row'[b].pair \in Known'
      BY <1>0, <2>2, <2>3 DEF Pairs
    <2>5. ASSUME NEW q \in Requests PROVE PairOf(q)'
      <3>1. cred[q] \notin {None, AdminKey} => cred[q].ak \in Known'
        BY <1>0 DEF Pairs, PairOf
      <3>2. url'[q] # None => url'[q].ak \in Known'
        <4>1. CASE url'[q] = url[q]
          BY <1>0, <4>1 DEF Pairs, PairOf
        <4>2. CASE url'[q] # url[q]
          <5>1. q = r /\ Presign(r)
            BY <1>2, <4>2, StepFrame, UrlFrame
          <5>2. url'[r].ak = found[r].pair /\ found[r] # None
            BY <4>2, <5>1, PresignMade
          <5>3. found[r].pair = seen[r].pair /\ seen[r].pair \in Known
            BY <2>1, <5>2 DEF Pairs, PairOf, Stages, StageOf
          <5> QED
            BY <1>0, <5>1, <5>2, <5>3
        <4> QED
          BY <4>1, <4>2
      <3>3. ~At(q, "idle") => seen[q].pair \in Known'
        BY <1>0 DEF Pairs, PairOf
      <3>4. ASSUME ~At(q, "idle"), cred[q] \notin {None, AdminKey},
                   row'[req[q].bucket].pair = cred[q].ak
            PROVE  seen[q].pair = cred[q].ak
        <4>1. req[q].bucket \in Buckets /\ cred[q].ak \in Known
          BY <3>4, CallFields DEF Arrived, Pairs, PairOf
        <4>2. row'[req[q].bucket] = row[req[q].bucket]
          BY <2>2, <2>3, <3>4, <4>1
        <4> QED
          BY <3>4, <4>2 DEF Pairs, PairOf
      <3>5. found'[q] # None => seen[q].pair = cred[q].ak
        <4>1. CASE found'[q] = found[q]
          BY <4>1 DEF Pairs, PairOf
        <4>2. CASE found'[q] # found[q]
          <5>1. q = r /\ BucketByAccessKey(r)
            BY <1>2, <4>2, StepFrame, FoundFrame
          <5>2. cred[r] # None /\ row[req[r].bucket].pair = cred[r].ak
            BY <4>2, <5>1 DEF BucketByAccessKey
          <5>3. row[req[r].bucket].pair \in Minters
            BY <2>1, CallFields DEF AuthTypeOK, Rows
          <5>4. cred[r] \notin {None, AdminKey}
            BY <5>2, <5>3, NoneApart DEF AdminKey
          <5> QED
            BY <2>1, <5>1, <5>2, <5>4 DEF Pairs, PairOf
        <4> QED
          BY <4>1, <4>2
      <3> QED
        BY <2>1, <3>1, <3>2, <3>3, <3>4, <3>5 DEF PairOf
    <2> QED
      BY <2>4, <2>5 DEF Pairs
  <1>3. CASE Tick \/ Restart \/ Rest \/ UNCHANGED vars
    BY <1>0, <1>3 DEF Tick, Restart, Rest, vars, Pairs, PairOf, At, state, local, env
  <1> QED
    BY <1>1, <1>2, <1>3 DEF Next

-----------------------------------------------------------------------------
(* Times.                                                                  *)

\* Timestamps fit an integer, and no URL outlasts the longest expiry from now on.
TimeIn(k) ==
  /\ k.form = "header" => k.at \in Int64
  /\ k.form = "query" => k.at \in Nat /\ k.at <= Unix(now) + MaxPresignExpirySeconds

\* What was verified when a signature let r in.
Verified(r) ==
  LET k == cred[r]  t == pass[r].time IN
  /\ pass[r].how = k.form /\ t <= now
  /\ k.sig = Sign(k.ak, StringToSign(Method(req[r].op), Path(req[r]), k.at))
  /\ k.form = "header" => k.at \in Int64 /\ WithinSkew(Unix(t), k.at)
  /\ k.form = "query" => /\ k.at \in Nat
                         /\ Unix(t) <= k.at /\ k.at <= Unix(t) + MaxPresignExpirySeconds

TimeOf(r) ==
  /\ cred[r] \notin {None, AdminKey} => TimeIn(cred[r])
  /\ url[r] # None => TimeIn(url[r])
  /\ pass[r] # None /\ pass[r].how # "public" => Verified(r)

Times == \A r \in Requests : TimeOf(r)

LEMMA ArrivedTime ==
  ASSUME AuthTypeOK, Times, NEW c \in Calls, NEW k \in Credentials(c), k \notin {None, AdminKey},
         Unix(now) + c.offset \in Int64
  PROVE  TimeIn(k)
  <1>1. \/ \E q \in Requests : k = cred[q]
        \/ \E q \in Requests : At(q, "ok") /\ k = url[q]
        \/ \E b \in Buckets : \E p \in Issued(b) : k = Signed(p, c)
    BY CredentialsType
  <1>2. ASSUME NEW b \in Buckets, NEW p \in Issued(b), k = Signed(p, c) PROVE TimeIn(k)
    BY <1>2 DEF Signed, Header, TimeIn
  <1> QED
    BY <1>1, <1>2 DEF Times, TimeOf

\* Time goes on.
LEMMA TimeStays ==
  ASSUME AuthTypeOK, NEW k, TimeIn(k), now' \in Nat, now <= now'
  PROVE  TimeIn(k)'
  <1>1. now \in Nat /\ Unix(now) \in Nat /\ Unix(now') \in Nat /\ Unix(now) <= Unix(now')
    BY UnixNat, UnixMono DEF AuthTypeOK
  <1>2. Unix(now)' = Unix(now')
    BY DEF Unix
  <1> QED
    BY <1>1, <1>2, AuthConstants DEF TimeIn

LEMMA VerifyTime ==
  ASSUME AuthTypeOK, Arrived, Stages, Times, NEW r \in Requests, Verify(r),
         pass'[r] # pass[r]
  PROVE  Verified(r)'
  <1>1. UNCHANGED <<cred, req, now>>
    BY DEF Verify, env
  <1>2. found[r] # None /\ cred[r] # None /\ cred[r] \in Creds /\ found[r].pair = cred[r].ak
    BY DEF Verify, Stages, StageOf
  <1>3. TimeIn(cred[r])
    BY <1>2, AdminApart DEF Times, TimeOf
  <1>4. PICK how \in {"query", "header"} :
          /\ LetIn(r, how) /\ cred[r].form = how
          /\ how = "query" => VerifyPresigned(req[r], cred[r], found[r].pair)
          /\ how = "header" => VerifyHeader(req[r], cred[r], found[r].pair)
    BY DEF Verify
  <1>5. pass'[r].how = how /\ pass'[r].time = now
    BY <1>4 DEF LetIn, AuthTypeOK
  <1>6. cred[r].sig = Sign(cred[r].ak, StringToSign(Method(req[r].op), Path(req[r]), cred[r].at))
    BY <1>2, <1>4 DEF VerifyPresigned, VerifyHeader
  <1>7. CASE how = "header"
    BY <1>1, <1>3, <1>4, <1>5, <1>6, <1>7 DEF Verified, TimeIn, VerifyHeader, AuthTypeOK, Unix,
       WithinSkew
  <1>8. CASE how = "query"
    <2>1. Unix(now) <= cred[r].at
      BY <1>2, <1>4, <1>8, CredFields, UnixNat DEF VerifyPresigned, AuthTypeOK
    <2> QED
      BY <1>1, <1>3, <1>4, <1>5, <1>6, <1>8, <2>1 DEF Verified, TimeIn, AuthTypeOK, Unix
  <1> QED
    BY <1>7, <1>8

LEMMA TimesStep ==
  ASSUME AuthTypeOK, Arrived, Stages, Times, [Next]_vars
  PROVE  Times'
  <1>1. ASSUME NEW r \in Requests, Arrive(r) PROVE Times'
    <2>1. /\ url' = url /\ pass' = pass /\ now' = now
          /\ At(r, "idle") /\ pass[r] = None
          /\ req'[r] \in Calls /\ cred'[r] \in Credentials(req'[r])
          /\ Unix(now) + req'[r].offset \in Int64
      <3>1. /\ UNCHANGED <<local, now>> /\ At(r, "idle")
            /\ req'[r] \in Calls /\ cred'[r] \in Credentials(req'[r])
            /\ Unix(now) + req'[r].offset \in Int64
        BY <1>1, ArriveFrame
      <3> QED
        BY <3>1 DEF local, Arrived
    <2>2. cred'[r] \notin {None, AdminKey} => TimeIn(cred'[r])
      BY <2>1, ArrivedTime
    <2>3. TimeOf(r)'
      BY <2>1, <2>2 DEF TimeOf, Times, TimeIn
    <2>4. ASSUME NEW q \in Requests \ {r} PROVE TimeOf(q)'
      <3>1. cred'[q] = cred[q] /\ req'[q] = req[q]
        BY <1>1, ArriveFrame
      <3> QED
        BY <2>1, <3>1 DEF TimeOf, Times, TimeIn, Verified
    <2> QED
      BY <2>3, <2>4 DEF Times
  <1>2. ASSUME NEW r \in Requests, Step(r), NEW q \in Requests PROVE TimeOf(q)'
    <2>1. UNCHANGED <<req, cred, now>> /\ ~At(r, "idle") /\ req[r] \in Calls /\ TimeOf(q)
      BY <1>2, StepFrame DEF env, Running, At, Arrived, Times
    <2>2. cred[q] \notin {None, AdminKey} => TimeIn(cred[q])'
      BY <2>1 DEF TimeOf, TimeIn
    <2>3. url'[q] # None => TimeIn(url[q])' \/ url'[q] # url[q]
      BY <2>1 DEF TimeOf, TimeIn
    <2>4. ASSUME url'[q] # url[q]
          PROVE  url'[q].form = "query" /\ url'[q].at \in Nat
                 /\ url'[q].at <= Unix(now) + MaxPresignExpirySeconds
      <3>1. q = r /\ Presign(r)
        BY <1>2, <2>4, StepFrame, UrlFrame
      <3>2. /\ req[r].seconds \in 1..MaxPresignExpirySeconds
            /\ url'[r].form = "query" /\ url'[r].at = Unix(now) + req[r].seconds
        BY <2>4, <3>1, PresignMade
      <3> QED
        BY <3>1, <3>2, AuthConstants, UnixNat DEF AuthTypeOK
    <2>5. url'[q] # None => TimeIn(url[q])'
      <3>1. CASE url'[q] = url[q]
        BY <2>3, <3>1
      <3>2. CASE url'[q] # url[q]
        BY <2>1, <2>4, <3>2 DEF TimeIn
      <3> QED
        BY <3>1, <3>2
    <2>6. pass'[q] # None /\ pass'[q].how # "public" => Verified(q)'
      <3>1. CASE pass'[q] = pass[q]
        BY <2>1, <3>1 DEF TimeOf, Verified
      <3>2. CASE pass'[q] # pass[q]
        <4>1. q = r /\ (IsPublic(r) \/ IsPublicOnDisk(r) \/ Verify(r))
          BY <1>2, <3>2, StepFrame, PassFrame
        <4>2. CASE IsPublic(r) \/ IsPublicOnDisk(r)
          BY <3>2, <4>1, <4>2 DEF IsPublic, IsPublicOnDisk, LetIn, AuthTypeOK
        <4>3. CASE Verify(r)
          BY <3>2, <4>1, <4>3, VerifyTime
        <4> QED
          BY <4>1, <4>2, <4>3
      <3> QED
        BY <3>1, <3>2
    <2> QED
      BY <2>1, <2>2, <2>5, <2>6 DEF TimeOf, TimeIn
  <1>3. CASE Tick
    <2>1. UNCHANGED <<req, cred, url, pass>> /\ now \in Nat /\ now' \in Nat /\ now <= now'
      BY <1>3 DEF Tick, local, AuthTypeOK
    <2>2. \A k : TimeIn(k) => TimeIn(k)'
      BY <2>1, TimeStays
    <2>3. ASSUME NEW q \in Requests PROVE TimeOf(q)'
      <3>1. TimeOf(q)
        BY DEF Times
      <3>2. cred[q] \notin {None, AdminKey} => TimeIn(cred[q])'
        BY <2>1, <2>2, <3>1 DEF TimeOf, TimeIn
      <3>3. url[q] # None => TimeIn(url[q])'
        BY <2>1, <2>2, <3>1 DEF TimeOf, TimeIn
      <3>4. pass[q] # None => pass[q].time \in Nat
        BY DEF AuthTypeOK, Passes
      <3>5. pass[q] # None /\ pass[q].how # "public" => Verified(q)'
        BY <2>1, <3>1, <3>4 DEF TimeOf, Verified
      <3> QED
        BY <2>1, <3>2, <3>3, <3>5 DEF TimeOf
    <2> QED
      BY <2>3 DEF Times
  <1>4. CASE Restart \/ Rest \/ UNCHANGED vars
    <2>1. UNCHANGED <<req, cred, url, pass, now>>
      BY <1>4 DEF Restart, Rest, vars, local, env
    <2> QED
      BY <2>1 DEF Times, TimeOf, TimeIn, Verified
  <1> QED
    BY <1>1, <1>2, <1>3, <1>4 DEF Next, Times

-----------------------------------------------------------------------------
(* What a browser may reuse, who may come without a credential.            *)

FreshOf(r) ==
  fresh[r] > 0 => /\ pass[r] # None /\ pass[r].how = "query"
                  /\ fresh[r] <= cred[r].at * Ticks

Fresh == \A r \in Requests : FreshOf(r)

\* Whole seconds of what is left end before what is left does.
LEMMA MaxAgeEnds ==
  ASSUME NEW e \in Int, now \in Nat
  PROVE  MaxAge(e) \in Nat /\ (MaxAge(e) > 0 => now + MaxAge(e) * Ticks <= e * Ticks)
  <1>1. Ticks \in Nat /\ Ticks > 0 /\ PresignCacheCap \in Nat
    BY AuthConstants
  <1> DEFINE end == e * Ticks
  <1>2. end \in Int
    BY <1>1
  <1> HIDE DEF end
  <1>3. \A n \in Nat : n \div Ticks \in Nat /\ (n \div Ticks) * Ticks <= n
    BY <1>1, SMT
  <1>4. CASE end - now <= 0
    BY <1>4, <1>2 DEF MaxAge, end
  <1>5. CASE end - now > 0 /\ end - now < PresignCacheCap * Ticks
    <2>1. MaxAge(e) = (end - now) \div Ticks
      BY <1>2, <1>5 DEF MaxAge, end
    <2>2. end - now \in Nat
      BY <1>2, <1>5
    <2>3. MaxAge(e) \in Nat /\ MaxAge(e) * Ticks <= end - now
      BY <1>3, <2>1, <2>2
    <2> HIDE DEF MaxAge
    <2>4. MaxAge(e) * Ticks \in Nat
      BY <1>1, <2>3
    <2> QED
      BY <1>2, <2>3, <2>4 DEF end
  <1>6. CASE end - now > 0 /\ ~(end - now < PresignCacheCap * Ticks)
    <2>1. MaxAge(e) = PresignCacheCap
      BY <1>2, <1>6 DEF MaxAge, end
    <2>2. PresignCacheCap * Ticks \in Nat
      BY <1>1
    <2> QED
      BY <1>1, <1>2, <1>6, <2>1, <2>2 DEF end
  <1> QED
    BY <1>2, <1>4, <1>5, <1>6

LEMMA FreshStep ==
  ASSUME AuthTypeOK, Arrived, Stages, Fresh, [Next]_vars
  PROVE  Fresh'
  <1>1. ASSUME NEW r \in Requests, Arrive(r) PROVE Fresh'
    <2>1. fresh' = fresh /\ pass' = pass /\ pass[r] = None
      <3>1. UNCHANGED local /\ At(r, "idle")
        BY <1>1, ArriveFrame
      <3> QED
        BY <3>1 DEF local, Arrived
    <2>2. \A q \in Requests \ {r} : cred'[q] = cred[q]
      BY <1>1, ArriveFrame
    <2> QED
      BY <2>1, <2>2 DEF Fresh, FreshOf
  <1>2. ASSUME NEW r \in Requests, Step(r), NEW q \in Requests PROVE FreshOf(q)'
    <2>1. cred' = cred
      BY <1>2, StepFrame DEF env
    <2>2. CASE fresh'[q] = fresh[q] /\ pass'[q] = pass[q]
      BY <2>1, <2>2 DEF Fresh, FreshOf
    <2>3. CASE fresh'[q] # fresh[q]
      <3>1. q = r /\ (GetObject(r) \/ ChangeRow(r) \/ UpsertRows(r)) /\ Answer(r)
        BY <1>2, <2>3, StepFrame, FreshFrame DEF GetObject, ChangeRow, UpsertRows
      <3>2. pass' = pass /\ req[r] \in Calls
        BY <1>2, <3>1, StepFrame DEF GetObject, ChangeRow, UpsertRows, Arrived, Running, At
      <3>3. req[r].op \in {"get", "head"} => AuthedBucket(r)
        BY <3>1 DEF GetObject, Handling, ChangeRow, UpsertRows, Acting, At, Stages, StageOf,
           AdminOps
      <3>4. fresh'[r] > 0 => /\ req[r].op \in {"get", "head"} /\ pass[r].how = "query"
                             /\ fresh'[r] = now + MaxAge(cred[r].at) * Ticks
                             /\ MaxAge(cred[r].at) > 0
        BY <3>1, <3>2, <3>3, AnswerType
      <3>5. req[r].op \in {"get", "head"} /\ pass[r].how = "query"
              => pass[r] # None /\ cred[r].at \in Int
        BY <3>3, CredFields DEF AuthedBucket, Stages, StageOf
      <3> QED
        BY <2>1, <3>1, <3>2, <3>4, <3>5, MaxAgeEnds DEF FreshOf, AuthTypeOK
    <2>4. CASE pass'[q] # pass[q] /\ fresh'[q] = fresh[q]
      <3>1. q = r /\ (IsPublic(r) \/ IsPublicOnDisk(r) \/ Verify(r))
        BY <1>2, <2>4, StepFrame, PassFrame
      <3>2. fresh[r] = 0
        BY <3>1 DEF IsPublic, IsPublicOnDisk, Verify, At, Stages, StageOf
      <3> QED
        BY <2>4, <3>1, <3>2 DEF FreshOf
    <2> QED
      BY <2>2, <2>3, <2>4
  <1>3. CASE Tick \/ Restart \/ Rest \/ UNCHANGED vars
    BY <1>3 DEF Tick, Restart, Rest, vars, local, env, Fresh, FreshOf
  <1> QED
    BY <1>1, <1>2, <1>3 DEF Next, Fresh

\* From its sidecar on an object that r hides is only public again if it is published
\* by someone else, and nobody who comes later reads it as public.
Settled == {"row", "walk", "cache", "upsert", "ok"}

Outlasts(r, q) ==
  req[q] # None /\ r \in seen[q].done /\ At(r, "ok") /\ req[q].bucket = req[r].bucket
    => held[q][req[r].key] # "public"

HiddenOf(r) ==
  ~At(r, "idle") /\ Hides(req[r]) /\ ~Republished(r) =>
    /\ held[r][req[r].key] # "public"
    /\ pc[r] \in Settled => Object(r) \notin sidecars
    /\ At(r, "ok") => index[Object(r)] # "public"
    /\ \A q \in Requests : Outlasts(r, q)

Hidden == \A r \in Requests : HiddenOf(r)

PrivateOf(c) ==
  pass[c] # None /\ pass[c].how = "public" =>
    \A r \in seen[c].done :
      At(r, "ok") /\ Object(r) = Object(c) /\ Hides(req[r]) => Republished(r)

LEMMA HidesChanges ==
  ASSUME NEW c \in Calls, Hides(c)
  PROVE  c.op \in Changers /\ ~Publishes(c)
  BY CallFields DEF Hides, Changers, Publishes

\* What was published stays published: nobody unasks, or unreads.
LEMMA RepublishedStays ==
  ASSUME AuthTypeOK, Arrived, Stages, [Next]_vars, NEW r \in Requests, ~At(r, "idle"),
         Republished(r)
  PROVE  Republished(r)'
  <1>0. PICK q \in Requests \ {r} :
          \/ /\ req[q] # None /\ q \notin seen[r].done
             /\ Object(q) = Object(r) /\ Publishes(req[q])
          \/ /\ Overlapped(q, r)
             /\ req[q].bucket = req[r].bucket /\ held[q][req[r].key] = "public"
    BY DEF Republished
  <1>1. ~At(q, "idle")
    BY <1>0 DEF Arrived, Overlapped
  <1>2. req[r] \in Calls /\ req[r].key \in Keys
    BY CallFields DEF Arrived
  <1>3. ASSUME /\ req'[q] = req[q] /\ seen'[q] = seen[q] /\ req'[r] = req[r] /\ seen'[r] = seen[r]
               /\ held[q][req[r].key] = "public" => held'[q][req[r].key] = "public"
        PROVE  Republished(r)'
    BY <1>0, <1>3 DEF Republished, Overlapped, Object
  <1>4. ASSUME NEW p \in Requests, Arrive(p) PROVE Republished(r)'
    <2>1. p # q /\ p # r /\ held' = held
      BY <1>1, <1>4, ArriveFrame DEF local
    <2> QED
      BY <1>3, <1>4, <2>1, ArriveFrame
  <1>5. ASSUME NEW p \in Requests, Step(p) PROVE Republished(r)'
    <2>1. req' = req /\ seen' = seen
      BY <1>5, StepFrame DEF env
    <2>2. ASSUME held[q][req[r].key] = "public" PROVE held'[q] = held[q]
      <3>1. CASE p # q
        BY <1>5, <3>1, StepFrame
      <3>2. CASE p = q
        <4>1. pc[q] \in {"cache", "upsert"} \cup Ended
          BY <1>2, <2>2 DEF Stages, StageOf
        <4>2. ~(ReindexBucket(q) \/ IndexFromDisk(q))
          BY <4>1 DEF ReindexBucket, IndexFromDisk, At, Ended
        <4> QED
          BY <1>5, <3>2, <4>2, HeldFrame
      <3> QED
        BY <3>1, <3>2
    <2> QED
      BY <1>3, <2>1, <2>2
  <1>6. CASE Tick \/ Restart \/ Rest \/ UNCHANGED vars
    BY <1>3, <1>6 DEF Tick, Restart, Rest, vars, env, local
  <1> QED
    BY <1>4, <1>5, <1>6 DEF Next

\* Who hides an object gets on only through its sidecar.
LEMMA SettledStep ==
  ASSUME AuthTypeOK, Arrived, Stages, NEW r \in Requests, Step(r), Hides(req[r]),
         pc'[r] \in Settled
  PROVE  \/ pc[r] \in Settled \ {"ok"}
         \/ ChangeMeta(r)
  <1>1. req[r] \in Calls /\ Running(r)
    BY StepFrame DEF Running, At, Arrived
  <1>2. req[r].op \in Changers
    BY <1>1, HidesChanges
  <1>3. SUFFICES ASSUME ~ChangeMeta(r), pc[r] \notin Settled PROVE FALSE
    BY <1>1 DEF Running, Ended
  <1> USE <1>2, <1>3 DEF Settled, Goto, At, AuthTypeOK, Changers, AdminOps
  <1>4. ~(AdminAuth(r) \/ IsPublic(r) \/ IsPublicOnDisk(r) \/ BucketByAccessKey(r) \/ Verify(r)
          \/ Unauthenticated(r))
    BY DEF AdminAuth, IsPublic, IsPublicOnDisk, BucketByAccessKey, Verify, Unauthenticated, LetIn
  <1>5. ~(GetObject(r) \/ ChangeFile(r) \/ ListObjects(r) \/ Presign(r))
    BY DEF GetObject, ChangeFile, ListObjects, Presign, Handling
  <1>6. ~(ChangeRow(r) \/ IndexFromDisk(r) \/ CacheETags(r) \/ UpsertRows(r) \/ Fail(r))
    BY DEF ChangeRow, IndexFromDisk, CacheETags, UpsertRows, Fail
  <1>7. ~(ReindexBucket(r) \/ RotateKey(r))
    BY DEF ReindexBucket, RotateKey, Stages, StageOf
  <1> QED
    BY <1>4, <1>5, <1>6, <1>7 DEF Step

\* A step of r's own handler, as the one that hides its object.
LEMMA HiddenOfOwn ==
  ASSUME AuthTypeOK, Arrived, Stages, Hidden, NEW r \in Requests, Step(r)
  PROVE  HiddenOf(r)'
  <1> SUFFICES ASSUME Hides(req[r])', ~Republished(r)'
               PROVE  /\ held'[r][req[r].key] # "public"
                      /\ pc'[r] \in Settled => Object(r) \notin sidecars'
                      /\ pc'[r] = "ok" => index'[Object(r)] # "public"
                      /\ \A q \in Requests : Outlasts(r, q)'
    BY StepFrame DEF HiddenOf, At, Object, env
  <1>1. /\ req' = req /\ seen' = seen /\ Running(r) /\ ~At(r, "idle") /\ req[r] \in Calls
        /\ req[r].key \in Keys /\ Hides(req[r])
    BY StepFrame, CallFields DEF env, Running, At, Arrived
  <1>2. ~Republished(r)
    BY <1>1, RepublishedStays DEF Next
  <1>3. /\ held[r][req[r].key] # "public"
        /\ pc[r] \in Settled => Object(r) \notin sidecars
    BY <1>1, <1>2 DEF Hidden, HiddenOf
  <1>4. req[r].op \in Changers /\ Wanted(r) # "public" /\ Object(r) \in Buckets \X Keys
    BY <1>1, HidesChanges, NoneApart, ObjectType DEF Hides, Wanted, Changers
  <1>5. held'[r][req[r].key] # "public"
    <2>1. CASE held' = held
      BY <1>3, <2>1
    <2>2. CASE ReindexBucket(r)
      BY <1>4, <2>2 DEF ReindexBucket, Stages, StageOf, Changers
    <2>3. CASE IndexFromDisk(r)
      <3>1. Object(r) \notin sidecars /\ Object(r) = <<req[r].bucket, req[r].key>>
        BY <1>3, <2>3 DEF IndexFromDisk, At, Settled, Object
      <3>2. held'[r][req[r].key] \in Finds(r, req[r].key)
        BY <1>1, <2>3 DEF IndexFromDisk, AuthTypeOK
      <3> QED
        BY <3>1, <3>2, NoneApart DEF Finds
    <2> QED
      BY <2>1, <2>2, <2>3, HeldFrame
  <1>6. ASSUME pc'[r] \in Settled PROVE Object(r) \notin sidecars'
    <2>1. CASE ChangeMeta(r)
      BY <1>4, <2>1 DEF ChangeMeta
    <2>2. CASE pc[r] \in Settled /\ sidecars' = sidecars
      BY <1>3, <2>2
    <2>3. CASE pc[r] \in Settled /\ CacheETags(r)
      BY <1>3, <1>4, <2>3 DEF CacheETags, Object
    <2> QED
      BY <1>1, <1>6, <2>1, <2>2, <2>3, SettledStep, SidecarFrame
  <1>7. ASSUME pc'[r] = "ok" PROVE index'[Object(r)] # "public"
    <2>1. CASE ChangeRow(r) /\ index' = [index EXCEPT ![Object(r)] = Wanted(r)]
      BY <1>4, <2>1 DEF AuthTypeOK
    <2>2. CASE ChangeRow(r) /\ index' # [index EXCEPT ![Object(r)] = Wanted(r)]
      BY <1>7, <2>2 DEF ChangeRow, Goto, AuthTypeOK
    <2>3. CASE UpsertRows(r)
      BY <1>4, <2>3 DEF UpsertRows, Upserted, Changers
    <2>4. ~ChangeRow(r) /\ ~UpsertRows(r) => FALSE
      <3>1. pc[r] \in Settled \ {"ok"} \/ ChangeMeta(r)
        BY <1>1, <1>7, SettledStep DEF Settled
      <3> QED
        BY <1>7, <3>1
           DEF Settled, Step, AdminAuth, IsPublic, IsPublicOnDisk, BucketByAccessKey, Verify,
               Unauthenticated, GetObject, ChangeFile, ChangeMeta, ListObjects, ReindexBucket,
               IndexFromDisk, CacheETags, Fail, Presign, RotateKey, Handling, Goto, At, AuthTypeOK
    <2> QED
      BY <2>1, <2>2, <2>3, <2>4
  <1>8. ASSUME NEW q \in Requests PROVE Outlasts(r, q)'
    <2>1. req[q] # None => r \notin seen[q].done
      BY <1>1 DEF Arrived, Done, Running, At
    <2> QED
      BY <1>1, <2>1 DEF Outlasts
  <1> QED
    BY <1>5, <1>6, <1>7, <1>8

\* A step of another handler, x.
LEMMA HiddenOfOther ==
  ASSUME AuthTypeOK, Arrived, Stages, Hidden, NEW x \in Requests, Step(x), NEW r \in Requests,
         r # x
  PROVE  HiddenOf(r)'
  <1>1. /\ req' = req /\ seen' = seen /\ Running(x) /\ req[x] \in Calls /\ req[x] # None
        /\ pc'[r] = pc[r] /\ held'[r] = held[r]
    BY StepFrame, CallFields DEF env, Running, At, Arrived
  <1> SUFFICES ASSUME ~At(r, "idle"), Hides(req[r]), ~Republished(r)'
               PROVE  /\ held[r][req[r].key] # "public"
                      /\ pc[r] \in Settled => Object(r) \notin sidecars'
                      /\ At(r, "ok") => index'[Object(r)] # "public"
                      /\ \A q \in Requests : Outlasts(r, q)'
    BY <1>1 DEF HiddenOf, At, Object
  <1>2. ~Republished(r) /\ req[r] \in Calls /\ Object(r) \in Buckets \X Keys /\ req[r].key \in Keys
    BY RepublishedStays, ObjectType, CallFields DEF Next, Arrived
  <1>3. /\ held[r][req[r].key] # "public"
        /\ pc[r] \in Settled => Object(r) \notin sidecars
        /\ At(r, "ok") => index[Object(r)] # "public"
        /\ \A q \in Requests : Outlasts(r, q)
    BY <1>2 DEF Hidden, HiddenOf
  <1>4. x \notin seen[r].done
    BY <1>1 DEF Arrived, Done, Running
  <1>5. ~(Object(x) = Object(r) /\ Publishes(req[x]))
    BY <1>1, <1>2, <1>4, CallFields DEF Republished
  <1>6. Object(x) = Object(r) /\ req[x].op \in Changers => Wanted(x) # "public"
    BY <1>5, NoneApart DEF Publishes, Wanted, Changers
  <1>7. ASSUME pc[r] \in Settled, req[x].bucket = req[r].bucket
        PROVE  held[x][req[r].key] # "public"
    <2>1. CASE r \in seen[x].done
      <3>1. At(r, "ok")
        BY <1>1, <1>7, <2>1 DEF Arrived, Done, At, Settled, Ended, Running
      <3> QED
        BY <1>1, <1>3, <1>7, <2>1, <3>1 DEF Outlasts
    <2>2. CASE r \notin seen[x].done
      BY <1>1, <1>2, <1>4, <1>7, <2>2 DEF Republished, Overlapped
    <2> QED
      BY <2>1, <2>2
  <1>8. ASSUME pc[r] \in Settled PROVE Object(r) \notin sidecars'
    <2>1. CASE sidecars' = sidecars
      BY <1>3, <1>8, <2>1
    <2>2. CASE ChangeMeta(x)
      <3>1. req[x].op \in Changers
        BY <2>2 DEF ChangeMeta, At, Stages, StageOf
      <3> QED
        BY <1>3, <1>6, <1>8, <2>2, <3>1 DEF ChangeMeta
    <2>3. CASE CacheETags(x)
      <3>1. Object(r)[1] = req[r].bucket /\ Object(r)[2] = req[r].key
        BY DEF Object
      <3> QED
        BY <1>2, <1>3, <1>7, <1>8, <2>3, <3>1 DEF CacheETags
    <2> QED
      BY <2>1, <2>2, <2>3, SidecarFrame
  <1>9. ASSUME At(r, "ok") PROVE index'[Object(r)] # "public"
    <2>1. CASE index' = index
      BY <1>3, <1>9, <2>1
    <2>2. CASE ChangeRow(x)
      <3>1. req[x].op \in Changers
        BY <2>2 DEF ChangeRow, At, Stages, StageOf
      <3>2. index' = index \/ index' = [index EXCEPT ![Object(x)] = Wanted(x)]
        BY <2>2 DEF ChangeRow
      <3> QED
        BY <1>2, <1>3, <1>6, <1>9, <3>1, <3>2 DEF AuthTypeOK
    <2>3. CASE UpsertRows(x)
      <3>1. index'[Object(r)] = Upserted(x, Object(r))
        BY <1>2, <2>3 DEF UpsertRows
      <3>2. Object(r)[1] = req[r].bucket /\ Object(r)[2] = req[r].key
        BY DEF Object
      <3>3. req[x].bucket = req[r].bucket => held[x][req[r].key] # "public"
        BY <1>7, <1>9 DEF At, Settled
      <3> QED
        BY <1>3, <1>6, <1>9, <3>1, <3>2, <3>3, NoneApart DEF Upserted, Changers
    <2> QED
      BY <2>1, <2>2, <2>3, IndexFrame
  <1>10. ASSUME NEW q \in Requests PROVE Outlasts(r, q)'
    <2>1. SUFFICES ASSUME req[q] # None, r \in seen[q].done, At(r, "ok"),
                          req[q].bucket = req[r].bucket
                   PROVE  held'[q][req[r].key] # "public"
      BY <1>1 DEF Outlasts, At
    <2>2. held[q][req[r].key] # "public"
      BY <1>3, <2>1 DEF Outlasts
    <2>3. CASE held'[q] = held[q]
      BY <2>2, <2>3
    <2>4. CASE held'[q] # held[q]
      <3>1. q = x /\ (ReindexBucket(x) \/ IndexFromDisk(x))
        BY <2>4, StepFrame, HeldFrame
      <3>2. CASE ReindexBucket(x)
        BY <1>2, <3>1, <3>2, NoneApart DEF ReindexBucket, AuthTypeOK
      <3>3. CASE IndexFromDisk(x)
        <4>1. Object(r) \notin sidecars /\ Object(r) = <<req[x].bucket, req[r].key>>
          BY <1>3, <2>1, <3>1 DEF At, Settled, Object
        <4>2. held'[x][req[r].key] \in Finds(x, req[r].key) \cup {None}
          BY <1>2, <3>3 DEF IndexFromDisk, AuthTypeOK
        <4> QED
          BY <3>1, <4>1, <4>2, NoneApart DEF Finds
      <3> QED
        BY <3>1, <3>2, <3>3
    <2> QED
      BY <2>3, <2>4
  <1> QED
    BY <1>3, <1>8, <1>9, <1>10

LEMMA HiddenStep ==
  ASSUME AuthTypeOK, Arrived, Stages, Hidden, [Next]_vars
  PROVE  Hidden'
  <1>1. ASSUME NEW x \in Requests, Arrive(x), NEW r \in Requests PROVE HiddenOf(r)'
    <2>1. /\ sidecars' = sidecars /\ index' = index /\ held' = held
          /\ At(x, "idle") /\ pc'[x] \in {"admin", "handle", "public", "find"}
          /\ req'[x] \in Calls
          /\ \A p \in Requests \ {x} : pc'[p] = pc[p] /\ req'[p] = req[p] /\ seen'[p] = seen[p]
      BY <1>1, ArriveFrame DEF state, local
    <2>2. \A k \in Keys : held[x][k] # "public"
      BY <2>1 DEF At, Ended, Stages, StageOf
    <2>3. \A p \in Requests \ {x} : req[p] # None => x \notin seen[p].done
      BY <2>1 DEF Arrived, Done, At, Ended
    <2>4. CASE r = x
      <3>1. req'[x].key \in Keys
        BY <2>1, CallFields
      <3>2. \A q \in Requests : Outlasts(x, q)'
        BY <2>1 DEF Outlasts, At
      <3> QED
        BY <2>1, <2>2, <2>4, <3>1, <3>2 DEF HiddenOf, At, Settled
    <2>5. CASE r # x
      <3>1. SUFFICES ASSUME ~At(r, "idle"), Hides(req[r]), ~Republished(r)'
                     PROVE  HiddenOf(r)'
        BY <2>1, <2>5 DEF HiddenOf, At
      <3>2. ~Republished(r) /\ req[r].key \in Keys
        BY <1>1, <3>1, RepublishedStays, CallFields DEF Next, Arrived
      <3>3. /\ held[r][req[r].key] # "public"
            /\ pc[r] \in Settled => Object(r) \notin sidecars
            /\ At(r, "ok") => index[Object(r)] # "public"
            /\ \A q \in Requests : Outlasts(r, q)
        BY <3>1, <3>2 DEF Hidden, HiddenOf
      <3>4. ASSUME NEW q \in Requests PROVE Outlasts(r, q)'
        <4>1. CASE q = x
          BY <2>1, <2>2, <2>5, <3>2, <4>1 DEF Outlasts
        <4>2. CASE q # x
          BY <2>1, <2>5, <3>3, <4>2 DEF Outlasts, At
        <4> QED
          BY <4>1, <4>2
      <3> QED
        BY <2>1, <2>5, <3>3, <3>4 DEF HiddenOf, At, Object
    <2> QED
      BY <2>4, <2>5
  <1>2. ASSUME NEW x \in Requests, Step(x), NEW r \in Requests PROVE HiddenOf(r)'
    BY <1>2, HiddenOfOwn, HiddenOfOther
  <1>3. CASE Tick \/ Restart \/ Rest \/ UNCHANGED vars
    BY <1>3 DEF Tick, Restart, Rest, vars, state, local, env, Hidden, HiddenOf, Outlasts, At,
                Object, Republished, Overlapped
  <1> QED
    BY <1>1, <1>2, <1>3 DEF Next, Hidden

LEMMA PrivateStep ==
  ASSUME AuthTypeOK, Arrived, Stages, Hidden, \A c \in Requests : PrivateOf(c), [Next]_vars
  PROVE  \A c \in Requests : PrivateOf(c)'
  <1>1. ASSUME NEW c \in Requests, NEW r \in Requests, pass'[c] = pass[c], pass[c] # None,
               pass[c].how = "public", seen'[c] = seen[c], r \in seen[c].done, At(r, "ok")',
               (Object(r) = Object(c))', Hides(req[r])',
               req'[c] = req[c], req'[r] = req[r], pc'[r] = pc[r]
        PROVE  Republished(r)'
    <2>1. Republished(r)
      BY <1>1 DEF PrivateOf, Object, At
    <2> QED
      BY <1>1, <2>1, RepublishedStays DEF At
  <1>2. ASSUME NEW x \in Requests, Arrive(x), NEW c \in Requests PROVE PrivateOf(c)'
    <2>1. /\ pass' = pass /\ pass[x] = None /\ At(x, "idle")
          /\ \A p \in Requests \ {x} : pc'[p] = pc[p] /\ req'[p] = req[p] /\ seen'[p] = seen[p]
      BY <1>2, ArriveFrame DEF local, Arrived
    <2>2. ASSUME pass[c] # None
          PROVE  c # x /\ seen[c].done \subseteq Requests \ {x}
      <3>1. c # x /\ ~At(c, "idle")
        BY <2>1, <2>2 DEF Arrived
      <3> QED
        BY <2>1, <3>1 DEF Arrived, Done, At, Ended
    <2> QED
      BY <1>1, <2>1, <2>2 DEF PrivateOf
  <1>3. ASSUME NEW x \in Requests, Step(x), NEW c \in Requests PROVE PrivateOf(c)'
    <2>1. /\ req' = req /\ seen' = seen /\ Running(x)
          /\ \A p \in Requests \ {x} : pass'[p] = pass[p] /\ pc'[p] = pc[p]
      BY <1>3, StepFrame DEF env
    <2>2. CASE pass'[c] = pass[c]
      <3>1. pass[c] # None => seen[c].done \subseteq Requests \ {x}
        BY <2>1 DEF Arrived, Done, Running
      <3> QED
        BY <1>1, <2>1, <2>2, <3>1 DEF PrivateOf
    <2>3. CASE pass'[c] # pass[c]
      <3>1. c = x /\ (IsPublic(x) \/ IsPublicOnDisk(x) \/ Verify(x))
        BY <1>3, <2>1, <2>3, PassFrame
      <3>2. CASE Verify(x)
        BY <2>3, <3>1, <3>2 DEF Verify, LetIn, PrivateOf, AuthTypeOK
      <3>3. CASE IsPublic(x) \/ IsPublicOnDisk(x)
        <4>1. ~At(c, "idle") /\ (index[Object(c)] = "public" \/ Object(c) \in sidecars)
          BY <2>3, <3>1, <3>3 DEF IsPublic, IsPublicOnDisk, At
        <4>2. ASSUME NEW r \in seen[c].done, At(r, "ok"), Object(r) = Object(c), Hides(req[r])
              PROVE  Republished(r)'
          <5>1. r \in Requests /\ ~At(r, "idle")
            BY <4>1, <4>2 DEF Arrived, Done, At
          <5>2. Republished(r)
            BY <4>1, <4>2, <5>1 DEF Hidden, HiddenOf, At, Settled
          <5> QED
            BY <5>1, <5>2, RepublishedStays
        <4>3. seen[c].done \subseteq Requests \ {x}
          BY <2>1, <4>1 DEF Arrived, Done, Running
        <4> QED
          BY <2>1, <4>2, <4>3 DEF PrivateOf, Object, At
      <3> QED
        BY <3>1, <3>2, <3>3
    <2> QED
      BY <2>2, <2>3
  <1>4. ASSUME Tick \/ Restart \/ Rest \/ UNCHANGED vars, NEW c \in Requests PROVE PrivateOf(c)'
    BY <1>4 DEF Tick, Restart, Rest, vars, local, env, PrivateOf, Object, Republished, Overlapped,
       At
  <1> QED
    BY <1>2, <1>3, <1>4 DEF Next

-----------------------------------------------------------------------------
(* Why a request was turned away: what was wrong then is wrong for good.   *)

\* A secret was sealed under the master key that its pair's request found.
Sealed == \A b \in Buckets :
  row[b].pair \in Requests => row[b].sealed = seen[row[b].pair].master

\* No signature, or none for this, or too late.
Refuted(r) ==
  LET c == req[r]  k == cred[r]
      signed == k.sig = Sign(k.ak, StringToSign(Method(c.op), Path(c), k.at))
  IN  /\ k.form = "query" => \/ ~signed \/ Unix(now) > k.at
                             \/ Method(c.op) \notin {"GET", "PUT", "HEAD"}
      /\ k.form = "header" => \/ ~signed \/ Unix(now) - k.at > ClockSkewSeconds
                              \/ c.with # "header"
                              \/ c.offset \notin -ClockSkewSeconds..ClockSkewSeconds

GoodOf(r) ==
  /\ cred[r] \notin {None, AdminKey} =>
       /\ cred[r].sig.secret = cred[r].ak
       /\ req[r].with = "header" => cred[r].at <= Unix(now) + req[r].offset
  /\ url[r] # None =>
       url[r].sig = Sign(url[r].ak, StringToSign(req[r].method,
                                      ObjectPath(req[r].bucket, req[r].key), url[r].at))
  /\ found[r] # None /\ row[req[r].bucket].pair = found[r].pair
       => row[req[r].bucket].sealed = found[r].sealed
  /\ /\ At(r, "unauthorized") /\ req[r].op \notin AdminOps /\ Entry(req[r]) # "handle"
     /\ cred[r] \notin {None, AdminKey}
     => row[req[r].bucket].pair # cred[r].ak
  /\ At(r, "error") => found[r] # None /\ found[r].sealed # seen[r].master
  /\ At(r, "forbidden") => found[r] # None /\ Refuted(r)

Good == Sealed /\ \A r \in Requests : GoodOf(r)

\* Near enough is near enough, whatever the integers wrap to.
LEMMA NearWithin ==
  ASSUME NEW u \in 0..MaxTime, NEW ts \in Int64,
         u - ts <= ClockSkewSeconds, ts - u <= ClockSkewSeconds
  PROVE  WithinSkew(u, ts)
  BY AuthConstants, ClockFits DEF WithinSkew, Wrap, Int64

\* And only near enough is, but for a timestamp half the integers away.
LEMMA SkewIsDistance ==
  ASSUME NEW u \in 0..MaxTime, NEW ts \in Int64, WithinSkew(u, ts)
  PROVE  \/ u - ts <= ClockSkewSeconds /\ ts - u <= ClockSkewSeconds
         \/ u - ts = MaxInt + 1
  BY AuthConstants, ClockFits DEF WithinSkew, Wrap, Int64

LEMMA ArrivedGood ==
  ASSUME AuthTypeOK, Good, NEW c \in Calls, NEW k \in Credentials(c), k \notin {None, AdminKey}
  PROVE  /\ k.sig.secret = k.ak
         /\ c.with = "header" => k.at <= Unix(now) + c.offset
  <1>1. \/ \E q \in Requests : k = cred[q]
        \/ \E q \in Requests : At(q, "ok") /\ k = url[q]
        \/ \E b \in Buckets : \E p \in Issued(b) : k = Signed(p, c)
    BY CredentialsType
  <1>2. ASSUME NEW p, k = Signed(p, c)
        PROVE k.sig.secret = k.ak /\ k.at = Unix(now) + c.offset
    BY <1>2 DEF Signed, Header, Sign
  <1>3. k.sig.secret = k.ak
    <2>1. ASSUME NEW q \in Requests, k = cred[q] PROVE k.sig.secret = k.ak
      BY <2>1 DEF Good, GoodOf
    <2>2. ASSUME NEW q \in Requests, k = url[q] PROVE k.sig.secret = k.ak
      <3>1. k.sig = Sign(k.ak, StringToSign(req[q].method,
                                ObjectPath(req[q].bucket, req[q].key), k.at))
        BY <2>2 DEF Good, GoodOf
      <3> QED
        BY <3>1 DEF Sign
    <2> QED
      BY <1>1, <1>2, <2>1, <2>2
  <1>4. ASSUME c.with = "header" PROVE k.at <= Unix(now) + c.offset
    <2>1. PICK p \in Issued(c.bucket) : k = Signed(p, c)
      BY <1>4 DEF Credentials
    <2>2. k.at = Unix(now) + c.offset /\ Unix(now) + c.offset \in Int
      BY <1>2, <2>1, CallFields, UnixNat DEF AuthTypeOK
    <2> QED
      BY <2>2
  <1> QED
    BY <1>3, <1>4

\* What Verify turns away with 403 will never do.
LEMMA VerifyRefutes ==
  ASSUME AuthTypeOK, Arrived, Stages, Times, Good, NEW r \in Requests, Verify(r),
         At(r, "forbidden")'
  PROVE  Refuted(r) /\ found[r] # None
  <1>1. /\ found[r] # None /\ cred[r] # None /\ cred[r] \in Creds /\ found[r].pair = cred[r].ak
        /\ req[r] \in Calls
    BY DEF Verify, Stages, StageOf, Arrived, At
  <1>2. /\ ~(cred[r].form = "query" /\ VerifyPresigned(req[r], cred[r], found[r].pair))
        /\ ~(cred[r].form = "header" /\ VerifyHeader(req[r], cred[r], found[r].pair))
    BY DEF Verify, LetIn, Goto, At, AuthTypeOK
  <1>3. TimeIn(cred[r]) /\ (req[r].with = "header" => cred[r].at <= Unix(now) + req[r].offset)
    BY <1>1, AdminApart DEF Times, TimeOf, Good, GoodOf
  <1> DEFINE k == cred[r]
             signed == k.sig = Sign(k.ak, StringToSign(Method(req[r].op), Path(req[r]), k.at))
  <1>4. CASE k.form = "query"
    BY <1>1, <1>2, <1>4 DEF Refuted, VerifyPresigned
  <1>5. CASE k.form = "header"
    <2>1. SUFFICES ASSUME signed, req[r].with = "header",
                          req[r].offset \in -ClockSkewSeconds..ClockSkewSeconds
                   PROVE  Unix(now) - k.at > ClockSkewSeconds
      BY <1>1, <1>5 DEF Refuted
    <2>2. ~WithinSkew(Unix(now), k.at)
      BY <1>1, <1>2, <1>5, <2>1 DEF VerifyHeader
    <2>3. Unix(now) \in 0..MaxTime
      BY UnixNat, AuthConstants DEF AuthTypeOK
    <2>4. k.at \in Int64 /\ k.at \in Int
      BY <1>1, <1>3, <1>5, CredFields DEF TimeIn
    <2>5. k.at - Unix(now) <= ClockSkewSeconds
      BY <1>3, <2>1, <2>3, <2>4, AuthConstants
    <2> QED
      BY <2>2, <2>3, <2>4, <2>5, NearWithin, AuthConstants
  <1> QED
    BY <1>1, <1>4, <1>5, CredFields

LEMMA RefutedStays ==
  ASSUME AuthTypeOK, Stages, NEW r \in Requests, Refuted(r), found[r] # None,
         UNCHANGED <<req, cred>>, now' \in Nat, now <= now'
  PROVE  Refuted(r)'
  <1>1. Unix(now) \in Nat /\ Unix(now') \in Nat /\ Unix(now) <= Unix(now')
    BY UnixNat, UnixMono DEF AuthTypeOK
  <1>2. cred[r].at \in Int
    BY CredFields DEF Stages, StageOf
  <1>3. Unix(now)' = Unix(now')
    BY DEF Unix
  <1> QED
    BY <1>1, <1>2, <1>3, AuthConstants DEF Refuted

LEMMA SealedStep ==
  ASSUME AuthTypeOK, Arrived, Stages, Pairs, Sealed, [Next]_vars
  PROVE  Sealed'
  <1>1. ASSUME NEW r \in Requests, Arrive(r) PROVE Sealed'
    <2>1. /\ row' = row /\ At(r, "idle") /\ \A q \in Requests \ {r} : seen'[q] = seen[q]
      <3>1. UNCHANGED state /\ At(r, "idle") /\ \A q \in Requests \ {r} : seen'[q] = seen[q]
        BY <1>1, ArriveFrame
      <3> QED
        BY <3>1 DEF state
    <2>2. \A b \in Buckets : row[b].pair # r
      BY <2>1, AuthSentinels DEF Pairs, Known, At
    <2> QED
      BY <2>1, <2>2 DEF Sealed
  <1>2. ASSUME NEW r \in Requests, Step(r) PROVE Sealed'
    <2>1. seen' = seen /\ seen[r].master = master
      BY <1>2, StepFrame DEF env, Arrived
    <2>2. ASSUME NEW b \in Buckets
          PROVE  row'[b] = row[b] \/ (row'[b].pair = r /\ row'[b].sealed = master)
      <3>1. row'[b] = row[b] \/ row'[b] = [pair |-> r, sealed |-> master]
        BY <1>2, RowFrame DEF RotateKey, AuthTypeOK
      <3> QED
        BY <3>1
    <2> QED
      BY <2>1, <2>2 DEF Sealed
  <1>3. CASE Tick \/ Restart \/ Rest \/ UNCHANGED vars
    BY <1>3 DEF Tick, Restart, Rest, vars, state, env, Sealed
  <1> QED
    BY <1>1, <1>2, <1>3 DEF Next

\* A step of r's own handler.
LEMMA GoodOfStep ==
  ASSUME AuthTypeOK, Arrived, Stages, Pairs, Times, Good, NEW r \in Requests, Step(r),
         NEW q \in Requests
  PROVE  GoodOf(q)'
  <1>1. /\ req' = req /\ cred' = cred /\ seen' = seen /\ now' = now
        /\ Running(r) /\ req[r] \in Calls
        /\ \A p \in Requests \ {r} : pc'[p] = pc[p] /\ found'[p] = found[p] /\ url'[p] = url[p]
    BY StepFrame DEF env, Running, At, Arrived
  <1>2. GoodOf(q)
    BY DEF Good
  <1>3. ASSUME NEW b \in Buckets
        PROVE  row'[b] = row[b] \/ (RotateKey(r) /\ row'[b].pair = r)
    BY RowFrame DEF RotateKey, AuthTypeOK
  <1>4. r \notin Known
    BY <1>1, AuthSentinels DEF Known, Running, At, Ended
  <1>5. found[q] # None \/ cred[q] \notin {None, AdminKey} => req[q].bucket \in Buckets
    BY CallFields DEF Arrived, At
  <1>6. cred[q] \notin {None, AdminKey} =>
          /\ cred[q].sig.secret = cred[q].ak
          /\ req[q].with = "header" => cred[q].at <= Unix(now) + req[q].offset
    BY <1>2 DEF GoodOf
  <1>7. ASSUME url'[q] # None
        PROVE  url'[q].sig = Sign(url'[q].ak, StringToSign(req[q].method,
                               ObjectPath(req[q].bucket, req[q].key), url'[q].at))
    <2>1. CASE url'[q] = url[q]
      BY <1>2, <1>7, <2>1 DEF GoodOf
    <2>2. CASE url'[q] # url[q]
      <3>1. q = r /\ Presign(r)
        BY <1>1, <2>2, UrlFrame
      <3>2. url'[r] = Query(found[r].pair, req[r].method,
                            ObjectPath(req[r].bucket, req[r].key), Unix(now) + req[r].seconds)
        BY <2>2, <3>1, PresignMade
      <3> QED
        BY <3>1, <3>2 DEF Query
    <2> QED
      BY <2>1, <2>2
  <1>8. ASSUME found'[q] # None, row'[req[q].bucket].pair = found'[q].pair
        PROVE  row'[req[q].bucket].sealed = found'[q].sealed
    <2>1. CASE found'[q] = found[q]
      <3>1. found[q].pair \in Known
        BY <1>8, <2>1 DEF Pairs, PairOf, Stages, StageOf, Arrived
      <3>2. row'[req[q].bucket] = row[req[q].bucket]
        BY <1>3, <1>4, <1>5, <1>8, <2>1, <3>1
      <3> QED
        BY <1>2, <1>8, <2>1, <3>2 DEF GoodOf
    <2>2. CASE found'[q] # found[q]
      <3>1. q = r /\ BucketByAccessKey(r)
        BY <1>1, <2>2, FoundFrame
      <3> QED
        BY <2>2, <3>1 DEF BucketByAccessKey, AuthTypeOK, state
    <2> QED
      BY <2>1, <2>2
  <1>9. ASSUME At(q, "unauthorized")', req[q].op \notin AdminOps, Entry(req[q]) # "handle",
               cred[q] \notin {None, AdminKey}
        PROVE  row'[req[q].bucket].pair # cred[q].ak
    <2>1. cred[q].ak \in Known
      BY <1>9 DEF Pairs, PairOf
    <2>2. row[req[q].bucket].pair # cred[q].ak
      <3>1. CASE At(q, "unauthorized")
        BY <1>2, <1>9, <3>1 DEF GoodOf
      <3>2. CASE ~At(q, "unauthorized")
        <4>1. q = r
          BY <1>1, <1>9, <3>2 DEF At
        <4>2. CASE BucketByAccessKey(r)
          BY <1>9, <4>1, <4>2 DEF BucketByAccessKey, At, Goto, AuthTypeOK
        <4>3. CASE AdminAuth(r)
          BY <1>9, <4>1, <4>3 DEF AdminAuth, Stages, StageOf
        <4>4. CASE Unauthenticated(r)
          BY <1>9, <4>1, <4>4 DEF Unauthenticated, Stages, StageOf
        <4>5. ~(BucketByAccessKey(r) \/ AdminAuth(r) \/ Unauthenticated(r)) => ~At(r, "unauthorized")'
          BY DEF Step, IsPublic, IsPublicOnDisk, Verify, LetIn, GetObject, Answer, ChangeFile,
                 ChangeMeta, ChangeRow, ListObjects, ReindexBucket, IndexFromDisk, CacheETags,
                 UpsertRows, Fail, Presign, RotateKey, At, Goto, AuthTypeOK
        <4> QED
          BY <1>9, <4>1, <4>2, <4>3, <4>4, <4>5
      <3> QED
        BY <3>1, <3>2
    <2> QED
      BY <1>3, <1>4, <1>5, <1>9, <2>1, <2>2
  <1>10. ASSUME At(q, "error")' PROVE found'[q] # None /\ found'[q].sealed # seen[q].master
    <2>1. CASE q # r
      BY <1>1, <1>2, <1>10, <2>1 DEF GoodOf, At
    <2>2. CASE q = r
      <3>1. Verify(r) /\ found[r].sealed # master /\ found' = found
        BY <1>1, <1>10, <2>2
           DEF Step, AdminAuth, IsPublic, IsPublicOnDisk, BucketByAccessKey, Verify, Unauthenticated,
               LetIn, GetObject, Answer, ChangeFile, ChangeMeta, ChangeRow, ListObjects,
               ReindexBucket, IndexFromDisk, CacheETags, UpsertRows, Fail, Presign, RotateKey,
               At, Goto, AuthTypeOK, Running, Ended
      <3>2. found[r] # None
        BY <3>1 DEF Verify, Stages, StageOf
      <3> QED
        BY <1>1, <2>2, <3>1, <3>2 DEF Arrived
    <2> QED
      BY <2>1, <2>2
  <1>11. ASSUME At(q, "forbidden")' PROVE found'[q] # None /\ Refuted(q)'
    <2>1. CASE q # r
      BY <1>1, <1>2, <1>11, <2>1 DEF GoodOf, At, Refuted
    <2>2. CASE q = r
      <3>1. Verify(r) /\ found' = found
        BY <1>1, <1>11, <2>2
           DEF Step, AdminAuth, IsPublic, IsPublicOnDisk, BucketByAccessKey, Verify, Unauthenticated,
               LetIn, GetObject, Answer, ChangeFile, ChangeMeta, ChangeRow, ListObjects,
               ReindexBucket, IndexFromDisk, CacheETags, UpsertRows, Fail, Presign, RotateKey,
               At, Goto, AuthTypeOK, Running, Ended
      <3>2. Refuted(r) /\ found[r] # None
        BY <1>11, <2>2, <3>1, VerifyRefutes
      <3> QED
        BY <1>1, <2>2, <3>1, <3>2 DEF Refuted
    <2> QED
      BY <2>1, <2>2
  <1> QED
    BY <1>1, <1>6, <1>7, <1>8, <1>9, <1>10, <1>11 DEF GoodOf

LEMMA GoodStep ==
  ASSUME AuthTypeOK, Arrived, Stages, Pairs, Times, Good, [Next]_vars
  PROVE  Good'
  <1>0. Sealed'
    BY SealedStep DEF Good
  <1>1. ASSUME NEW r \in Requests, Arrive(r), NEW q \in Requests PROVE GoodOf(q)'
    <2>1. /\ url' = url /\ found' = found /\ row' = row /\ now' = now
          /\ found[r] = None /\ url[r] = None
          /\ pc'[r] \in {"admin", "handle", "public", "find"}
          /\ req'[r] \in Calls /\ cred'[r] \in Credentials(req'[r])
      <3>1. /\ UNCHANGED <<state, local, now>> /\ At(r, "idle")
            /\ pc'[r] \in {"admin", "handle", "public", "find"}
            /\ req'[r] \in Calls /\ cred'[r] \in Credentials(req'[r])
        BY <1>1, ArriveFrame
      <3> QED
        BY <3>1 DEF state, local, Arrived, Stages, StageOf, At
    <2>2. CASE q = r
      <3>1. cred'[r] \notin {None, AdminKey} =>
              /\ cred'[r].sig.secret = cred'[r].ak
              /\ req'[r].with = "header" => cred'[r].at <= Unix(now) + req'[r].offset
        BY <2>1, ArrivedGood
      <3> QED
        BY <2>1, <2>2, <3>1 DEF GoodOf, At, Unix
    <2>3. CASE q # r
      <3>1. pc'[q] = pc[q] /\ req'[q] = req[q] /\ cred'[q] = cred[q] /\ seen'[q] = seen[q]
        BY <1>1, <2>3, ArriveFrame
      <3> QED
        BY <2>1, <3>1 DEF Good, GoodOf, At, Unix, Refuted
    <2> QED
      BY <2>2, <2>3
  <1>2. ASSUME NEW r \in Requests, Step(r), NEW q \in Requests PROVE GoodOf(q)'
    BY <1>2, GoodOfStep
  <1>3. CASE Tick
    <2>1. /\ UNCHANGED <<req, cred, url, found, row, pc, seen>>
          /\ now \in Nat /\ now' \in Nat /\ now <= now'
      BY <1>3 DEF Tick, local, state, AuthTypeOK
    <2>2. Unix(now) \in Nat /\ Unix(now') \in Nat /\ Unix(now) <= Unix(now')
      BY <2>1, UnixNat, UnixMono
    <2>3. ASSUME NEW q \in Requests PROVE GoodOf(q)'
      <3>1. GoodOf(q)
        BY DEF Good
      <3>2. ASSUME cred[q] \notin {None, AdminKey}, req[q].with = "header"
            PROVE  cred[q].at <= Unix(now') + req[q].offset
        <4>1. req[q] \in Calls /\ cred[q] \in Creds
          BY <3>2 DEF Arrived, AuthTypeOK
        <4> QED
          BY <2>2, <3>1, <3>2, <4>1, CallFields, CredFields DEF GoodOf
      <3>3. At(q, "forbidden") => Refuted(q)'
        BY <2>1, <3>1, RefutedStays DEF GoodOf
      <3> QED
        BY <2>1, <3>1, <3>2, <3>3 DEF GoodOf, At, Unix
    <2> QED
      BY <1>0, <2>3 DEF Good
  <1>4. CASE Restart \/ Rest \/ UNCHANGED vars
    <2>1. UNCHANGED <<req, cred, url, found, row, pc, seen, now>>
      BY <1>4 DEF Restart, Rest, vars, local, state, env
    <2> QED
      BY <1>0, <2>1 DEF Good, GoodOf, At, Unix, Refuted
  <1> QED
    BY <1>0, <1>1, <1>2, <1>3, <1>4 DEF Next, Good

-----------------------------------------------------------------------------
(* The inductive invariant.                                                *)

AuthInv ==
  /\ AuthTypeOK /\ Arrived /\ Stages /\ Pairs /\ Times /\ Fresh /\ Hidden /\ Good
  /\ \A c \in Requests : PrivateOf(c)

LEMMA AuthInvInit == Init => AuthInv
  <1> SUFFICES ASSUME Init PROVE AuthInv
    OBVIOUS
  <1>1. AuthTypeOK
    BY InitType
  <1>2. \A r \in Requests :
          /\ pc[r] = "idle" /\ req[r] = None /\ cred[r] = None /\ found[r] = None
          /\ pass[r] = None /\ url[r] = None /\ fresh[r] = 0 /\ seen[r] = None
    BY DEF Init
  <1>3. Arrived /\ Stages
    <2>1. \A r \in Requests : \A k \in Keys : held[r][k] # "public"
      BY NoneApart DEF Init
    <2> QED
      BY <1>2, <2>1 DEF Arrived, Stages, StageOf, At, Running, Acting
  <1>4. Pairs
    BY <1>2 DEF Init, Pairs, PairOf, Known, At
  <1>5. Times /\ Fresh
    BY <1>2 DEF Times, TimeOf, Fresh, FreshOf
  <1>6. Hidden /\ \A c \in Requests : PrivateOf(c)
    BY <1>2 DEF Hidden, HiddenOf, PrivateOf, At
  <1>7. Sealed
    BY AuthSentinels DEF Sealed, Init
  <1>8. Good
    BY <1>2, <1>7 DEF Good, GoodOf, At
  <1> QED
    BY <1>1, <1>3, <1>4, <1>5, <1>6, <1>8 DEF AuthInv

LEMMA AuthInvStep == AuthInv /\ [Next]_vars => AuthInv'
  <1> SUFFICES ASSUME AuthInv, [Next]_vars PROVE AuthInv'
    OBVIOUS
  <1>1. AuthTypeOK /\ Arrived /\ Stages /\ Pairs /\ Times /\ Fresh /\ Hidden /\ Good
        /\ \A c \in Requests : PrivateOf(c)
    BY DEF AuthInv
  <1>2. AuthTypeOK'
    <2>1. CASE \E r \in Requests : Arrive(r)
      BY <1>1, <2>1, ArriveType
    <2>2. CASE \E r \in Requests : Step(r)
      BY <1>1, <2>2, StepType
    <2>3. CASE Tick
      BY <1>1, <2>3, TickType
    <2>4. CASE Restart
      BY <1>1, <2>4, RestartType
    <2>5. CASE Rest \/ UNCHANGED vars
      BY <1>1, <2>5 DEF Rest, vars, state, local, env, AuthTypeOK
    <2> QED
      BY <2>1, <2>2, <2>3, <2>4, <2>5 DEF Next
  <1>3. Arrived' /\ Stages'
    BY <1>1, ArrivedStep, StagesStep
  <1>4. Pairs' /\ Times'
    BY <1>1, PairsStep, TimesStep
  <1>5. Fresh' /\ Hidden'
    BY <1>1, FreshStep, HiddenStep
  <1>6. \A c \in Requests : PrivateOf(c)'
    BY <1>1, PrivateStep
  <1>7. Good'
    BY <1>1, GoodStep
  <1> QED
    BY <1>2, <1>3, <1>4, <1>5, <1>6, <1>7 DEF AuthInv

\* AuthInv holds in every reachable state.
THEOREM AuthInvariant == Spec => []AuthInv
  <1> QED
    BY AuthInvInit, AuthInvStep, PTL DEF Spec

-----------------------------------------------------------------------------
(* The properties that the runs check.                                     *)

\* Every variable has its type: no credential, row or URL is ever half made.
THEOREM AuthTypes == Spec => []AuthTypeOK
  <1>1. AuthInv => AuthTypeOK
    BY DEF AuthInv
  <1> QED
    BY <1>1, AuthInvariant, PTL

\* No handler of a bucket answers a request that bucketAuth did not let in for it.
THEOREM FailsClosed == Spec => []FailClosed
  <1>1. AuthInv => FailClosed
    BY DEF AuthInv, Stages, StageOf, FailClosed, AuthedBucket, At
  <1> QED
    BY <1>1, AuthInvariant, PTL

\* A signature lets in what was signed, with the pair that was the bucket's on arrival.
THEOREM LetInAsSigned == Spec => []OnlyAsSigned
  <1>1. AuthInv => OnlyAsSigned
    <2> SUFFICES ASSUME AuthInv, NEW r \in Requests, pass[r] # None, pass[r].how # "public"
                 PROVE  /\ cred[r].ak = seen[r].pair
                        /\ cred[r].sig.secret = cred[r].ak
                        /\ cred[r].sig.text.method = Method(req[r].op)
                        /\ cred[r].sig.text.path = Path(req[r])
      BY DEF OnlyAsSigned
    <2>1. cred[r].ak = seen[r].pair
      BY DEF AuthInv, Stages, StageOf, Pairs, PairOf
    <2>2. cred[r].sig = Sign(cred[r].ak, StringToSign(Method(req[r].op), Path(req[r]), cred[r].at))
      BY DEF AuthInv, Times, TimeOf, Verified
    <2> QED
      BY <2>1, <2>2 DEF Sign, StringToSign
  <1> QED
    BY <1>1, AuthInvariant, PTL

\* Copies of a credential are let in within a bounded time, in spite of wrapping integers.
THEOREM ReplayEnds == Spec => []ReplayWindow
  <1>1. AuthInv => ReplayWindow
    <2> SUFFICES ASSUME AuthInv, NEW q \in Requests, NEW r \in Requests,
                        pass[q] # None, pass[q].how # "public",
                        pass[r] # None, pass[r].how # "public", cred[q] = cred[r]
                 PROVE  Unix(pass[r].time) - Unix(pass[q].time)
                          <= IF pass[r].how = "header" THEN 2 * ClockSkewSeconds
                             ELSE MaxPresignExpirySeconds
      BY DEF ReplayWindow
    <2>1. Verified(q) /\ Verified(r) /\ cred[r].form \in {"header", "query"}
      BY CredFields DEF AuthInv, Times, TimeOf, Stages, StageOf
    <2> DEFINE u == Unix(pass[q].time)  v == Unix(pass[r].time)
    <2>2. u \in 0..MaxTime /\ v \in 0..MaxTime
      <3>1. pass[q].time \in 0..MaxTime /\ pass[r].time \in 0..MaxTime
        BY DEF AuthInv, AuthTypeOK, Passes
      <3> QED
        BY <3>1, UnixNat, AuthConstants
    <2> HIDE DEF u, v
    <2>3. CASE cred[r].form = "header"
      <3> DEFINE ts == cred[r].at
      <3>1. ts \in Int64 /\ WithinSkew(u, ts) /\ WithinSkew(v, ts) /\ pass[r].how = "header"
        BY <2>1, <2>3 DEF Verified, u, v
      <3> HIDE DEF ts
      <3>2. \/ u - ts <= ClockSkewSeconds /\ ts - u <= ClockSkewSeconds
            \/ u - ts = MaxInt + 1
        BY <2>2, <3>1, SkewIsDistance
      <3>3. \/ v - ts <= ClockSkewSeconds /\ ts - v <= ClockSkewSeconds
            \/ v - ts = MaxInt + 1
        BY <2>2, <3>1, SkewIsDistance
      <3>4. v - u <= 2 * ClockSkewSeconds
        BY <2>2, <3>1, <3>2, <3>3, AuthConstants, ClockFits DEF Int64
      <3> QED
        BY <3>1, <3>4 DEF u, v
    <2>4. CASE cred[r].form = "query"
      <3>1. /\ pass[r].how = "query" /\ cred[r].at \in Nat
            /\ v <= cred[r].at /\ cred[r].at <= u + MaxPresignExpirySeconds
        BY <2>1, <2>4 DEF Verified, u, v
      <3>2. v - u <= MaxPresignExpirySeconds
        BY <2>2, <3>1, AuthConstants
      <3> QED
        BY <3>1, <3>2 DEF u, v
    <2> QED
      BY <2>1, <2>3, <2>4
  <1> QED
    BY <1>1, AuthInvariant, PTL

\* Who comes without a credential after an object was hidden stays out, unless someone
\* else publishes it or writes back what was read while it was being hidden.
THEOREM HiddenFromThenOn == Spec => []PrivateUnlessReread
  <1>1. AuthInv => PrivateUnlessReread
    BY DEF AuthInv, PrivateOf, PrivateUnlessReread
  <1> QED
    BY <1>1, AuthInvariant, PTL

\* A browser never reuses an answer beyond its URL, for any division of the second.
THEOREM ReuseEnds == Spec => []FreshOnlyWhileValid
  <1>1. AuthInv => FreshOnlyWhileValid
    BY DEF AuthInv, Fresh, FreshOf, FreshOnlyWhileValid
  <1> QED
    BY <1>1, AuthInvariant, PTL

\* A credential that was made for a request and is still good is never turned away.
THEOREM GoodOnesWork == Spec => []GoodCredentialsWork
  <1>1. AuthInv => GoodCredentialsWork
    <2> SUFFICES ASSUME AuthInv, NEW r \in Requests,
                        pc[r] \in {"unauthorized", "forbidden", "error"}, req[r].op \notin AdminOps,
                        Entry(req[r]) # "handle", StillGood(r), MadeFor(r)
                 PROVE  FALSE
      BY DEF GoodCredentialsWork
    <2> DEFINE c == req[r]  k == cred[r]  p == row[req[r].bucket].pair
    <2>1. /\ k # None /\ k \in Creds /\ k.ak = p /\ seen[r].pair = p /\ seen[r].master = master
          /\ c \in Calls
      BY DEF StillGood, AuthInv, AuthTypeOK, AdminKey, Arrived, At
    <2>2. k \notin {None, AdminKey} /\ GoodOf(r)
      BY <2>1, AdminApart DEF AuthInv, Good
    <2>3. k.sig = Sign(k.ak, StringToSign(Method(c.op), Path(c), k.at))
      <3>1. CASE k.form = "header"
        <4>1. k.sig.text = StringToSign(Method(c.op), Path(c), k.at) /\ k.sig.secret = k.ak
          BY <2>2, <3>1 DEF MadeFor, GoodOf
        <4>2. k.sig \in [secret : Minters, text : Texts]
          BY <2>1 DEF Creds
        <4> QED
          BY <4>1, <4>2 DEF Sign
      <3>2. CASE k.form # "header"
        <4>1. PICK q \in Requests :
                /\ url[q] = k /\ req[q].bucket = c.bucket /\ req[q].key = c.key
                /\ c.op = IF req[q].method = "GET" THEN "get" ELSE "put"
          BY <3>2 DEF MadeFor
        <4>2. k.sig = Sign(k.ak, StringToSign(req[q].method, ObjectPath(c.bucket, c.key), k.at))
          BY <2>1, <4>1 DEF AuthInv, Good, GoodOf
        <4>3. req[q].method \in {"GET", "PUT"}
          <5>1. ~At(q, "idle")
            BY <2>1, <4>1 DEF AuthInv, Stages, StageOf, At
          <5> QED
            BY <5>1, CallFields DEF AuthInv, Arrived
        <4>4. Method(c.op) = req[q].method /\ Path(c) = ObjectPath(c.bucket, c.key)
          BY <4>1, <4>3 DEF Method, Path, ObjectOps
        <4> QED
          BY <4>2, <4>4
      <3> QED
        BY <3>1, <3>2
    <2>4. CASE At(r, "unauthorized")
      BY <2>1, <2>2, <2>4 DEF GoodOf
    <2>5. CASE At(r, "error")
      <3>1. found[r] # None /\ found[r].sealed # seen[r].master /\ found[r].pair = p
        BY <2>1, <2>2, <2>5 DEF GoodOf, AuthInv, Stages, StageOf
      <3>2. row[c.bucket].sealed = found[r].sealed
        BY <2>2, <3>1 DEF GoodOf
      <3>3. row[c.bucket].sealed = master
        BY <2>1, CallFields DEF StillGood, AuthInv, Good, Sealed
      <3> QED
        BY <2>1, <3>1, <3>2, <3>3
    <2>6. CASE At(r, "forbidden")
      <3>1. Refuted(r)
        BY <2>2, <2>6 DEF GoodOf
      <3>2. k.at \in Int /\ k.form \in {"header", "query"} /\ Unix(now) \in Nat
        BY <2>1, CredFields, UnixNat DEF AuthInv, AuthTypeOK
      <3>3. CASE k.form = "header"
        BY <2>3, <3>1, <3>2, <3>3, AuthConstants DEF Refuted, StillGood
      <3>4. CASE k.form = "query"
        <4>1. c.op \in {"get", "put"}
          BY <3>4 DEF MadeFor
        <4>2. Method(c.op) \in {"GET", "PUT"}
          BY <4>1 DEF Method
        <4> QED
          BY <2>3, <3>1, <3>2, <3>4, <4>2 DEF Refuted, StillGood
      <3> QED
        BY <3>2, <3>3, <3>4
    <2> QED
      BY <2>4, <2>5, <2>6 DEF At
  <1> QED
    BY <1>1, AuthInvariant, PTL
=============================================================================

------------------------------ MODULE ApiKeyAuth ------------------------------
(***************************************************************************)
(* API keys (shared/auth.py) and who may read or write with them           *)
(* (api-server/main.py 77-104, server.py _authenticate): a table of keys   *)
(* in Postgres, a Redis cache in front of it that is keyed by the hash of  *)
(* the secret and forgets an entry after a TTL, and requests that are      *)
(* verified at the same time.  Each Redis command and each query is a step *)
(* of its own; the clock, a revocation or an invalidation may fall between *)
(* any two of them.                                                        *)
(***************************************************************************)
EXTENDS Naturals, FiniteSets

CONSTANTS
  Request,     \* requests handled at the same time
  Key,         \* rows api_keys may ever hold
  PublicOf, SecretOf, ProjectOf,  \* their columns; both keys are unique
  ExpiryOf,    \* expires_at, as a tick of the clock; Never is NULL
  Public, Secret, Project,
  DemoProject, \* the project PUBLIC_DEMO_PROJECT names
  PublicDemo,  \* whether PUBLIC_DEMO_PROJECT is set
  Asks,        \* what requests are tried with: <<kind, header>>
  None,        \* nothing: no header, no project, no cache entry
  Garbage,     \* a header or a cache entry that does not parse
  TTL,         \* API_KEY_CACHE_TTL in ticks
  MaxTime,     \* bound: ticks of the clock
  MaxTrouble   \* bound: failures of Redis or Postgres

Time == 0..MaxTime
Never == MaxTime + 1

\* Both columns are unique.
UniqueKeys == \A k, l \in Key :
  SecretOf[k] = SecretOf[l] \/ PublicOf[k] = PublicOf[l] => k = l

ASSUME KeysAssumption ==
  /\ MaxTime \in Nat /\ MaxTrouble \in Nat /\ TTL \in Nat \ {0}
  /\ PublicOf \in [Key -> Public] /\ SecretOf \in [Key -> Secret]
  /\ ProjectOf \in [Key -> Project] /\ ExpiryOf \in [Key -> Time \cup {Never}]
  /\ UniqueKeys
  /\ DemoProject \in Project /\ PublicDemo \in BOOLEAN

Credentials == [public : Public, secret : Secret]

\* A cache entry: the row, when it was read and when it was put.
Entry == [key : Key, read : Time, put : Time]
NotCached == {None, Garbage}

ASSUME NothingAssumption ==
  /\ NotCached \cap Entry = {}
  /\ None \notin Project \cup Key \cup Credentials
  /\ Garbage \notin Credentials \cup {None}
  /\ Asks \subseteq {"read", "write"} \X (Credentials \cup {None, Garbage})

VARIABLES
  now,        \* the clock
  live,       \* keys in the table
  created, revoked,  \* history: when a key was added, and deleted
  demoExists, \* the demo project has been bootstrapped
  demo,       \* app.state.demo_project_id
  cache,      \* apikey:<hash>, by secret
  pc,         \* the next command of each request
  kind,       \* whether it reads or writes
  header,     \* its authorization header
  row,        \* the row it is about to cache
  answer,     \* what it was last answered
  trouble     \* failures so far

table == <<live, created, revoked, demoExists>>
vars == <<now, live, created, revoked, demoExists, demo, cache, pc, kind,
          header, row, answer, trouble>>

\* An answer, with what it rests on: the key, when its row was read and cached
\* and when the answer was given.
Answer == [verdict : {"none", "granted", "denied", "db_error", "redis_error"},
           project : Project \cup {None}, key : Key \cup {None},
           read : Time, put : Time, at : Time]
NoAnswer == [verdict |-> "none", project |-> None, key |-> None,
             read |-> 0, put |-> 0, at |-> 0]
Verdict(v, p, k, read, put) ==
  [verdict |-> v, project |-> p, key |-> k, read |-> read, put |-> put,
   at |-> now]

TypeOK ==
  /\ now \in Time /\ live \subseteq Key
  /\ created \in [Key -> Time \cup {Never}]
  /\ revoked \in [Key -> Time \cup {Never}]
  /\ demoExists \in BOOLEAN /\ demo \in {None, DemoProject}
  /\ cache \in [Secret -> NotCached \cup Entry]
  /\ pc \in [Request -> {"idle", "auth", "get", "del", "fetch", "put"}]
  /\ kind \in [Request -> {"read", "write"}]
  /\ header \in [Request -> Credentials \cup {None, Garbage}]
  /\ row \in [Request -> Key \cup {None}]
  /\ answer \in [Request -> Answer]
  /\ trouble \in 0..MaxTrouble

Init ==
  /\ now = 0 /\ live = {}
  /\ created = [k \in Key |-> Never] /\ revoked = [k \in Key |-> Never]
  /\ demoExists = FALSE /\ demo = None
  /\ cache \in [Secret -> NotCached]
  /\ pc = [r \in Request |-> "idle"] /\ kind = [r \in Request |-> "read"]
  /\ header = [r \in Request |-> None] /\ row = [r \in Request |-> None]
  /\ answer = [r \in Request |-> NoAnswer]
  /\ trouble = 0
-----------------------------------------------------------------------------
(* The clock, the operators of the deployment, and Redis' own doings.      *)

\* Faulty variant: SET without ex.
TickForgetsNothing ==
  /\ now < MaxTime
  /\ now' = now + 1
  /\ UNCHANGED <<table, demo, cache, pc, kind, header, row, answer, trouble>>

\* An entry is gone TTL after it was put.
Tick ==
  /\ now < MaxTime
  /\ now' = now + 1
  /\ cache' = [s \in Secret |->
                 IF cache[s] \notin NotCached /\ cache[s].put + TTL <= now + 1
                 THEN None ELSE cache[s]]
  /\ UNCHANGED <<table, demo, pc, kind, header, row, answer, trouble>>

Evict(s) ==
  /\ cache[s] # None
  /\ cache' = [cache EXCEPT ![s] = None]
  /\ UNCHANGED <<now, table, demo, pc, kind, header, row, answer, trouble>>

CreateKey(k) ==
  /\ created[k] = Never
  /\ created' = [created EXCEPT ![k] = now]
  /\ live' = live \cup {k}
  /\ UNCHANGED <<now, revoked, demoExists, demo, cache, pc, kind, header, row,
                 answer, trouble>>

\* The row is deleted, with or without a call of invalidate(), which deletes
\* the cache entry: nothing in the code makes them one.
Revoke(k) ==
  /\ k \in live
  /\ live' = live \ {k}
  /\ revoked' = [revoked EXCEPT ![k] = now]
  /\ UNCHANGED <<now, created, demoExists, demo, cache, pc, kind, header, row,
                 answer, trouble>>

CreateDemo ==
  /\ ~demoExists
  /\ demoExists' = TRUE
  /\ UNCHANGED <<now, live, created, revoked, demo, cache, pc, kind, header,
                 row, answer, trouble>>
-----------------------------------------------------------------------------
(* A request.                                                              *)

Goto(r, l) == pc' = [pc EXCEPT ![r] = l]
Trouble == trouble < MaxTrouble /\ trouble' = trouble + 1
Reply(r, a) == answer' = [answer EXCEPT ![r] = a]
Done(r, a) == Goto(r, "idle") /\ Reply(r, a)
Denied == Verdict("denied", None, None, now, now)
Failed(why) == Verdict(why, None, None, now, now)

Arrive(r, k, h) ==
  /\ pc[r] = "idle"
  /\ kind' = [kind EXCEPT ![r] = k] /\ header' = [header EXCEPT ![r] = h]
  /\ Goto(r, "auth") /\ Reply(r, NoAnswer)
  /\ UNCHANGED <<now, table, demo, cache, row, trouble>>

\* auth(): only a read that sends no credentials at all may see the demo
\* project, which is looked up until it is found.
BrowsesDemo(r) == PublicDemo /\ kind[r] = "read" /\ header[r] = None

Browse(r) ==
  /\ pc[r] = "auth" /\ BrowsesDemo(r)
  /\ \/ /\ demo' = IF demo = None /\ demoExists THEN DemoProject ELSE demo
        /\ Done(r, IF demo' = None THEN Denied
                   ELSE Verdict("granted", demo', None, now, now))
        /\ UNCHANGED trouble
     \/ /\ demo = None /\ Trouble
        /\ Done(r, Failed("db_error")) /\ UNCHANGED demo
  /\ UNCHANGED <<now, table, cache, kind, header, row>>

\* verify(): parse_basic_auth().
Parse(r) ==
  /\ pc[r] = "auth" /\ ~BrowsesDemo(r)
  /\ \/ header[r] \in Credentials /\ Goto(r, "get") /\ UNCHANGED answer
     \/ header[r] \notin Credentials /\ Done(r, Denied)
  /\ UNCHANGED <<now, table, demo, cache, kind, header, row, trouble>>

\* Faulty variant: any public key will do.
HitAnyPublicKey(r) == cache[header[r].secret] \notin NotCached

Hit(r) ==
  LET e == cache[header[r].secret]
  IN e \notin NotCached /\ PublicOf[e.key] = header[r].public

Grant(k, read, put) == Verdict("granted", ProjectOf[k], k, read, put)

\* A hit is checked for expiry and settles the request.
AnswerFromCache(r) ==
  LET e == cache[header[r].secret]
  IN Done(r, IF ExpiryOf[e.key] <= now THEN Denied
             ELSE Grant(e.key, e.read, e.put))

\* Faulty variant: a failing cache closes the door.
GetFailsClosed(r) ==
  /\ pc[r] = "get"
  /\ \/ Hit(r) /\ AnswerFromCache(r) /\ UNCHANGED trouble
     \/ ~Hit(r) /\ Goto(r, "fetch") /\ UNCHANGED <<answer, trouble>>
     \/ Trouble /\ Done(r, Denied)
  /\ UNCHANGED <<now, table, demo, cache, kind, header, row>>

\* _cache_get(): a failure is a miss, and so is another public key; an entry
\* that does not parse is deleted first.
Get(r) ==
  /\ pc[r] = "get"
  /\ \/ Hit(r) /\ AnswerFromCache(r) /\ UNCHANGED trouble
     \/ /\ cache[header[r].secret] = Garbage
        /\ Goto(r, "del") /\ UNCHANGED <<answer, trouble>>
     \/ /\ cache[header[r].secret] # Garbage /\ ~Hit(r)
        /\ Goto(r, "fetch") /\ UNCHANGED <<answer, trouble>>
     \/ Trouble /\ Goto(r, "fetch") /\ UNCHANGED answer
  /\ UNCHANGED <<now, table, demo, cache, kind, header, row>>

\* That delete is outside the try: its failure is the request's.
Delete(r) ==
  /\ pc[r] = "del"
  /\ \/ /\ cache' = [cache EXCEPT ![header[r].secret] = None]
        /\ Goto(r, "fetch") /\ UNCHANGED <<answer, trouble>>
     \/ Trouble /\ Done(r, Failed("redis_error")) /\ UNCHANGED cache
  /\ UNCHANGED <<now, table, demo, kind, header, row>>

Matches(k, h) ==
  h \in Credentials /\ PublicOf[k] = h.public /\ SecretOf[k] = h.secret

\* The query, and the checks of its row.  A good row is granted, but cached
\* before the caller hears of it.
Fetch(r) ==
  LET found == {k \in live : Matches(k, header[r])}
  IN /\ pc[r] = "fetch"
     /\ \/ \E k \in found :
             /\ ExpiryOf[k] > now
             /\ row' = [row EXCEPT ![r] = k]
             /\ Reply(r, Grant(k, now, now))
             /\ Goto(r, "put")
             /\ UNCHANGED trouble
        \/ /\ \A k \in found : ExpiryOf[k] <= now
           /\ Done(r, Denied) /\ UNCHANGED <<row, trouble>>
        \/ Trouble /\ Done(r, Failed("db_error")) /\ UNCHANGED row
     /\ UNCHANGED <<now, table, demo, cache, kind, header>>

\* Faulty variant: the entry says when it expires, not when it was put.
PutExpiry(r) ==
  /\ pc[r] = "put"
  /\ \/ /\ cache' = [cache EXCEPT ![header[r].secret] =
                       [key |-> row[r], read |-> answer[r].read, put |-> now + TTL]]
        /\ UNCHANGED trouble
     \/ Trouble /\ UNCHANGED cache
  /\ row' = [row EXCEPT ![r] = None]
  /\ Goto(r, "idle")
  /\ UNCHANGED <<now, table, demo, kind, header, answer>>

\* _cache_put(): whatever became of the key since, and of the entry.
Put(r) ==
  /\ pc[r] = "put"
  /\ \/ /\ cache' = [cache EXCEPT ![header[r].secret] =
                       [key |-> row[r], read |-> answer[r].read, put |-> now]]
        /\ UNCHANGED trouble
     \/ Trouble /\ UNCHANGED cache
  /\ row' = [row EXCEPT ![r] = None]
  /\ Goto(r, "idle")
  /\ UNCHANGED <<now, table, demo, kind, header, answer>>
-----------------------------------------------------------------------------
Next ==
  \/ Tick \/ CreateDemo
  \/ \E s \in Secret : Evict(s)
  \/ \E k \in Key : CreateKey(k) \/ Revoke(k)
  \/ \E r \in Request :
       \/ \E ask \in Asks : Arrive(r, ask[1], ask[2])
       \/ Browse(r) \/ Parse(r) \/ Get(r) \/ Delete(r) \/ Fetch(r) \/ Put(r)

Spec == Init /\ [][Next]_vars
-----------------------------------------------------------------------------
Granted(r) == answer[r].verdict = "granted"

\* A request is granted the project of the key both halves of which it knows,
\* and only before the key expires, however the key was cached, by whom, and
\* when; without a key it may at most read the demo project.
GrantsAreEarned ==
  \A r \in Request : Granted(r) =>
    \/ /\ answer[r].key \in Key /\ Matches(answer[r].key, header[r])
       /\ answer[r].project = ProjectOf[answer[r].key]
       /\ ExpiryOf[answer[r].key] > answer[r].at
    \/ /\ answer[r].key = None /\ answer[r].project = DemoProject
       /\ PublicDemo /\ kind[r] = "read" /\ header[r] = None

\* A revoked key is not accepted later than TTL after the revocation, plus the
\* time a request took between reading the row and caching it.
RevokedFadesOut ==
  \A r \in Request : Granted(r) /\ answer[r].key # None =>
    answer[r].at < revoked[answer[r].key] + TTL + (answer[r].put - answer[r].read)

\* The cache never denies a good key: failures, evictions and other keys'
\* entries included.
NoFalseDenial ==
  \A r \in Request, k \in Key :
    answer[r].verdict = "denied" /\ Matches(k, header[r]) =>
      \/ created[k] >= answer[r].at \/ revoked[k] <= answer[r].at
      \/ ExpiryOf[k] <= answer[r].at

\* The inductive invariant behind these.  A row that is cached, or about to
\* be, was in the table when it was read, and belongs to the secret:
Read(k, s, t) == SecretOf[k] = s /\ created[k] <= t /\ t <= revoked[k]
Cached == \A s \in Secret : cache[s] \notin NotCached =>
  /\ Read(cache[s].key, s, cache[s].read)
  /\ cache[s].read <= cache[s].put /\ cache[s].put <= now
  /\ now < cache[s].put + TTL
\* What a request knows:
Requests == \A r \in Request :
  /\ pc[r] \in {"get", "del", "fetch", "put"} => header[r] \in Credentials
  /\ pc[r] = "put" =>
       /\ row[r] \in Key /\ Read(row[r], header[r].secret, answer[r].read)
       /\ answer[r].verdict = "granted"
  /\ answer[r].read <= answer[r].put /\ answer[r].put <= answer[r].at
  /\ answer[r].at <= now
  /\ pc[r] \in {"auth", "get", "del", "fetch"} => answer[r].verdict = "none"
\* The table and its history agree:
Table == \A k \in Key :
  /\ k \in live <=> (created[k] # Never /\ revoked[k] = Never)
  /\ created[k] = Never => revoked[k] = Never
  /\ created[k] = Never \/ created[k] <= now
  /\ revoked[k] = Never \/ revoked[k] <= now

IInv == TypeOK /\ Cached /\ Requests /\ Table /\ GrantsAreEarned
          /\ RevokedFadesOut /\ NoFalseDenial

\* Cache failures never reject a request (auth.py:187).
CacheNeverRejects == \A r \in Request : answer[r].verdict # "redis_error"
=============================================================================

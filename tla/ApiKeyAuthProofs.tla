--------------------------- MODULE ApiKeyAuthProofs ---------------------------
(***************************************************************************)
(* Proofs about ApiKeyAuth, for any number of requests, keys and failures  *)
(* and any TTL: what a request is granted, for how long a revoked key is   *)
(* still accepted, and that a good key is not denied.                      *)
(***************************************************************************)
EXTENDS ApiKeyAuth, TLAPS

LEMMA Clock == now \in Time => now \in Nat /\ now < Never /\ Never \in Nat
  BY KeysAssumption DEF Time, Never

\* What an answer looks like.
LEMMA AnswerTypes ==
  ASSUME TypeOK
  PROVE  /\ NoAnswer \in Answer /\ Denied \in Answer
         /\ Failed("db_error") \in Answer /\ Failed("redis_error") \in Answer
         /\ \A k \in Key, t, u \in Time : Grant(k, t, u) \in Answer
         /\ Verdict("granted", DemoProject, None, now, now) \in Answer
<1>1. now \in Time /\ 0 \in Time
  BY KeysAssumption DEF TypeOK, Time
<1>2. \A k \in Key : ProjectOf[k] \in Project
  BY KeysAssumption
<1>3. QED
  BY <1>1, <1>2, KeysAssumption
     DEF NoAnswer, Denied, Failed, Verdict, Grant, Answer

LEMMA HitEntry ==
  ASSUME TypeOK, NEW r \in Request, header[r] \in Credentials, Hit(r)
  PROVE  /\ header[r].secret \in Secret
         /\ cache[header[r].secret] \in Entry
<1>1. header[r].secret \in Secret
  BY DEF Credentials
<1>2. QED
  BY <1>1 DEF Hit, TypeOK

\* Variables keep their types; a request beyond the parsing has credentials.
LEMMA TypeInit == Init => TypeOK
<1> SUFFICES ASSUME Init PROVE TypeOK
  OBVIOUS
<1>1. 0 \in Time /\ 0 \in 0..MaxTrouble
  BY KeysAssumption DEF Time
<1>2. NoAnswer \in Answer
  BY <1>1 DEF NoAnswer, Answer
<1>3. QED
  BY <1>1, <1>2 DEF Init, TypeOK

LEMMA TypeNext == TypeOK /\ Requests /\ [Next]_vars => TypeOK'
<1> SUFFICES ASSUME TypeOK, Requests, [Next]_vars PROVE TypeOK'
  OBVIOUS
<1> USE DEF TypeOK, table, Goto, Reply, Done
<1>1. CASE UNCHANGED vars
  BY <1>1 DEF vars
<1>2. CASE Tick
  <2>1. now' \in Time
    BY <1>2, KeysAssumption DEF Tick, Time
  <2>2. cache' \in [Secret -> NotCached \cup Entry]
    BY <1>2 DEF Tick, NotCached
  <2>3. QED
    BY <1>2, <2>1, <2>2 DEF Tick
<1>3. CASE CreateDemo
  BY <1>3 DEF CreateDemo
<1>4. ASSUME NEW s \in Secret, Evict(s) PROVE TypeOK'
  BY <1>4 DEF Evict, NotCached
<1>5. ASSUME NEW k \in Key, CreateKey(k) \/ Revoke(k) PROVE TypeOK'
  <2>1. CASE CreateKey(k)
    BY <2>1 DEF CreateKey
  <2>2. CASE Revoke(k)
    BY <2>2 DEF Revoke
  <2>3. QED
    BY <1>5, <2>1, <2>2
<1>6. ASSUME NEW r \in Request, NEW ask \in Asks, Arrive(r, ask[1], ask[2])
      PROVE TypeOK'
  <2>1. ask[1] \in {"read", "write"} /\ ask[2] \in Credentials \cup {None, Garbage}
    BY NothingAssumption
  <2>2. QED
    BY <1>6, <2>1, AnswerTypes DEF Arrive
<1>7. ASSUME NEW r \in Request, Trouble PROVE trouble' \in 0..MaxTrouble
  BY <1>7, KeysAssumption DEF Trouble
<1>8. ASSUME NEW r \in Request, Browse(r) PROVE TypeOK'
  <2>1. demo' \in {None, DemoProject}
    BY <1>8 DEF Browse
  <2>2. demo' # None => demo' = DemoProject
    BY <2>1
  <2>3. answer' \in [Request -> Answer]
    BY <1>8, <2>2, AnswerTypes DEF Browse
  <2>4. QED
    BY <1>8, <1>7, <2>1, <2>3 DEF Browse
<1>9. ASSUME NEW r \in Request, Parse(r) PROVE TypeOK'
  BY <1>9, AnswerTypes DEF Parse
<1>10. ASSUME NEW r \in Request, Get(r) PROVE TypeOK'
  <2>1. CASE Hit(r) /\ AnswerFromCache(r) /\ UNCHANGED trouble
    <3>1. header[r] \in Credentials
      BY <1>10 DEF Get, Requests
    <3> DEFINE e == cache[header[r].secret]
    <3>2. e \in Entry
      BY <2>1, <3>1, HitEntry
    <3>3. Grant(e.key, e.read, e.put) \in Answer
      BY <3>2, AnswerTypes DEF Entry
    <3>4. answer' \in [Request -> Answer] /\ pc' = [pc EXCEPT ![r] = "idle"]
      BY <2>1, <3>3, AnswerTypes DEF AnswerFromCache
    <3>5. QED
      BY <1>10, <2>1, <3>4 DEF Get
  <2>2. CASE Trouble /\ Goto(r, "fetch") /\ UNCHANGED answer
    BY <1>7, <1>10, <2>2 DEF Get
  <2>3. QED
    BY <1>10, <2>1, <2>2 DEF Get
<1>11. ASSUME NEW r \in Request, Delete(r) PROVE TypeOK'
  <2>1. header[r].secret \in Secret
    BY <1>11 DEF Delete, Requests, Credentials
  <2>2. CASE Trouble
    BY <1>7, <1>11, <2>1, <2>2, AnswerTypes DEF Delete, NotCached
  <2>3. CASE ~Trouble
    BY <1>11, <2>1, <2>3 DEF Delete, NotCached
  <2>4. QED
    BY <2>2, <2>3
<1>12. ASSUME NEW r \in Request, Fetch(r) PROVE TypeOK'
  <2>1. ASSUME NEW k \in live, row' = [row EXCEPT ![r] = k],
               Reply(r, Grant(k, now, now)), Goto(r, "put"), UNCHANGED trouble
        PROVE TypeOK'
    BY <1>12, <2>1, AnswerTypes DEF Fetch
  <2>2. CASE Done(r, Denied) /\ UNCHANGED <<row, trouble>>
    BY <1>12, <2>2, AnswerTypes DEF Fetch
  <2>3. CASE Trouble /\ Done(r, Failed("db_error")) /\ UNCHANGED row
    BY <1>7, <1>12, <2>3, AnswerTypes DEF Fetch
  <2>4. QED
    BY <1>12, <2>1, <2>2, <2>3 DEF Fetch
<1>13. ASSUME NEW r \in Request, Put(r) PROVE TypeOK'
  <2>1. header[r].secret \in Secret /\ row[r] \in Key
    BY <1>13 DEF Put, Requests, Credentials
  <2>2. [key |-> row[r], read |-> answer[r].read, put |-> now] \in Entry
    BY <2>1 DEF Entry, Answer
  <2>3. cache' \in [Secret -> NotCached \cup Entry]
    BY <1>13, <2>1, <2>2 DEF Put
  <2>4. trouble' \in 0..MaxTrouble
    BY <1>7, <1>13 DEF Put
  <2>5. QED
    BY <1>13, <2>3, <2>4 DEF Put
<1>14. QED
  BY <1>1, <1>2, <1>3, <1>4, <1>5, <1>6, <1>8, <1>9, <1>10, <1>11, <1>12,
     <1>13 DEF Next
-----------------------------------------------------------------------------
\* The inductive invariant, request by request.
Knows(r) ==
  /\ pc[r] \in {"get", "del", "fetch", "put"} => header[r] \in Credentials
  /\ pc[r] = "put" =>
       /\ row[r] \in Key /\ Read(row[r], header[r].secret, answer[r].read)
       /\ answer[r].verdict = "granted"
  /\ answer[r].read <= answer[r].put /\ answer[r].put <= answer[r].at
  /\ answer[r].at <= now
  /\ pc[r] \in {"auth", "get", "del", "fetch"} => answer[r].verdict = "none"

Earned(r) == Granted(r) =>
  \/ /\ answer[r].key \in Key /\ Matches(answer[r].key, header[r])
     /\ answer[r].project = ProjectOf[answer[r].key]
     /\ ExpiryOf[answer[r].key] > answer[r].at
  \/ /\ answer[r].key = None /\ answer[r].project = DemoProject
     /\ PublicDemo /\ kind[r] = "read" /\ header[r] = None

Fades(r) == Granted(r) /\ answer[r].key # None =>
  answer[r].at < revoked[answer[r].key] + TTL + (answer[r].put - answer[r].read)

Fair(r) == \A k \in Key :
  answer[r].verdict = "denied" /\ Matches(k, header[r]) =>
    \/ created[k] >= answer[r].at \/ revoked[k] <= answer[r].at
    \/ ExpiryOf[k] <= answer[r].at

Sound(r) == Knows(r) /\ Earned(r) /\ Fades(r) /\ Fair(r)

LEMMA SoundNow ==
  IInv <=> TypeOK /\ Cached /\ Table /\ \A r \in Request : Sound(r)
  BY DEF IInv, Sound, Knows, Earned, Fades, Fair, Requests, GrantsAreEarned,
         RevokedFadesOut, NoFalseDenial

LEMMA SoundNext ==
  IInv' <=> TypeOK' /\ Cached' /\ Table' /\ \A r \in Request : Sound(r)'
  BY DEF IInv, Sound, Knows, Earned, Fades, Fair, Requests, GrantsAreEarned,
         RevokedFadesOut, NoFalseDenial

\* Numbers the types promise.
LEMMA AnswerTimes ==
  ASSUME TypeOK, NEW r \in Request
  PROVE  /\ answer[r].read \in Nat /\ answer[r].put \in Nat
         /\ answer[r].at \in Nat /\ answer[r].key \in Key \cup {None}
  BY KeysAssumption DEF TypeOK, Answer, Time

LEMMA TableTimes ==
  ASSUME TypeOK, NEW k \in Key
  PROVE  /\ created[k] \in Nat /\ revoked[k] \in Nat /\ ExpiryOf[k] \in Nat
         /\ now \in Nat /\ TTL \in Nat \ {0} /\ Never \in Nat /\ now < Never
         /\ created[k] <= Never /\ revoked[k] <= Never
<1>1. /\ created[k] \in Time \cup {Never} /\ revoked[k] \in Time \cup {Never}
      /\ ExpiryOf[k] \in Time \cup {Never} /\ now \in Time
  BY KeysAssumption DEF TypeOK
<1>2. QED
  BY <1>1, KeysAssumption DEF Time, Never

\* The clock and the table: what happens to the table happens now.
LEMMA TableSteps ==
  ASSUME IInv, TypeOK', UNCHANGED <<pc, kind, header, row, answer>>,
         now <= now',
         \A k \in Key :
           /\ \/ created'[k] = created[k]
              \/ created[k] = Never /\ created'[k] = now
           /\ \/ revoked'[k] = revoked[k]
              \/ revoked[k] = Never /\ revoked'[k] = now
  PROVE  \A r \in Request : Sound(r)'
<1> SUFFICES ASSUME NEW r \in Request PROVE Sound(r)'
  OBVIOUS
<1>0. TypeOK /\ Sound(r) /\ now \in Nat /\ now' \in Nat
  BY SoundNow, KeysAssumption DEF TypeOK, Time
<1>1. answer[r].read <= answer[r].put /\ answer[r].put <= answer[r].at
      /\ answer[r].at <= now /\ answer[r].at <= now'
  BY <1>0, AnswerTimes DEF Sound, Knows
<1>2. ASSUME NEW k \in Key, NEW s \in Secret, Read(k, s, answer[r].read)
      PROVE  Read(k, s, answer[r].read)'
  BY <1>0, <1>1, <1>2, AnswerTimes, TableTimes DEF Read
<1>3. Knows(r)'
  <2>1. pc[r] = "put" => header[r].secret \in Secret
    BY <1>0 DEF Sound, Knows, Credentials
  <2>2. QED
    BY <1>0, <1>1, <1>2, <2>1 DEF Sound, Knows
<1>4. Earned(r)'
  BY <1>0 DEF Sound, Earned, Granted
<1>5. Fades(r)'
  <2> SUFFICES ASSUME Granted(r), answer[r].key # None
               PROVE  answer[r].at < revoked'[answer[r].key] + TTL
                                       + (answer[r].put - answer[r].read)
    BY DEF Fades, Granted
  <2>1. answer[r].key \in Key
    BY <1>0, AnswerTimes
  <2>2. CASE revoked'[answer[r].key] = revoked[answer[r].key]
    BY <1>0, <2>1, <2>2 DEF Sound, Fades
  <2>3. CASE revoked'[answer[r].key] = now
    BY <1>0, <1>1, <2>1, <2>3, AnswerTimes, TableTimes
  <2>4. QED
    BY <2>1, <2>2, <2>3
<1>6. Fair(r)'
  <2> SUFFICES ASSUME NEW k \in Key, answer[r].verdict = "denied",
                      Matches(k, header[r])
               PROVE  \/ created'[k] >= answer[r].at \/ revoked'[k] <= answer[r].at
                      \/ ExpiryOf[k] <= answer[r].at
    BY DEF Fair
  <2>1. \/ created[k] >= answer[r].at \/ revoked[k] <= answer[r].at
        \/ ExpiryOf[k] <= answer[r].at
    BY <1>0 DEF Sound, Fair
  <2>2. QED
    BY <1>0, <1>1, <2>1, AnswerTimes, TableTimes
<1>7. QED
  BY <1>3, <1>4, <1>5, <1>6 DEF Sound

LEMMA CachedSteps ==
  ASSUME IInv, TypeOK', UNCHANGED <<cache, now>>,
         \A k \in Key :
           /\ \/ created'[k] = created[k]
              \/ created[k] = Never /\ created'[k] = now
           /\ \/ revoked'[k] = revoked[k]
              \/ revoked[k] = Never /\ revoked'[k] = now
  PROVE  Cached'
<1> SUFFICES ASSUME NEW s \in Secret, cache[s] \notin NotCached
             PROVE  /\ Read(cache[s].key, s, cache[s].read)'
                    /\ cache[s].read <= cache[s].put /\ cache[s].put <= now
                    /\ now < cache[s].put + TTL
  BY DEF Cached
<1>1. /\ Read(cache[s].key, s, cache[s].read)
      /\ cache[s].read <= cache[s].put /\ cache[s].put <= now
      /\ now < cache[s].put + TTL
  BY DEF IInv, Cached
<1>2. cache[s].key \in Key /\ cache[s].read \in Nat /\ cache[s].put \in Nat
  BY KeysAssumption DEF IInv, TypeOK, Entry, Time
<1>3. TypeOK
  BY DEF IInv
<1>4. QED
  BY <1>1, <1>2, <1>3, TableTimes DEF Read

\* A step of one request.
LEMMA RequestSteps ==
  ASSUME IInv, TypeOK', UNCHANGED <<now, table>>, NEW r \in Request,
         \A q \in Request : q # r =>
           /\ pc'[q] = pc[q] /\ kind'[q] = kind[q] /\ header'[q] = header[q]
           /\ row'[q] = row[q] /\ answer'[q] = answer[q],
         Sound(r)', Cached'
  PROVE  IInv'
<1>1. Table'
  BY DEF IInv, Table, table
<1>2. ASSUME NEW q \in Request, q # r PROVE Sound(q)'
  <2>1. Sound(q)
    BY SoundNow
  <2>2. QED
    BY <1>2, <2>1 DEF Sound, Knows, Earned, Fades, Fair, Granted, Read, table
<1>3. QED
  BY <1>1, <1>2, SoundNext
-----------------------------------------------------------------------------
\* The invariant is inductive.
LEMMA IInvInit == Init => IInv
<1> SUFFICES ASSUME Init PROVE IInv
  OBVIOUS
<1>1. TypeOK
  BY TypeInit
<1>2. Cached
  BY DEF Init, Cached
<1>3. Table
  BY KeysAssumption DEF Init, Table
<1>4. \A r \in Request : Sound(r)
  BY DEF Init, Sound, Knows, Earned, Fades, Fair, Granted, NoAnswer
<1>5. QED
  BY <1>1, <1>2, <1>3, <1>4, SoundNow

LEMMA TickStep == IInv /\ TypeOK' /\ Tick => IInv'
<1> SUFFICES ASSUME IInv, TypeOK', Tick PROVE IInv'
  OBVIOUS
<1> USE DEF table
<1>1. TypeOK /\ now \in Nat /\ now' = now + 1 /\ now' \in Time
  BY KeysAssumption DEF IInv, TypeOK, Tick, Time
<1>2. \A r \in Request : Sound(r)'
  BY <1>1, TableSteps DEF Tick
<1>3. Cached'
  <2> SUFFICES ASSUME NEW s \in Secret, cache'[s] \notin NotCached
               PROVE  /\ Read(cache[s].key, s, cache[s].read)'
                      /\ cache'[s].read <= cache'[s].put
                      /\ cache'[s].put <= now' /\ now' < cache'[s].put + TTL
    BY DEF Cached, NotCached
  <2>1. cache[s] \notin NotCached /\ cache'[s] = cache[s]
        /\ ~(cache[s].put + TTL <= now + 1)
    BY DEF Tick, NotCached
  <2>2. cache[s].put \in Nat /\ cache[s].read \in Nat /\ TTL \in Nat
    BY <1>1, <2>1, KeysAssumption DEF TypeOK, Entry, Time
  <2>3. /\ Read(cache[s].key, s, cache[s].read)
        /\ cache[s].read <= cache[s].put /\ cache[s].put <= now
    BY <2>1 DEF IInv, Cached
  <2>4. QED
    BY <1>1, <2>1, <2>2, <2>3 DEF Read, Tick
<1>4. Table'
  <2>1. ASSUME NEW k \in Key
        PROVE  /\ created[k] = Never \/ created[k] <= now'
               /\ revoked[k] = Never \/ revoked[k] <= now'
    <3>1. /\ created[k] = Never \/ created[k] <= now
          /\ revoked[k] = Never \/ revoked[k] <= now
      BY DEF Table, IInv
    <3>2. QED
      BY <1>1, <3>1, TableTimes
  <2>2. UNCHANGED <<live, created, revoked>> /\ Table
    BY DEF Tick, IInv
  <2>3. QED
    BY <2>1, <2>2 DEF Table
<1>5. QED
  BY <1>2, <1>3, <1>4, SoundNext

LEMMA KeyStep ==
  ASSUME IInv, TypeOK', NEW k \in Key, CreateKey(k) \/ Revoke(k)
  PROVE  IInv'
<1>1. TypeOK /\ Table /\ now \in Nat /\ now # Never
  BY Clock DEF IInv, TypeOK
<1>2. revoked[k] = Never \/ Revoke(k) => revoked[k] = Never
  BY <1>1 DEF Revoke, Table
<1>3. \A l \in Key :
        /\ \/ created'[l] = created[l]
           \/ created[l] = Never /\ created'[l] = now
        /\ \/ revoked'[l] = revoked[l]
           \/ revoked[l] = Never /\ revoked'[l] = now
  BY <1>1 DEF CreateKey, Revoke, TypeOK, Table
<1>4. UNCHANGED <<now, cache, pc, kind, header, row, answer>>
  BY DEF CreateKey, Revoke
<1>5. \A r \in Request : Sound(r)'
  BY <1>1, <1>3, <1>4, TableSteps
<1>6. Cached'
  BY <1>3, <1>4, CachedSteps
<1>7. Table'
  BY <1>1 DEF CreateKey, Revoke, TypeOK, Table
<1>8. QED
  BY <1>5, <1>6, <1>7, SoundNext

LEMMA CacheShrinks ==
  ASSUME IInv, TypeOK', UNCHANGED <<now, table>>,
         \A s \in Secret : cache'[s] = cache[s] \/ cache'[s] = None
  PROVE  Cached'
  BY DEF IInv, Cached, Read, NotCached, table

LEMMA EvictStep == ASSUME IInv, TypeOK', NEW s \in Secret, Evict(s) PROVE IInv'
<1>1. Cached'
  BY CacheShrinks DEF Evict, IInv, TypeOK
<1>2. \A r \in Request : Sound(r)'
  BY TableSteps, TableTimes DEF Evict, table, IInv, TypeOK, Time
<1>3. Table'
  BY DEF Evict, table, IInv, Table
<1>4. QED
  BY <1>1, <1>2, <1>3, SoundNext

LEMMA DemoStep == ASSUME IInv, TypeOK', CreateDemo PROVE IInv'
<1>1. Cached'
  BY DEF CreateDemo, IInv, Cached, Read
<1>2. \A r \in Request : Sound(r)'
  BY TableSteps DEF CreateDemo, IInv, TypeOK, Time
<1>3. Table'
  BY DEF CreateDemo, IInv, Table
<1>4. QED
  BY <1>1, <1>2, <1>3, SoundNext
-----------------------------------------------------------------------------
\* The requests.  What each of them leaves to show is what it answers.
LEMMA OtherRequests ==
  ASSUME TypeOK, NEW r \in Request, NEW q \in Request, q # r
  PROVE  /\ \A l : [pc EXCEPT ![r] = l][q] = pc[q]
         /\ \A a : [answer EXCEPT ![r] = a][q] = answer[q]
         /\ \A k : [row EXCEPT ![r] = k][q] = row[q]
         /\ \A k : [kind EXCEPT ![r] = k][q] = kind[q]
         /\ \A h : [header EXCEPT ![r] = h][q] = header[q]
  BY DEF TypeOK

LEMMA SameRequest ==
  ASSUME TypeOK, NEW r \in Request
  PROVE  /\ \A l : [pc EXCEPT ![r] = l][r] = l
         /\ \A a : [answer EXCEPT ![r] = a][r] = a
         /\ \A k : [row EXCEPT ![r] = k][r] = k
         /\ \A k : [kind EXCEPT ![r] = k][r] = k
         /\ \A h : [header EXCEPT ![r] = h][r] = h
  BY DEF TypeOK

LEMMA SameCache ==
  ASSUME IInv, UNCHANGED <<now, table, cache>>
  PROVE  Cached'
  BY DEF IInv, Cached, Read, NotCached, table

LEMMA ArriveStep ==
  ASSUME IInv, TypeOK', NEW r \in Request, NEW k, NEW h, Arrive(r, k, h)
  PROVE  IInv'
<1>1. TypeOK /\ UNCHANGED <<now, table, cache>> /\ now \in Nat
  BY DEF Arrive, IInv, TypeOK, Time
<1>2. Sound(r)'
  BY <1>1, SameRequest
     DEF Arrive, Goto, Reply, NoAnswer, Sound, Knows, Earned, Fades, Fair,
         Granted
<1>3. QED
  BY <1>1, <1>2, OtherRequests, RequestSteps, SameCache
     DEF Arrive, Goto, Reply

LEMMA BrowseStep ==
  ASSUME IInv, TypeOK', NEW r \in Request, Browse(r) PROVE IInv'
<1>1. TypeOK /\ UNCHANGED <<now, table, cache, kind, header, row>> /\ now \in Nat
  BY DEF Browse, IInv, TypeOK, Time
<1>2. Sound(r)'
  <2>1. header[r] = None /\ kind[r] = "read" /\ PublicDemo
    BY DEF Browse, BrowsesDemo
  <2>2. \A k \in Key : ~Matches(k, header[r])
    BY <2>1, NothingAssumption DEF Matches
  <2>3. pc'[r] = "idle"
    BY <1>1, SameRequest DEF Browse, Done, Goto
  <2>4. CASE answer'[r] = Denied
    BY <1>1, <2>2, <2>3, <2>4
       DEF Denied, Verdict, Sound, Knows, Earned, Fades, Fair, Granted
  <2>5. CASE answer'[r] = Verdict("granted", DemoProject, None, now, now)
    BY <1>1, <2>1, <2>3, <2>5
       DEF Verdict, Sound, Knows, Earned, Fades, Fair, Granted
  <2>6. demo' = None \/ demo' = DemoProject
    BY DEF Browse, IInv, TypeOK
  <2>7. CASE answer'[r] = Failed("db_error")
    BY <1>1, <2>2, <2>3, <2>7
       DEF Failed, Verdict, Sound, Knows, Earned, Fades, Fair, Granted
  <2>8. \/ answer'[r] \in {Denied, Failed("db_error")}
        \/ answer'[r] = Verdict("granted", DemoProject, None, now, now)
    BY <1>1, <2>6, SameRequest DEF Browse, Done, Reply
  <2>9. QED
    BY <2>4, <2>5, <2>7, <2>8
<1>3. \A q \in Request : q # r =>
        /\ pc'[q] = pc[q] /\ kind'[q] = kind[q] /\ header'[q] = header[q]
        /\ row'[q] = row[q] /\ answer'[q] = answer[q]
  BY <1>1 DEF Browse, Done, Goto, Reply, TypeOK
<1>4. QED
  BY <1>1, <1>2, <1>3, RequestSteps, SameCache

LEMMA ParseStep ==
  ASSUME IInv, TypeOK', NEW r \in Request, Parse(r) PROVE IInv'
<1>1. /\ TypeOK /\ UNCHANGED <<now, table, cache, kind, header, row>>
      /\ now \in Nat /\ Sound(r) /\ pc[r] = "auth"
  BY SoundNow DEF Parse, IInv, TypeOK, Time
<1>2. Sound(r)'
  <2>1. CASE header[r] \in Credentials /\ Goto(r, "get") /\ UNCHANGED answer
    BY <1>1, <2>1, SameRequest
       DEF Goto, Sound, Knows, Earned, Fades, Fair, Granted
  <2>2. CASE header[r] \notin Credentials /\ Done(r, Denied)
    <3>1. \A k \in Key : ~Matches(k, header[r])
      BY <2>2 DEF Matches
    <3>2. QED
      BY <1>1, <2>2, <3>1, SameRequest
         DEF Done, Goto, Reply, Denied, Verdict, Sound, Knows, Earned, Fades,
             Fair, Granted
  <2>3. QED
    BY <2>1, <2>2 DEF Parse
<1>3. \A q \in Request : q # r =>
        /\ pc'[q] = pc[q] /\ kind'[q] = kind[q] /\ header'[q] = header[q]
        /\ row'[q] = row[q] /\ answer'[q] = answer[q]
  BY <1>1 DEF Parse, Done, Goto, Reply, TypeOK
<1>4. QED
  BY <1>1, <1>2, <1>3, RequestSteps, SameCache

\* A hit that has not expired is the row of the key the request knows.
LEMMA HitSound ==
  ASSUME IInv, NEW r \in Request, pc[r] = "get", Hit(r), AnswerFromCache(r),
         UNCHANGED <<now, table, cache, kind, header, row>>
  PROVE  Sound(r)'
<1> DEFINE s == header[r].secret
           e == cache[s]
<1>1. TypeOK /\ Sound(r) /\ header[r] \in Credentials
  BY SoundNow DEF IInv, Sound, Knows
<1>2. s \in Secret /\ e \in Entry /\ PublicOf[e.key] = header[r].public
  BY <1>1, HitEntry DEF Hit
<1>3. /\ SecretOf[e.key] = s /\ created[e.key] <= e.read
      /\ e.read <= revoked[e.key] /\ e.read <= e.put /\ e.put <= now
      /\ now < e.put + TTL
  BY <1>2 DEF IInv, Cached, Read, Hit
<1>4. e.key \in Key /\ e.read \in Nat /\ e.put \in Nat /\ now \in Nat
  BY <1>1, <1>2, KeysAssumption DEF Entry, TypeOK, Time
<1>5. Matches(e.key, header[r])
  BY <1>1, <1>2, <1>3 DEF Matches
<1>6. pc'[r] = "idle"
  BY <1>1, SameRequest DEF AnswerFromCache, Done, Goto
<1>7. CASE ExpiryOf[e.key] <= now
  <2>1. answer'[r] = Denied
    BY <1>1, <1>7, SameRequest DEF AnswerFromCache, Done, Reply
  <2>2. ASSUME NEW k \in Key, Matches(k, header[r]) PROVE ExpiryOf[k] <= now
    <3>1. k = e.key
      BY <1>3, <1>4, <2>2, KeysAssumption DEF Matches, UniqueKeys
    <3>2. QED
      BY <1>7, <3>1
  <2>3. QED
    BY <1>4, <1>6, <2>1, <2>2
       DEF Denied, Verdict, Sound, Knows, Earned, Fades, Fair, Granted
<1>8. CASE ~(ExpiryOf[e.key] <= now)
  <2>1. answer'[r] = Grant(e.key, e.read, e.put)
    BY <1>1, <1>8, SameRequest DEF AnswerFromCache, Done, Reply
  <2>2. ExpiryOf[e.key] > now
    BY <1>1, <1>4, <1>8, TableTimes
  <2>3. now < revoked[e.key] + TTL + (e.put - e.read)
    BY <1>1, <1>3, <1>4, TableTimes
  <2>4. Knows(r)'
    BY <1>3, <1>4, <1>6, <2>1 DEF Grant, Verdict, Knows
  <2>5. Earned(r)'
    BY <1>4, <1>5, <2>1, <2>2 DEF Grant, Verdict, Earned, Matches
  <2>6. Fades(r)'
    BY <2>1, <2>3, table' = table DEF Grant, Verdict, Fades, Granted, table
  <2>7. Fair(r)'
    BY <2>1 DEF Grant, Verdict, Fair
  <2>8. QED
    BY <2>4, <2>5, <2>6, <2>7 DEF Sound
<1>9. QED
  BY <1>7, <1>8

\* A request on its way to its next command.
LEMMA Onward ==
  ASSUME IInv, NEW r \in Request, pc[r] \in {"get", "del"}, Goto(r, "fetch") \/ Goto(r, "del"),
         UNCHANGED <<now, table, kind, header, row, answer>>
  PROVE  Sound(r)'
  BY SoundNow, SameRequest
     DEF IInv, Goto, Sound, Knows, Earned, Fades, Fair, Granted, table

LEMMA GetStep ==
  ASSUME IInv, TypeOK', NEW r \in Request, Get(r) PROVE IInv'
<1>1. TypeOK /\ UNCHANGED <<now, table, cache, kind, header, row>> /\ pc[r] = "get"
  BY DEF Get, IInv
<1>2. Sound(r)'
  BY <1>1, HitSound, Onward DEF Get
<1>3. \A q \in Request : q # r =>
        /\ pc'[q] = pc[q] /\ kind'[q] = kind[q] /\ header'[q] = header[q]
        /\ row'[q] = row[q] /\ answer'[q] = answer[q]
  BY <1>1 DEF Get, AnswerFromCache, Done, Goto, Reply, TypeOK
<1>4. QED
  BY <1>1, <1>2, <1>3, RequestSteps, SameCache

\* An error is no verdict.
LEMMA ErrorSound ==
  ASSUME IInv, NEW r \in Request,
         Done(r, Failed("db_error")) \/ Done(r, Failed("redis_error")),
         UNCHANGED <<now, table, kind, header>>
  PROVE  Sound(r)'
<1>1. TypeOK /\ now \in Nat
  BY DEF IInv, TypeOK, Time
<1>2. pc'[r] = "idle"
  BY <1>1, SameRequest DEF Done, Goto
<1>3. answer'[r] = Failed("db_error") \/ answer'[r] = Failed("redis_error")
  BY <1>1, SameRequest DEF Done, Reply
<1>4. QED
  BY <1>1, <1>2, <1>3
     DEF Failed, Verdict, Sound, Knows, Earned, Fades, Fair, Granted

LEMMA DeleteStep ==
  ASSUME IInv, TypeOK', NEW r \in Request, Delete(r) PROVE IInv'
<1>1. TypeOK /\ UNCHANGED <<now, table, kind, header, row>> /\ pc[r] = "del"
  BY DEF Delete, IInv
<1>2. Sound(r)'
  BY <1>1, ErrorSound, Onward DEF Delete
<1>3. Cached'
  BY <1>1, CacheShrinks DEF Delete, TypeOK
<1>4. \A q \in Request : q # r =>
        /\ pc'[q] = pc[q] /\ kind'[q] = kind[q] /\ header'[q] = header[q]
        /\ row'[q] = row[q] /\ answer'[q] = answer[q]
  BY <1>1 DEF Delete, Done, Goto, Reply, TypeOK
<1>5. QED
  BY <1>1, <1>2, <1>3, <1>4, RequestSteps

LEMMA FetchStep ==
  ASSUME IInv, TypeOK', NEW r \in Request, Fetch(r) PROVE IInv'
<1>1. /\ TypeOK /\ UNCHANGED <<now, table, cache, kind, header>> /\ now \in Nat
      /\ now < Never /\ pc[r] = "fetch" /\ Sound(r) /\ Table
  BY Clock, SoundNow DEF Fetch, IInv, TypeOK
<1>2. header[r] \in Credentials
  BY <1>1 DEF Sound, Knows
<1>3. ASSUME NEW k \in live, Matches(k, header[r]), ExpiryOf[k] > now,
             row' = [row EXCEPT ![r] = k], Reply(r, Grant(k, now, now)),
             Goto(r, "put")
      PROVE  Sound(r)'
  <2>1. /\ k \in Key /\ revoked[k] = Never /\ created[k] <= now
        /\ SecretOf[k] = header[r].secret
    BY <1>1, <1>3 DEF TypeOK, Table, Matches
  <2>2. row'[r] = k /\ answer'[r] = Grant(k, now, now) /\ pc'[r] = "put"
    BY <1>1, <1>3, SameRequest DEF Reply, Goto
  <2>3. now <= Never /\ now < Never + TTL + (now - now)
    BY <1>1, <2>1, TableTimes
  <2>4. Knows(r)'
    BY <1>1, <1>2, <2>1, <2>2, <2>3 DEF Grant, Verdict, Knows, Read, table
  <2>5. Earned(r)'
    BY <1>1, <1>3, <2>1, <2>2 DEF Grant, Verdict, Earned, Matches
  <2>6. Fades(r)'
    BY <1>1, <2>1, <2>2, <2>3 DEF Grant, Verdict, Fades, Granted, table
  <2>7. Fair(r)'
    BY <2>2 DEF Grant, Verdict, Fair
  <2>8. QED
    BY <2>4, <2>5, <2>6, <2>7 DEF Sound
<1>4. ASSUME \A k \in {l \in live : Matches(l, header[r])} : ExpiryOf[k] <= now,
             Done(r, Denied), UNCHANGED row
      PROVE  Sound(r)'
  <2>1. answer'[r] = Denied /\ pc'[r] = "idle"
    BY <1>1, <1>4, SameRequest DEF Done, Reply, Goto
  <2>2. ASSUME NEW k \in Key, Matches(k, header[r])
        PROVE  created[k] >= now \/ revoked[k] <= now \/ ExpiryOf[k] <= now
    BY <1>1, <1>4, <2>2, TableTimes DEF Table
  <2>3. Fair(r)'
    BY <1>1, <2>1, <2>2 DEF Denied, Verdict, Fair, Matches, table
  <2>4. QED
    BY <1>1, <2>1, <2>3 DEF Denied, Verdict, Sound, Knows, Earned, Fades, Granted
<1>5. ASSUME Done(r, Failed("db_error")) PROVE Sound(r)'
  <2>1. UNCHANGED <<now, table, kind, header>>
    BY <1>1
  <2>2. QED
    BY <1>5, <2>1, ErrorSound
<1> DEFINE found == {k \in live : Matches(k, header[r])}
<1>6. CASE \E k \in found : /\ ExpiryOf[k] > now
                            /\ row' = [row EXCEPT ![r] = k]
                            /\ Reply(r, Grant(k, now, now))
                            /\ Goto(r, "put")
  <2>1. PICK k \in found : /\ ExpiryOf[k] > now
                           /\ row' = [row EXCEPT ![r] = k]
                           /\ Reply(r, Grant(k, now, now))
                           /\ Goto(r, "put")
    BY <1>6
  <2>2. Sound(r)'
    BY <1>3, <2>1
  <2>3. \A q \in Request : q # r => /\ pc'[q] = pc[q] /\ row'[q] = row[q]
                                    /\ answer'[q] = answer[q]
    BY <1>1, <2>1 DEF Goto, Reply, TypeOK
  <2>4. QED
    BY <1>1, <2>2, <2>3, RequestSteps, SameCache
<1>7. CASE (\A k \in found : ExpiryOf[k] <= now) /\ Done(r, Denied) /\ UNCHANGED row
  <2>1. Sound(r)'
    BY <1>4, <1>7
  <2>2. \A q \in Request : q # r => /\ pc'[q] = pc[q] /\ row'[q] = row[q]
                                    /\ answer'[q] = answer[q]
    BY <1>1, <1>7 DEF Done, Goto, Reply, TypeOK
  <2>3. QED
    BY <1>1, <2>1, <2>2, RequestSteps, SameCache
<1>8. CASE Done(r, Failed("db_error")) /\ UNCHANGED row
  <2>1. \A q \in Request : q # r => /\ pc'[q] = pc[q] /\ row'[q] = row[q]
                                    /\ answer'[q] = answer[q]
    BY <1>1, <1>8 DEF Done, Goto, Reply, TypeOK
  <2>2. QED
    BY <1>1, <1>5, <1>8, <2>1, RequestSteps, SameCache
<1>9. QED
  BY <1>6, <1>7, <1>8 DEF Fetch

\* What is cached now was in the table when it was read.
LEMMA PutStep ==
  ASSUME IInv, TypeOK', NEW r \in Request, Put(r) PROVE IInv'
<1>1. /\ TypeOK /\ UNCHANGED <<now, table, kind, header, answer>> /\ now \in Nat
      /\ pc[r] = "put" /\ Sound(r) /\ TTL \in Nat \ {0}
  BY SoundNow, KeysAssumption DEF Put, IInv, TypeOK, Time
<1>2. Sound(r)'
  BY <1>1, SameRequest
     DEF Put, Goto, Sound, Knows, Earned, Fades, Fair, Granted, table
<1>3. Cached'
  <2> DEFINE s == header[r].secret
             e == [key |-> row[r], read |-> answer[r].read, put |-> now]
  <2>1. /\ Read(e.key, s, e.read) /\ e.read <= e.put /\ e.put <= now
        /\ now < e.put + TTL
    BY <1>1, AnswerTimes DEF Sound, Knows
  <2>2. cache' = cache \/ cache' = [cache EXCEPT ![s] = e]
    BY DEF Put
  <2>3. \A t \in Secret : cache'[t] = cache[t] \/ (t = s /\ cache'[t] = e)
    BY <1>1, <2>2 DEF TypeOK
  <2>4. ASSUME NEW t \in Secret, cache'[t] \notin NotCached
        PROVE  /\ Read(cache[t].key, t, cache[t].read)'
               /\ cache'[t].read <= cache'[t].put /\ cache'[t].put <= now
               /\ now < cache'[t].put + TTL
    <3>1. CASE cache'[t] = cache[t]
      BY <1>1, <2>4, <3>1 DEF IInv, Cached, Read, table
    <3>2. CASE t = s /\ cache'[t] = e
      BY <1>1, <2>1, <3>2 DEF Read, table
    <3>3. QED
      BY <2>3, <3>1, <3>2
  <2>5. QED
    BY <1>1, <2>4 DEF Cached, NotCached
<1>4. QED
  BY <1>1, <1>2, <1>3, OtherRequests, RequestSteps DEF Put, Goto

LEMMA IInvNext == IInv /\ [Next]_vars => IInv'
<1> SUFFICES ASSUME IInv, [Next]_vars PROVE IInv'
  OBVIOUS
<1>1. TypeOK'
  BY TypeNext DEF IInv
<1>2. CASE UNCHANGED vars
  BY <1>2 DEF vars, table, IInv, TypeOK, Cached, Requests, Table,
     GrantsAreEarned, RevokedFadesOut, NoFalseDenial, Granted, Read, NotCached
<1>3. CASE Next
  BY <1>1, <1>3, TickStep, DemoStep, EvictStep, KeyStep, ArriveStep,
     BrowseStep, ParseStep, GetStep, DeleteStep, FetchStep, PutStep DEF Next
<1>4. QED
  BY <1>2, <1>3

LEMMA Invariance == Spec => []IInv
  BY IInvInit, IInvNext, PTL DEF Spec

\* The variables have their types in every state of every behaviour.
THEOREM TypeCorrect == Spec => []TypeOK
<1>1. IInv => TypeOK
  BY DEF IInv
<1>2. QED
  BY <1>1, Invariance, PTL

\* auth() and verify(): a grant rests on a key both halves of which the request
\* sent, unexpired at that moment, whatever the cache held; or it is a read
\* without credentials of the demo project.
THEOREM EveryGrantIsEarned == Spec => []GrantsAreEarned
<1>1. IInv => GrantsAreEarned
  BY DEF IInv
<1>2. QED
  BY <1>1, Invariance, PTL

\* _cache_get(), _cache_put() and the TTL: a revoked key is refused TTL after
\* its revocation, or as much later as the last reader of its row took to cache
\* it.
THEOREM RevocationTakesEffect == Spec => []RevokedFadesOut
<1>1. IInv => RevokedFadesOut
  BY DEF IInv
<1>2. QED
  BY <1>1, Invariance, PTL

\* verify(): a request with both halves of a good key is never denied, with the
\* cache empty, corrupted, unreachable or holding anything else.
THEOREM GoodKeysAreNotDenied == Spec => []NoFalseDenial
<1>1. IInv => NoFalseDenial
  BY DEF IInv
<1>2. QED
  BY <1>1, Invariance, PTL
=============================================================================

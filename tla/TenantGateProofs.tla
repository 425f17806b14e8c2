-------------------------- MODULE TenantGateProofs --------------------------
(***************************************************************************)
(* Theorems about TenantGate, for any number of request threads, tenants   *)
(* and keys. GInv adds to the types what a request knows at each point of  *)
(* its way: its key and, once it looked one up, its bucket; that what it   *)
(* is to handle is an administrator's; and the row it is to write. RInv    *)
(* adds an account of the tokens of each tenant, for one request thread.   *)
(***************************************************************************)
EXTENDS TenantGate, FiniteSetTheorems, TLAPS

Points == {"idle", "limit", "time", "lookup", "create", "elapse", "refill",
           "spend", "handle", "write"}

Request == [at : Points,
            key : KeyIds \cup {Null}, handler : {"config", "issue", "none"},
            limit : Limits \cup {0}, now : Nat, owner : Workers \cup {Null},
            elapsed : Int, tokens : Int, row : Config \cup {Null}]

\* What a request r knows.
Knows(r) ==
    /\ r.at # "idle" => r.key \in KeyIds
    /\ r.at \in {"elapse", "refill", "spend"} => r.owner \in Workers
    /\ r.handler # "none" => KeyRole[r.key] = "admin"
    /\ r.at \in {"handle", "write"} => r.handler # "none"
    /\ r.at = "write" => r.row \in Config

GInv ==
    /\ TypeOK
    /\ \A w \in Workers : Knows(request[w])

-----------------------------------------------------------------------------
(* Steps of a request *)

LEMMA FreeRequest == Free \in Request /\ Knows(Free)
BY DEF Free, Request, Points, Knows

\* A step that changes one request keeps the others'.
LEMMA OneRequest ==
    ASSUME GInv, NEW w \in Workers, NEW r \in Request, Knows(r),
           request' = [request EXCEPT ![w] = r]
    PROVE  /\ request' \in [Workers -> Request]
           /\ \A v \in Workers : Knows(request'[v])
<1>1. request \in [Workers -> Request]
  BY DEF GInv, TypeOK, Request, Points
<1>2. ASSUME NEW v \in Workers PROVE Knows(request'[v])
  BY <1>1 DEF GInv
<1> QED
  BY <1>1, <1>2

\* The tokens of a bucket and the row of a configuration stay what they are.
LEMMA RefilledType ==
    ASSUME NEW limit \in Nat, NEW tokens \in Int, NEW elapsed \in Int
    PROVE  Refilled(limit, tokens, elapsed) \in Int
<1>1. elapsed * limit \in Int /\ limit * TicksPerMinute \in Int
  BY GateAssumption
<1> QED
  BY <1>1 DEF Refilled, Lesser

LEMMA UpdatedType ==
    ASSUME NEW row \in Config, NEW update \in Updates
    PROVE  Updated(row, update) \in Config
BY GateAssumption DEF Updated, Config

\* With a limit of 0 a refill never reaches a token.
LEMMA NothingToSpend ==
    ASSUME NEW tokens \in Int, NEW elapsed \in Int
    PROVE  Refilled(0, tokens, elapsed) < TicksPerMinute
<1>1. elapsed * 0 = 0 /\ 0 * TicksPerMinute = 0
  BY GateAssumption
<1> QED
  BY <1>1, GateAssumption DEF Refilled, Lesser

LEMMA InitInv == Init => GInv
<1> SUFFICES ASSUME Init PROVE GInv
  OBVIOUS
<1>1. request \in [Workers -> Request] /\ \A w \in Workers : Knows(request[w])
  BY FreeRequest DEF Init
<1>2. TypeOK
  BY <1>1, GateAssumption DEF Init, TypeOK, Request, Points
<1> QED
  BY <1>1, <1>2 DEF GInv

LEMMA AuthenticateInv ==
    ASSUME GInv, NEW w \in Workers, NEW k \in KeyIds, NEW kind \in Kinds,
           NEW target \in Tenants, Authenticate(w, k, kind, target)
    PROVE  GInv'
<1>1. CASE ~ MayCall(k, kind)
  BY <1>1 DEF Authenticate, GInv, TypeOK
<1>2. CASE MayCall(k, kind)
  <2> DEFINE r == [Free EXCEPT !.key = k, !.handler = Handler(k, kind, target), !.at = "limit"]
  <2>1. Handler(k, kind, target) \in {"config", "issue", "none"}
    BY DEF Handler
  <2>2. Handler(k, kind, target) # "none" => KeyRole[k] = "admin"
    BY <1>2 DEF Handler, MayCall, Required, Satisfying
  <2>3. r \in Request /\ Knows(r)
    BY <2>1, <2>2, FreeRequest DEF Request, Points, Knows, Free
  <2>4. request' = [request EXCEPT ![w] = r]
    BY <1>2 DEF Authenticate, Goto, Free
  <2> HIDE DEF r
  <2>5. request' \in [Workers -> Request] /\ \A v \in Workers : Knows(request'[v])
    BY <2>3, <2>4, OneRequest
  <2> QED
    BY <2>5 DEF Authenticate, GInv, TypeOK, Request, Points
<1> QED
  BY <1>1, <1>2

\* What a request is at a point other than the first.
LEMMA Facts ==
    ASSUME GInv, NEW w \in Workers
    PROVE  /\ request[w] \in Request /\ Knows(request[w])
           /\ ~ At(w, "idle") => request[w].key \in KeyIds /\ TenantOf(w) \in Tenants
BY GateAssumption DEF GInv, TypeOK, Request, Points, Knows, At, TenantOf

\* The steps of the limiter that change nothing but the request.
LEMMA LocalInv ==
    ASSUME GInv, NEW w \in Workers,
           ReadLimit(w) \/ TakeTime(w) \/ Lookup(w) \/ Elapse(w) \/ Refill(w)
    PROVE  GInv'
<1>0. request[w] \in Request /\ Knows(request[w])
  BY Facts
<1>a. ~ At(w, "idle") /\ request[w].key \in KeyIds /\ TenantOf(w) \in Tenants
  BY Facts DEF ReadLimit, TakeTime, Lookup, Elapse, Refill, At
<1>b. clock \in Nat
  BY GateAssumption DEF GInv, TypeOK
<1>1. PICK r \in Request : Knows(r) /\ request' = [request EXCEPT ![w] = r]
  <2>1. CASE ReadLimit(w)
    <3>1. config[TenantOf(w)].limit \in Limits
      BY <1>a DEF GInv, TypeOK, Config
    <3> QED
      BY <1>0, <1>a, <2>1, <3>1 DEF ReadLimit, Goto, Request, Points, Knows, At
  <2>2. CASE TakeTime(w)
    BY <1>0, <1>a, <1>b, <2>2 DEF TakeTime, Goto, Request, Points, Knows, At
  <2>3. CASE Lookup(w)
    <3>1. registered[TenantOf(w)] \in Workers \cup {Null}
      BY <1>a DEF GInv, TypeOK
    <3> QED
      BY <1>0, <1>a, <2>3, <3>1 DEF Lookup, Goto, Request, Points, Knows, At
  <2>4. CASE Elapse(w)
    <3>1. request[w].owner \in Workers
      BY <1>0, <2>4 DEF Elapse, At, Knows
    <3>2. Bucket(w).refill \in Nat
      BY <1>a, <3>1 DEF Bucket, GInv, TypeOK
    <3>3. request[w].now - Bucket(w).refill \in Int
      BY <1>0, <3>2 DEF Request
    <3> QED
      BY <1>0, <1>a, <2>4, <3>1, <3>3 DEF Elapse, Goto, Request, Points, Knows, At
  <2>5. CASE Refill(w)
    <3>1. request[w].owner \in Workers
      BY <1>0, <2>5 DEF Refill, At, Knows
    <3>2. Bucket(w).tokens \in Int
      BY <1>a, <3>1 DEF Bucket, GInv, TypeOK
    <3>3. request[w].limit \in Nat /\ request[w].elapsed \in Int
      BY <1>0, GateAssumption DEF Request
    <3>4. Refilled(request[w].limit, Bucket(w).tokens, request[w].elapsed) \in Int
      BY <3>2, <3>3, RefilledType
    <3> QED
      BY <1>0, <1>a, <2>5, <3>1, <3>4 DEF Refill, Goto, Request, Points, Knows, At
  <2> QED
    BY <2>1, <2>2, <2>3, <2>4, <2>5
<1>2. request' \in [Workers -> Request] /\ \A v \in Workers : Knows(request'[v])
  BY <1>1, OneRequest
<1>3. UNCHANGED <<config, keys, clock, registered, bucket, checked>>
  BY DEF ReadLimit, TakeTime, Lookup, Elapse, Refill
<1> QED
  BY <1>2, <1>3 DEF GInv, TypeOK, Request, Points

LEMMA CreateBucketInv ==
    ASSUME GInv, NEW w \in Workers, CreateBucket(w)
    PROVE  GInv'
<1>0. /\ request[w] \in Request /\ Knows(request[w])
      /\ request[w].key \in KeyIds /\ TenantOf(w) \in Tenants
  BY Facts DEF CreateBucket, At
<1> DEFINE r == [request[w] EXCEPT !.owner = w, !.at = "refill"]
           b == [tokens |-> request[w].limit * TicksPerMinute, refill |-> request[w].now]
<1>1. r \in Request /\ Knows(r)
  BY <1>0 DEF CreateBucket, Request, Points, Knows, At
<1>2. b \in [tokens : Int, refill : Nat]
  <2>1. request[w].limit \in Nat
    BY <1>0, GateAssumption DEF Request
  <2>2. request[w].limit * TicksPerMinute \in Int
    BY <2>1, GateAssumption
  <2> QED
    BY <1>0, <2>2 DEF Request
<1>3. request' = [request EXCEPT ![w] = r]
  BY DEF CreateBucket, Goto
<1>4. bucket' = [bucket EXCEPT ![TenantOf(w)][w] = b]
  BY DEF CreateBucket
<1> HIDE DEF r, b
<1>5. request' \in [Workers -> Request] /\ \A v \in Workers : Knows(request'[v])
  BY <1>1, <1>3, OneRequest
<1>6. bucket' \in [Tenants -> [Workers -> [tokens : Int, refill : Nat]]]
  BY <1>0, <1>2, <1>4 DEF GInv, TypeOK
<1>7. /\ registered' \in [Tenants -> Workers \cup {Null}]
      /\ UNCHANGED <<config, keys, clock, checked>>
  BY <1>0 DEF CreateBucket, GInv, TypeOK
<1> QED
  BY <1>5, <1>6, <1>7 DEF GInv, TypeOK, Request, Points

LEMMA SpendInv ==
    ASSUME GInv, NEW w \in Workers, Spend(w)
    PROVE  GInv'
<1>0. /\ request[w] \in Request /\ Knows(request[w])
      /\ request[w].key \in KeyIds /\ TenantOf(w) \in Tenants
      /\ request[w].owner \in Workers
  BY Facts DEF Spend, At, Knows
<1>1. PICK r \in Request : Knows(r) /\ request' = [request EXCEPT ![w] = r]
  <2>1. CASE request' = [request EXCEPT ![w] = [request[w] EXCEPT !.at = "handle"]]
              /\ request[w].handler # "none"
    BY <1>0, <2>1 DEF Request, Points, Knows
  <2>2. CASE request' = [request EXCEPT ![w] = [Free EXCEPT !.at = "idle"]]
    <3>1. [Free EXCEPT !.at = "idle"] = Free
      BY DEF Free
    <3> QED
      BY <2>2, <3>1, FreeRequest
  <2> QED
    BY <2>1, <2>2 DEF Spend, Goto
<1>2. request' \in [Workers -> Request] /\ \A v \in Workers : Knows(request'[v])
  BY <1>1, OneRequest
<1>3. PICK b \in [tokens : Int, refill : Nat] :
        bucket' = [bucket EXCEPT ![TenantOf(w)][request[w].owner] = b]
  <2> DEFINE tokens == request[w].tokens
             b == [tokens |-> IF tokens < TicksPerMinute THEN tokens
                              ELSE tokens - TicksPerMinute,
                   refill |-> request[w].now]
  <2>1. b \in [tokens : Int, refill : Nat]
    BY <1>0, GateAssumption DEF Request
  <2>2. bucket' = [bucket EXCEPT ![TenantOf(w)][request[w].owner] = b]
    BY DEF Spend
  <2> QED
    BY <2>1, <2>2
<1>4. bucket' \in [Tenants -> [Workers -> [tokens : Int, refill : Nat]]]
  BY <1>0, <1>3 DEF GInv, TypeOK
<1>5. checked' \in [Tenants -> Seq(Check)]
  <2> DEFINE check == [time |-> request[w].now, limit |-> config[TenantOf(w)].limit,
                       passed |-> ~ (request[w].tokens < TicksPerMinute)]
  <2>1. checked' = [checked EXCEPT ![TenantOf(w)] = Append(@, check)]
    BY DEF Spend
  <2>2. check \in Check
    BY <1>0 DEF Check, GInv, TypeOK, Config, Request
  <2> HIDE DEF check
  <2>3. Append(checked[TenantOf(w)], check) \in Seq(Check)
    BY <1>0, <2>2 DEF GInv, TypeOK
  <2> QED
    BY <2>1, <2>3 DEF GInv, TypeOK
<1>6. UNCHANGED <<config, keys, clock, registered>>
  BY DEF Spend
<1> QED
  BY <1>2, <1>4, <1>5, <1>6 DEF GInv, TypeOK, Request, Points

LEMMA HandleInv ==
    ASSUME GInv, NEW w \in Workers, Handle(w)
    PROVE  GInv'
<1>0. /\ request[w] \in Request /\ Knows(request[w])
      /\ request[w].key \in KeyIds /\ TenantOf(w) \in Tenants
  BY Facts DEF Handle, ReadConfig, WriteConfig, IssueKey, RefuseRole, At
<1>1. PICK r \in Request : Knows(r) /\ request' = [request EXCEPT ![w] = r]
  <2>1. CASE ReadConfig(w)
    <3>1. config[TenantOf(w)] \in Config
      BY <1>0 DEF GInv, TypeOK
    <3> QED
      BY <1>0, <2>1, <3>1 DEF ReadConfig, Goto, Request, Points, Knows, At
  <2>2. CASE ~ ReadConfig(w)
    <3>1. request' = [request EXCEPT ![w] = Free]
      BY <2>2 DEF Handle, WriteConfig, IssueKey, RefuseRole, Goto, Free
    <3> QED
      BY <3>1, FreeRequest
  <2> QED
    BY <2>1, <2>2
<1>2. request' \in [Workers -> Request] /\ \A v \in Workers : Knows(request'[v])
  BY <1>1, OneRequest
<1>3. config' \in [Tenants -> Config]
  <2>1. ASSUME NEW update \in Updates, WriteConfig(w, update)
        PROVE  config' \in [Tenants -> Config]
    <3>1. request[w].row \in Config
      BY <1>0, <2>1 DEF WriteConfig, At, Knows
    <3>2. Updated(request[w].row, update) \in Config
      BY <3>1, UpdatedType
    <3> QED
      BY <2>1, <3>2 DEF WriteConfig, GInv, TypeOK
  <2> QED
    BY <2>1 DEF Handle, ReadConfig, IssueKey, RefuseRole, GInv, TypeOK
<1>4. keys' \in [KeyIds -> {"absent", "valid", "revoked"}]
  BY DEF Handle, ReadConfig, WriteConfig, IssueKey, RefuseRole, GInv, TypeOK
<1>5. UNCHANGED <<clock, registered, bucket, checked>>
  BY DEF Handle, ReadConfig, WriteConfig, IssueKey, RefuseRole
<1> QED
  BY <1>2, <1>3, <1>4, <1>5 DEF GInv, TypeOK, Request, Points

LEMMA NextInv == GInv /\ [Next]_vars => GInv'
<1> SUFFICES ASSUME GInv, [Next]_vars PROVE GInv'
  OBVIOUS
<1>1. ASSUME NEW w \in Workers, Step(w) PROVE GInv'
  BY <1>1, AuthenticateInv, LocalInv, CreateBucketInv, SpendInv, HandleInv DEF Step
<1>2. ASSUME NEW k \in KeyIds, RevokeKey(k) PROVE GInv'
  BY <1>2 DEF RevokeKey, GInv, TypeOK
<1>3. CASE Tick
  BY <1>3, GateAssumption DEF Tick, GInv, TypeOK
<1>4. CASE UNCHANGED vars
  BY <1>4 DEF vars, GInv, TypeOK
<1> QED
  BY <1>1, <1>2, <1>3, <1>4 DEF Next

-----------------------------------------------------------------------------
(* Theorems *)

\* The inductive invariant: types, and what a request under way knows of its key,
\* its bucket and its row, whatever threads overlap (auth.py, 43-95).
THEOREM Inductive == Spec => []GInv
BY InitInv, NextInv, PTL DEF Spec

\* Every variable has its type in every behaviour: no overlap of requests makes a
\* thread use a bucket nobody made, or write a row it has not read.
THEOREM TypeCorrect == Spec => []TypeOK
BY Inductive, PTL DEF GInv

-----------------------------------------------------------------------------
(* A limit of 0 *)

\* A step leaves the other requests alone.
LEMMA StepOthers ==
    ASSUME GInv, NEW w \in Workers, Step(w), NEW v \in Workers \ {w}
    PROVE  request'[v] = request[v]
<1>1. request \in [Workers -> Request]
  BY DEF GInv, TypeOK, Request, Points
<1>2. ASSUME NEW step, NEW changed, Goto(w, step, changed) PROVE request'[v] = request[v]
  BY <1>1, <1>2 DEF Goto
<1>3. CASE request' = request
  BY <1>3
<1> QED
  BY <1>2, <1>3
     DEF Step, Authenticate, ReadLimit, TakeTime, Lookup, CreateBucket, Elapse, Refill, Spend,
         Handle, ReadConfig, WriteConfig, IssueKey, RefuseRole

\* Each step of an accepted request, with what it does to its record.
LEMMA StepEffect ==
    ASSUME GInv, NEW w \in Workers, Step(w), ~ At(w, "idle")
    PROVE  \/ request'[w].at = "idle"
           \/ /\ request'[w].key = request[w].key
              /\ \/ /\ At(w, "limit")
                    /\ request'[w].at = "time"
                    /\ request'[w].limit = config[TenantOf(w)].limit
                 \/ /\ ~ At(w, "limit")
                    /\ request'[w].at \in {"lookup", "create", "elapse", "refill"}
                    /\ request'[w].limit = request[w].limit
                 \/ /\ At(w, "refill") /\ request'[w].at = "spend"
                    /\ request'[w].limit = request[w].limit
                    /\ request'[w].tokens = Refilled(request[w].limit, Bucket(w).tokens,
                                                     request[w].elapsed)
                 \/ /\ At(w, "spend") /\ request'[w].at = "handle"
                    /\ request[w].tokens >= TicksPerMinute
                 \/ At(w, "handle") /\ request'[w].at = "write"
<1>0. request[w] \in Request /\ Knows(request[w]) /\ request \in [Workers -> Request]
  BY Facts DEF GInv, TypeOK, Request, Points
<1>a. request[w].key \in KeyIds /\ TenantOf(w) \in Tenants
  BY Facts
<1>1. CASE ReadLimit(w)
  <2>1. request'[w] = [[request[w] EXCEPT !.limit = config[TenantOf(w)].limit] EXCEPT !.at = "time"]
    BY <1>0, <1>1 DEF ReadLimit, Goto
  <2> QED
    BY <1>0, <1>1, <2>1 DEF ReadLimit, Request
<1>2. CASE TakeTime(w)
  <2>1. request'[w] = [[request[w] EXCEPT !.now = clock] EXCEPT !.at = "lookup"]
    BY <1>0, <1>2 DEF TakeTime, Goto
  <2> QED
    BY <1>0, <1>2, <2>1 DEF TakeTime, Request, At
<1>3. CASE Lookup(w)
  <2> DEFINE owner == registered[TenantOf(w)]
  <2>1. request'[w] = [[request[w] EXCEPT !.owner = owner]
                         EXCEPT !.at = IF owner = Null THEN "create" ELSE "elapse"]
    BY <1>0, <1>3 DEF Lookup, Goto
  <2> QED
    BY <1>0, <1>3, <2>1 DEF Lookup, Request, At
<1>4. CASE CreateBucket(w)
  <2>1. request'[w] = [[request[w] EXCEPT !.owner = w] EXCEPT !.at = "refill"]
    BY <1>0, <1>4 DEF CreateBucket, Goto
  <2> QED
    BY <1>0, <1>4, <2>1 DEF CreateBucket, Request, At
<1>5. CASE Elapse(w)
  <2>1. request'[w] = [[request[w] EXCEPT !.elapsed = request[w].now - Bucket(w).refill]
                         EXCEPT !.at = "refill"]
    BY <1>0, <1>5 DEF Elapse, Goto
  <2> QED
    BY <1>0, <1>5, <2>1 DEF Elapse, Request, At
<1>6. CASE Refill(w)
  <2>1. request'[w] = [[request[w] EXCEPT !.tokens = Refilled(request[w].limit, Bucket(w).tokens,
                                                             request[w].elapsed)]
                         EXCEPT !.at = "spend"]
    BY <1>0, <1>6 DEF Refill, Goto
  <2> QED
    BY <1>0, <1>6, <2>1 DEF Refill, Request
<1>7. CASE Spend(w)
  <2>1. CASE request[w].tokens < TicksPerMinute \/ request[w].handler = "none"
    <3>1. request'[w] = [Free EXCEPT !.at = "idle"]
      BY <1>0, <1>7, <2>1 DEF Spend, Goto
    <3> QED
      BY <1>7, <3>1 DEF Free, Spend, At
  <2>2. CASE ~ (request[w].tokens < TicksPerMinute) /\ request[w].handler # "none"
    <3>1. request'[w] = [request[w] EXCEPT !.at = "handle"]
      BY <1>0, <1>7, <2>2 DEF Spend, Goto
    <3>2. request[w].tokens >= TicksPerMinute
      BY <1>0, <2>2, GateAssumption DEF Request
    <3> QED
      BY <1>0, <1>7, <3>1, <3>2 DEF Request, Spend
  <2> QED
    BY <2>1, <2>2
<1>8. CASE ReadConfig(w)
  <2>1. request'[w] = [[request[w] EXCEPT !.row = config[TenantOf(w)]] EXCEPT !.at = "write"]
    BY <1>0, <1>8 DEF ReadConfig, Goto
  <2> QED
    BY <1>0, <1>8, <2>1 DEF Request, ReadConfig
<1>9. CASE (\E update \in Updates : WriteConfig(w, update)) \/ RefuseRole(w)
            \/ \E k \in KeyIds : IssueKey(w, k)
  <2>1. request'[w] = [Free EXCEPT !.at = "idle"]
    BY <1>0, <1>9 DEF WriteConfig, RefuseRole, IssueKey, Goto
  <2>2. At(w, "write") \/ At(w, "handle")
    BY <1>9 DEF WriteConfig, RefuseRole, IssueKey
  <2> QED
    BY <2>1, <2>2 DEF Free, At
<1> QED
  BY <1>1, <1>2, <1>3, <1>4, <1>5, <1>6, <1>7, <1>8, <1>9 DEF Step, Handle, Authenticate

\* A request that is accepted now: its key may be used for what it asks.
LEMMA AcceptEffect ==
    ASSUME GInv, NEW w \in Workers, Step(w), At(w, "idle")
    PROVE  \/ request'[w].at = "idle"
           \/ /\ request'[w].at = "limit"
              /\ request'[w].key \in KeyIds /\ keys[request'[w].key] = "valid"
<1>0. request \in [Workers -> Request]
  BY DEF GInv, TypeOK, Request, Points
<1>1. PICK k \in KeyIds, kind \in Kinds, target \in Tenants : Authenticate(w, k, kind, target)
  BY DEF Step, ReadLimit, TakeTime, Lookup, CreateBucket, Elapse, Refill, Spend, Handle,
     ReadConfig, WriteConfig, IssueKey, RefuseRole, At
<1>2. CASE MayCall(k, kind)
  <2>1. request'[w] = [[Free EXCEPT !.key = k, !.handler = Handler(k, kind, target)]
                         EXCEPT !.at = "limit"]
    BY <1>0, <1>1, <1>2 DEF Authenticate, Goto
  <2>2. request'[w].at = "limit" /\ request'[w].key = k
    BY <2>1 DEF Free
  <2> QED
    BY <1>2, <2>2 DEF MayCall
<1>3. CASE ~ MayCall(k, kind)
  BY <1>1, <1>3 DEF Authenticate, At
<1> QED
  BY <1>2, <1>3

\* A step changes the configuration of its own tenant only, and only at "write".
LEMMA StepConfig ==
    ASSUME GInv, NEW w \in Workers, Step(w), NEW t \in Tenants,
           ~ At(w, "write") \/ TenantOf(w) # t
    PROVE  config'[t] = config[t]
<1>1. ASSUME NEW update \in Updates, WriteConfig(w, update)
      PROVE  config'[t] = config[t]
  BY <1>1 DEF WriteConfig, GInv, TypeOK
<1>2. CASE ~ \E update \in Updates : WriteConfig(w, update)
  BY <1>2 DEF Step, Handle, Authenticate, ReadLimit, TakeTime, Lookup, CreateBucket, Elapse,
     Refill, Spend, ReadConfig, IssueKey, RefuseRole
<1> QED
  BY <1>1, <1>2

LEMMA LockedStep ==
    ASSUME GInv, NEW t \in Tenants, Locked(t), NEW w \in Workers, Step(w)
    PROVE  Locked(t)'
<1>1. \/ request'[w].at \in {"idle", "limit"}
      \/ KeyTenant[request'[w].key] # t
      \/ /\ request'[w].limit = 0
         /\ request'[w].at \notin {"handle", "write"}
         /\ request'[w].at = "spend" => request'[w].tokens < TicksPerMinute
  <2>1. CASE At(w, "idle")
    BY <2>1, AcceptEffect
  <2>2. CASE ~ At(w, "idle") /\ TenantOf(w) # t
    BY <2>2, StepEffect DEF TenantOf
  <2>3. CASE ~ At(w, "idle") /\ TenantOf(w) = t
    <3>0. request[w] \in Request /\ Knows(request[w])
      BY Facts
    <3>1. At(w, "limit") \/ /\ request[w].limit = 0
                            /\ ~ At(w, "handle") /\ ~ At(w, "write")
                            /\ At(w, "spend") => request[w].tokens < TicksPerMinute
      BY <2>3 DEF Locked
    <3>2. config[t].limit = 0
      BY DEF Locked
    <3>3. At(w, "refill") /\ request[w].limit = 0 =>
            Refilled(request[w].limit, Bucket(w).tokens, request[w].elapsed) < TicksPerMinute
      <4>1. At(w, "refill") => Bucket(w).tokens \in Int
        BY <2>3, <3>0 DEF Bucket, GInv, TypeOK, Knows, At
      <4> QED
        BY <3>0, <4>1, NothingToSpend DEF Request
    <3>4. ~ (At(w, "spend") /\ request[w].tokens >= TicksPerMinute)
      BY <3>0, <3>1, GateAssumption DEF Request, At
    <3> QED
      BY <2>3, <3>1, <3>2, <3>3, <3>4, StepEffect DEF At
  <2> QED
    BY <2>1, <2>2, <2>3
<1>2. config'[t] = config[t]
  <2>1. ~ At(w, "write") \/ TenantOf(w) # t
    BY DEF Locked, At
  <2> QED
    BY <2>1, StepConfig
<1> QED
  BY <1>1, <1>2, StepOthers DEF Locked, At, TenantOf

\* A limit of 0 is final for any number of overlapping requests: the tenant's own
\* administrator is refused too (auth.py, 74-95; main.py, 185-192).
THEOREM LimitZeroIsFinal == Spec => LockedStays
<1>1. GInv /\ [Next]_vars => [\A t \in Tenants : Locked(t) => Locked(t)']_vars
  <2> SUFFICES ASSUME GInv, [Next]_vars, NEW t \in Tenants, Locked(t)
               PROVE  Locked(t)'
    OBVIOUS
  <2>1. ASSUME NEW w \in Workers, Step(w) PROVE Locked(t)'
    BY <2>1, LockedStep
  <2>2. CASE UNCHANGED <<config, request>>
    BY <2>2 DEF Locked, At, TenantOf
  <2> QED
    BY <2>1, <2>2 DEF Next, RevokeKey, Tick, vars
<1> QED
  BY <1>1, Inductive, PTL DEF Spec, LockedStays

-----------------------------------------------------------------------------
(* No administrator left *)

\* A step at a handler is one of an administrator's request, and its last but for
\* reading the row; no other step changes a configuration or a key.
LEMMA HandlerStep ==
    ASSUME GInv, NEW w \in Workers, Step(w), config' # config \/ keys' # keys
    PROVE  /\ ~ At(w, "idle") /\ request'[w].at = "idle"
           /\ KeyRole[request[w].key] = "admin"
           /\ \A t \in Tenants : t # TenantOf(w) => config'[t] = config[t]
           /\ \A k \in KeyIds : KeyTenant[k] # TenantOf(w) => keys'[k] = keys[k]
<1>0. request[w] \in Request /\ Knows(request[w]) /\ request \in [Workers -> Request]
  BY Facts DEF GInv, TypeOK, Request, Points
<1>1. (\E update \in Updates : WriteConfig(w, update)) \/ \E k \in KeyIds : IssueKey(w, k)
  BY DEF Step, Handle, Authenticate, ReadLimit, TakeTime, Lookup, CreateBucket, Elapse,
     Refill, Spend, ReadConfig, RefuseRole
<1>2. ~ At(w, "idle") /\ KeyRole[request[w].key] = "admin"
  BY <1>0, <1>1 DEF WriteConfig, IssueKey, At, Knows
<1>3. request'[w].at = "idle"
  BY <1>0, <1>1 DEF WriteConfig, IssueKey, Goto, Free
<1>4. /\ \A t \in Tenants : t # TenantOf(w) => config'[t] = config[t]
      /\ \A k \in KeyIds : KeyTenant[k] # TenantOf(w) => keys'[k] = keys[k]
  BY <1>1 DEF WriteConfig, IssueKey, GInv, TypeOK
<1> QED
  BY <1>2, <1>3, <1>4

\* What NoAdminNoChange says of a tenant's step.
OnlyUnderWay(t) ==
    /\ AdminRequests(t)' \subseteq AdminRequests(t)
    /\ \/ NoAdmin(t)' /\ config'[t] = config[t]
       \/ AdminRequests(t)' # AdminRequests(t)

LEMMA NoAdminStep ==
    ASSUME GInv, NEW t \in Tenants, NoAdmin(t), NEW w \in Workers, Step(w)
    PROVE  OnlyUnderWay(t)
<1>1. \A v \in Workers : v # w => request'[v] = request[v]
  BY StepOthers
<1>2. w \in AdminRequests(t)' => w \in AdminRequests(t)
  <2>1. CASE At(w, "idle")
    BY <2>1, AcceptEffect DEF NoAdmin, AdminRequests, At, TenantOf
  <2>2. CASE ~ At(w, "idle")
    BY <2>2, StepEffect DEF AdminRequests, At, TenantOf
  <2> QED
    BY <2>1, <2>2
<1>3. AdminRequests(t)' \subseteq AdminRequests(t)
  BY <1>1, <1>2 DEF AdminRequests, At, TenantOf
<1>4. CASE w \in AdminRequests(t) /\ request'[w].at = "idle"
  <2>1. w \notin AdminRequests(t)'
    BY <1>4 DEF AdminRequests, At
  <2> QED
    BY <1>3, <1>4, <2>1 DEF OnlyUnderWay
<1>5. CASE ~ (w \in AdminRequests(t) /\ request'[w].at = "idle")
  <2>1. config'[t] = config[t]
    BY <1>5, HandlerStep DEF AdminRequests
  <2>2. \A k \in KeyIds : KeyTenant[k] = t => keys'[k] = keys[k]
    BY <1>5, HandlerStep DEF AdminRequests
  <2>3. NoAdmin(t)'
    BY <2>2 DEF NoAdmin
  <2> QED
    BY <1>3, <2>1, <2>3 DEF OnlyUnderWay
<1> QED
  BY <1>4, <1>5

\* A tenant whose last admin key is revoked keeps its configuration and gets no
\* admin key, whichever keys of others are used meanwhile, but for one change by
\* each request that was past the lookup of its key (auth.py, 43-59).
THEOREM WithoutAdminFixed == Spec => NoAdminNoChange
<1>1. GInv /\ [Next]_vars => [\A t \in Tenants : NoAdmin(t) => OnlyUnderWay(t)]_vars
  <2> SUFFICES ASSUME GInv, [Next]_vars, NEW t \in Tenants, NoAdmin(t)
               PROVE  OnlyUnderWay(t)
    OBVIOUS
  <2>1. ASSUME NEW w \in Workers, Step(w) PROVE OnlyUnderWay(t)
    BY <2>1, NoAdminStep
  <2>2. ASSUME NEW k \in KeyIds, RevokeKey(k) PROVE OnlyUnderWay(t)
    <3>1. config' = config /\ request' = request /\ NoAdmin(t)'
      BY <2>2 DEF RevokeKey, NoAdmin, GInv, TypeOK
    <3> QED
      BY <3>1 DEF OnlyUnderWay, AdminRequests, At, TenantOf
  <2>3. CASE UNCHANGED <<config, keys, request>>
    BY <2>3 DEF OnlyUnderWay, NoAdmin, AdminRequests, At, TenantOf
  <2> QED
    BY <2>1, <2>2, <2>3 DEF Next, Tick, vars
<1>2. [\A t \in Tenants : NoAdmin(t) => OnlyUnderWay(t)]_vars
        => [\A t \in Tenants : NoAdmin(t) =>
              /\ AdminRequests(t)' \subseteq AdminRequests(t)
              /\ \/ NoAdmin(t)' /\ config'[t] = config[t]
                 \/ AdminRequests(t)' # AdminRequests(t)]_vars
  BY DEF OnlyUnderWay
<1> QED
  BY <1>1, <1>2, Inductive, PTL DEF Spec, NoAdminNoChange

-----------------------------------------------------------------------------
(* The rate limit holds for one request thread. The invariant is an account: *)
(* the requests let through since any earlier one, together with the tokens  *)
(* that are left, are paid for by one bucket, filled at the limit of that    *)
(* request, and the refill since at a limit that covers those in between.    *)
(* What a request holds between reading the bucket and storing it again      *)
(* (Timed) keeps the account only because no other request is under way.     *)

OneThread == \A v, w \in Workers : v = w

\* n requests and the tokens left are paid for by a bucket filled at the limit
\* `burst` at the time `from`, and the refill up to `to` at `limit`.
Paid(n, tokens, burst, from, to, limit) ==
    n * TicksPerMinute + tokens <= burst * TicksPerMinute + limit * (to - from)

Account(t) ==
    IF registered[t] = Null
    THEN checked[t] = <<>>
    ELSE LET b == bucket[t][registered[t]]
             past == checked[t]
         IN  /\ b.refill <= clock
             /\ b.tokens >= 0
             /\ \A i \in DOMAIN past :
                  /\ past[i].time <= b.refill
                  /\ \A limit \in Limits : Covers(limit, past, i, Len(past)) =>
                       Paid(Cardinality(Passed(past, i, Len(past))), b.tokens,
                            past[i].limit, past[i].time, b.refill, limit)

\* RateKept of one history.
Kept(past) ==
    \A j \in DOMAIN past : \A i \in 1 .. j : \A limit \in Limits :
        Covers(limit, past, i, j) =>
            Paid(Cardinality(Passed(past, i, j)), 0, past[i].limit, past[i].time, past[j].time, limit)

Timed(w) ==
    LET r == request[w]
        t == TenantOf(w)
    IN  /\ r.at \in {"limit", "time", "lookup", "create"} => r.elapsed = 0
        /\ r.at \in {"time", "lookup", "create", "elapse", "refill", "spend"} =>
             r.limit = config[t].limit
        /\ r.at \in {"lookup", "create", "elapse", "refill", "spend"} =>
             /\ r.now <= clock
             /\ registered[t] # Null => bucket[t][registered[t]].refill <= r.now
        /\ r.at = "create" => registered[t] = Null
        /\ r.at \in {"elapse", "refill", "spend"} => registered[t] = r.owner
        /\ r.at = "refill" => r.elapsed = r.now - Bucket(w).refill
        /\ r.at = "spend" =>
             /\ 0 <= r.tokens
             /\ r.tokens <= r.limit * TicksPerMinute
             /\ r.tokens <= Bucket(w).tokens + r.limit * (r.now - Bucket(w).refill)

RInv ==
    /\ \A t \in Tenants : Account(t) /\ Kept(checked[t])
    /\ \A w \in Workers : Timed(w)

-----------------------------------------------------------------------------
(* Arithmetic *)

LEMMA LimitsAreNumbers == \A limit \in Limits \cup {0} : limit \in Nat
BY GateAssumption

LEMMA TimesMonotone ==
    ASSUME NEW x \in Nat, NEW y \in Nat, NEW z \in Nat, x <= y
    PROVE  x * z <= y * z
<1>1. PICK d \in Nat : y = x + d
  <2>1. y - x \in Nat /\ y = x + (y - x)
    OBVIOUS
  <2> QED
    BY <2>1
<1>2. y * z = x * z + d * z
  BY <1>1
<1>3. d * z \in Nat /\ x * z \in Nat
  OBVIOUS
<1> QED
  BY <1>2, <1>3

\* A refill leaves a natural number of tokens, at most a full bucket and at most what
\* the limit adds.
LEMMA RefilledBound ==
    ASSUME NEW limit \in Nat, NEW tokens \in Nat, NEW elapsed \in Nat
    PROVE  /\ Refilled(limit, tokens, elapsed) \in Nat
           /\ Refilled(limit, tokens, elapsed) <= limit * TicksPerMinute
           /\ Refilled(limit, tokens, elapsed) <= tokens + limit * elapsed
<1>1. limit * TicksPerMinute \in Nat /\ limit * elapsed \in Nat /\ elapsed * limit = limit * elapsed
  BY GateAssumption
<1> QED
  BY <1>1 DEF Refilled, Lesser

\* The refill of a later request is paid for by a limit that covers it.
LEMMA PaidLater ==
    ASSUME NEW n \in Nat, NEW burst \in Nat, NEW b \in Nat, NEW x \in Nat,
           NEW from \in Nat, NEW refill \in Nat, NEW now \in Nat,
           NEW rate \in Nat, NEW limit \in Nat, rate <= limit, refill <= now,
           Paid(n, b, burst, from, refill, limit), x <= b + rate * (now - refill)
    PROVE  Paid(n, x, burst, from, now, limit)
<1>1. limit * (refill - from) + limit * (now - refill) = limit * (now - from)
  OBVIOUS
<1>2. rate * (now - refill) <= limit * (now - refill)
  <2>1. now - refill \in Nat
    OBVIOUS
  <2> QED
    BY <2>1, TimesMonotone
<1>3. /\ limit * (refill - from) \in Int /\ limit * (now - refill) \in Int
      /\ limit * (now - from) \in Int /\ rate * (now - refill) \in Int
      /\ n * TicksPerMinute \in Int /\ burst * TicksPerMinute \in Int
  BY GateAssumption
<1> QED
  BY <1>1, <1>2, <1>3 DEF Paid

\* Letting one more request through costs the token it takes.
LEMMA PaidSpend ==
    ASSUME NEW n \in Nat, NEW x \in Int, NEW burst \in Nat, NEW from \in Nat, NEW to \in Nat,
           NEW limit \in Nat
    PROVE  Paid(n + 1, x - TicksPerMinute, burst, from, to, limit)
             <=> Paid(n, x, burst, from, to, limit)
<1>1. (n + 1) * TicksPerMinute = n * TicksPerMinute + TicksPerMinute
  BY GateAssumption
<1>2. /\ n * TicksPerMinute \in Int /\ burst * TicksPerMinute \in Int
      /\ limit * (to - from) \in Int /\ TicksPerMinute \in Int
  BY GateAssumption
<1> QED
  BY <1>1, <1>2 DEF Paid

\* Tokens that are left over are not needed for what was let through.
LEMMA PaidLess ==
    ASSUME NEW n \in Nat, NEW x \in Nat, NEW burst \in Nat, NEW from \in Nat, NEW to \in Nat,
           NEW limit \in Nat, Paid(n, x, burst, from, to, limit)
    PROVE  Paid(n, 0, burst, from, to, limit)
<1>1. /\ n * TicksPerMinute \in Int /\ burst * TicksPerMinute \in Int
      /\ limit * (to - from) \in Int
  BY GateAssumption
<1> QED
  BY <1>1 DEF Paid

LEMMA PassedFinite ==
    ASSUME NEW history, NEW i \in Nat, NEW j \in Nat
    PROVE  IsFiniteSet(Passed(history, i, j)) /\ Cardinality(Passed(history, i, j)) \in Nat
<1>1. IsFiniteSet(i .. j)
  BY FS_Interval
<1>2. Passed(history, i, j) \subseteq i .. j
  BY DEF Passed
<1> QED
  BY <1>1, <1>2, FS_Subset, FS_CardinalityType

\* One more request is let through, or none.
LEMMA PassedMore ==
    ASSUME NEW past \in Seq(Check), NEW check \in Check, NEW i \in 1 .. Len(past) + 1
    PROVE  LET due == Append(past, check)
               before == Cardinality(Passed(past, i, Len(past)))
               after == Cardinality(Passed(due, i, Len(past) + 1))
           IN  /\ before \in Nat
               /\ after = IF check.passed THEN before + 1 ELSE before
<1> DEFINE n == Len(past)
           due == Append(past, check)
           before == Passed(past, i, n)
           after == Passed(due, i, n + 1)
<1>1. n \in Nat /\ i \in Nat
  OBVIOUS
<1>2. IsFiniteSet(before) /\ Cardinality(before) \in Nat
  BY <1>1, PassedFinite
<1>3. /\ due[n + 1] = check
      /\ \A k \in i .. n : due[k] = past[k]
  OBVIOUS
<1>4. i .. n + 1 = (i .. n) \cup {n + 1}
  BY <1>1
<1> HIDE DEF due, n
<1>5. after = IF check.passed THEN before \cup {n + 1} ELSE before
  BY <1>3, <1>4 DEF Passed
<1>6. n + 1 \notin before
  BY <1>1 DEF Passed
<1>7. Cardinality(before \cup {n + 1}) = Cardinality(before) + 1
  BY <1>2, <1>6, FS_AddElement
<1> QED
  BY <1>2, <1>5, <1>7 DEF due, n

-----------------------------------------------------------------------------
(* Steps *)

\* The buckets, the times and the clock stay: so does every account.
LEMMA AccountsStay ==
    ASSUME RInv, UNCHANGED <<registered, bucket, checked, clock>>
    PROVE  \A t \in Tenants : Account(t)' /\ Kept(checked[t])'
BY DEF RInv, Account, Kept, Covers, Passed, Paid

\* The steps of a request before it stores its bucket.
LEMMA LocalTimed ==
    ASSUME GInv, RInv, NEW w \in Workers,
           ReadLimit(w) \/ TakeTime(w) \/ Lookup(w) \/ Elapse(w) \/ Refill(w)
    PROVE  Timed(w)'
<1>0. /\ request[w] \in Request /\ Knows(request[w]) /\ request \in [Workers -> Request]
      /\ request[w].key \in KeyIds /\ TenantOf(w) \in Tenants
      /\ Timed(w) /\ Account(TenantOf(w))
  BY Facts DEF ReadLimit, TakeTime, Lookup, Elapse, Refill, At, RInv, GInv, TypeOK, Request,
     Points
<1>1. UNCHANGED <<config, registered, bucket, checked, clock>>
  BY DEF ReadLimit, TakeTime, Lookup, Elapse, Refill
<1>2. clock \in Nat
  BY GateAssumption DEF GInv, TypeOK
<1>3. CASE ReadLimit(w)
  <2>1. request'[w] = [request[w] EXCEPT !.limit = config[TenantOf(w)].limit, !.at = "time"]
    BY <1>0, <1>3 DEF ReadLimit, Goto
  <2>2. config[TenantOf(w)].limit \in Limits
    BY <1>0 DEF GInv, TypeOK, Config
  <2>3. request[w].elapsed = 0
    BY <1>0, <1>3 DEF Timed, ReadLimit, At
  <2>4. /\ request'[w].at = "time" /\ request'[w].limit = config[TenantOf(w)].limit
        /\ request'[w].elapsed = 0 /\ request'[w].key = request[w].key
    BY <1>0, <2>1, <2>2, <2>3 DEF Request
  <2> QED
    BY <1>1, <2>4 DEF Timed, TenantOf
<1>4. CASE TakeTime(w)
  <2>1. request'[w] = [request[w] EXCEPT !.now = clock, !.at = "lookup"]
    BY <1>0, <1>4 DEF TakeTime, Goto
  <2>2. request[w].elapsed = 0 /\ request[w].limit = config[TenantOf(w)].limit
    BY <1>0, <1>4 DEF Timed, TakeTime, At
  <2>3. /\ request'[w].at = "lookup" /\ request'[w].limit = request[w].limit
        /\ request'[w].elapsed = 0 /\ request'[w].now = clock
        /\ request'[w].key = request[w].key
    BY <1>0, <2>1, <2>2 DEF Request
  <2>4. registered[TenantOf(w)] # Null =>
          bucket[TenantOf(w)][registered[TenantOf(w)]].refill <= clock
    BY <1>0 DEF Account
  <2> QED
    BY <1>1, <1>2, <2>2, <2>3, <2>4 DEF Timed, TenantOf
<1>5. CASE Lookup(w)
  <2> DEFINE owner == registered[TenantOf(w)]
             at == IF owner = Null THEN "create" ELSE "elapse"
  <2>1. request'[w] = [request[w] EXCEPT !.owner = owner, !.at = at]
    BY <1>0, <1>5 DEF Lookup, Goto
  <2>2. /\ request[w].elapsed = 0 /\ request[w].limit = config[TenantOf(w)].limit
        /\ request[w].now <= clock
        /\ owner # Null => bucket[TenantOf(w)][owner].refill <= request[w].now
    BY <1>0, <1>5 DEF Timed, Lookup, At
  <2>3. /\ request'[w].at = at /\ request'[w].limit = request[w].limit
        /\ request'[w].elapsed = 0 /\ request'[w].now = request[w].now
        /\ request'[w].key = request[w].key /\ request'[w].owner = owner
    BY <1>0, <2>1, <2>2 DEF Request
  <2> QED
    BY <1>1, <2>2, <2>3 DEF Timed, TenantOf
<1>6. CASE Elapse(w)
  <2>1. request'[w] = [request[w] EXCEPT !.elapsed = request[w].now - Bucket(w).refill,
                                         !.at = "refill"]
    BY <1>0, <1>6 DEF Elapse, Goto
  <2>2. /\ request[w].limit = config[TenantOf(w)].limit /\ request[w].now <= clock
        /\ registered[TenantOf(w)] # Null =>
             bucket[TenantOf(w)][registered[TenantOf(w)]].refill <= request[w].now
        /\ registered[TenantOf(w)] = request[w].owner
    BY <1>0, <1>6 DEF Timed, Elapse, At
  <2>3. /\ request'[w].at = "refill" /\ request'[w].limit = request[w].limit
        /\ request'[w].elapsed = request[w].now - Bucket(w).refill
        /\ request'[w].now = request[w].now
        /\ request'[w].key = request[w].key /\ request'[w].owner = request[w].owner
    BY <1>0, <2>1 DEF Request
  <2> QED
    BY <1>1, <2>2, <2>3 DEF Timed, TenantOf, Bucket
<1>7. CASE Refill(w)
  <2> DEFINE tokens == Refilled(request[w].limit, Bucket(w).tokens, request[w].elapsed)
  <2>1. request'[w] = [request[w] EXCEPT !.tokens = tokens, !.at = "spend"]
    BY <1>0, <1>7 DEF Refill, Goto
  <2>2. /\ request[w].limit = config[TenantOf(w)].limit /\ request[w].now <= clock
        /\ registered[TenantOf(w)] # Null =>
             bucket[TenantOf(w)][registered[TenantOf(w)]].refill <= request[w].now
        /\ registered[TenantOf(w)] = request[w].owner
        /\ request[w].elapsed = request[w].now - Bucket(w).refill
    BY <1>0, <1>7 DEF Timed, Refill, At
  <2>3. request[w].owner \in Workers
    BY <1>0, <1>7 DEF Knows, Refill, At
  <2>4. Bucket(w).refill \in Nat /\ Bucket(w).tokens \in Int
    BY <1>0, <2>3 DEF Bucket, GInv, TypeOK
  <2>a. Bucket(w).tokens \in Nat
    <3>1. Bucket(w).tokens >= 0
      BY <1>0, <2>2, <2>3, GateAssumption DEF Account, Bucket
    <3> QED
      BY <2>4, <3>1
  <2>b. request[w].limit \in Nat
    BY <1>0, LimitsAreNumbers DEF Request
  <2>5. request[w].now \in Nat /\ Bucket(w).refill <= request[w].now
    BY <1>0, <2>2, <2>3, GateAssumption DEF Bucket, Request
  <2>6. request[w].elapsed \in Nat
    BY <2>2, <2>4, <2>5
  <2>7. /\ tokens \in Nat /\ tokens <= request[w].limit * TicksPerMinute
        /\ tokens <= Bucket(w).tokens + request[w].limit * (request[w].now - Bucket(w).refill)
    BY <2>2, <2>a, <2>b, <2>6, RefilledBound
  <2> HIDE DEF tokens
  <2>8. /\ request'[w].at = "spend" /\ request'[w].limit = request[w].limit
        /\ request'[w].now = request[w].now /\ request'[w].tokens = tokens
        /\ request'[w].key = request[w].key /\ request'[w].owner = request[w].owner
    BY <1>0, <2>1 DEF Request
  <2>9. Bucket(w)' = Bucket(w) /\ TenantOf(w)' = TenantOf(w)
    BY <1>1, <2>8 DEF Bucket, TenantOf
  <2> QED
    BY <1>1, <2>2, <2>7, <2>8, <2>9 DEF Timed
<1> QED
  BY <1>3, <1>4, <1>5, <1>6, <1>7

\* A request that is idle, or with its handler, holds nothing of a bucket.
LEMMA AwayTimed ==
    ASSUME NEW w \in Workers, request'[w].at \in {"idle", "handle", "write"}
    PROVE  Timed(w)'
BY DEF Timed

\* A request that was refused, or whose handler is done or not yet run.
LEMMA AuthenticateTimed ==
    ASSUME GInv, RInv, NEW w \in Workers, NEW k \in KeyIds,
           NEW kind \in Kinds, NEW target \in Tenants, Authenticate(w, k, kind, target)
    PROVE  Timed(w)'
<1>1. request \in [Workers -> Request]
  BY DEF GInv, TypeOK, Request, Points
<1>2. CASE request' = request
  BY <1>1, <1>2, AwayTimed DEF Authenticate, At
<1>3. CASE Goto(w, "limit", [Free EXCEPT !.key = k, !.handler = Handler(k, kind, target)])
  <2>1. request'[w].at = "limit" /\ request'[w].elapsed = 0
    BY <1>1, <1>3 DEF Goto, Free
  <2> QED
    BY <2>1 DEF Timed
<1> QED
  BY <1>2, <1>3 DEF Authenticate

LEMMA HandleTimed ==
    ASSUME GInv, NEW w \in Workers, Handle(w)
    PROVE  Timed(w)' /\ UNCHANGED <<registered, bucket, checked, clock>>
<1>1. request \in [Workers -> Request]
  BY DEF GInv, TypeOK, Request, Points
<1>2. request'[w].at \in {"idle", "write"}
  <2>1. ASSUME NEW step \in {"idle", "write"}, NEW changed \in Request, Goto(w, step, changed)
        PROVE  request'[w].at = step
    BY <1>1, <2>1 DEF Goto, Request
  <2>2. CASE ReadConfig(w)
    <3>1. request'[w] = [request[w] EXCEPT !.row = config[TenantOf(w)], !.at = "write"]
      BY <1>1, <2>2 DEF ReadConfig, Goto
    <3> QED
      BY <1>1, <3>1 DEF Request
  <2>3. CASE ~ ReadConfig(w)
    BY <2>1, <2>3, FreeRequest DEF Handle, WriteConfig, IssueKey, RefuseRole
  <2> QED
    BY <2>2, <2>3
<1>3. UNCHANGED <<registered, bucket, checked, clock>>
  BY DEF Handle, ReadConfig, WriteConfig, IssueKey, RefuseRole
<1> QED
  BY <1>2, <1>3, AwayTimed

LEMMA CreateBucketStep ==
    ASSUME GInv, RInv, NEW w \in Workers,
           CreateBucket(w)
    PROVE  /\ Timed(w)'
           /\ \A t \in Tenants : Account(t)' /\ Kept(checked[t])'
<1>0. /\ request[w] \in Request /\ request \in [Workers -> Request]
      /\ request[w].key \in KeyIds /\ TenantOf(w) \in Tenants
      /\ Timed(w) /\ Account(TenantOf(w))
  BY Facts DEF CreateBucket, At, RInv, GInv, TypeOK, Request, Points
<1> DEFINE made == [tokens |-> request[w].limit * TicksPerMinute, refill |-> request[w].now]
           mine == TenantOf(w)
<1>1. /\ bucket' = [bucket EXCEPT ![mine][w] = made]
      /\ registered' = [registered EXCEPT ![mine] = w]
      /\ UNCHANGED <<config, checked, clock>>
  BY DEF CreateBucket
<1>2. /\ request[w].elapsed = 0 /\ request[w].limit = config[mine].limit
      /\ request[w].now <= clock /\ registered[mine] = Null
  BY <1>0 DEF Timed, CreateBucket, At
<1>3. made.tokens >= 0
  <2>1. request[w].limit \in Nat
    BY <1>0, LimitsAreNumbers DEF Request
  <2> QED
    BY <2>1, GateAssumption
<1>4. registered'[mine] = w /\ bucket'[mine][w] = made /\ w # Null
  BY <1>0, <1>1, GateAssumption DEF GInv, TypeOK
<1>5. request'[w] = [request[w] EXCEPT !.owner = w, !.at = "refill"]
  BY <1>0 DEF CreateBucket, Goto
<1>6. /\ request'[w].at = "refill" /\ request'[w].limit = request[w].limit
      /\ request'[w].now = request[w].now /\ request'[w].elapsed = 0
      /\ request'[w].key = request[w].key /\ request'[w].owner = w
  BY <1>0, <1>2, <1>5 DEF Request
<1>7. made.refill = request[w].now /\ request[w].now \in Nat
  BY <1>0 DEF Request
<1> HIDE DEF made
<1>8. TenantOf(w)' = mine /\ Bucket(w)' = made
  BY <1>4, <1>6 DEF TenantOf, Bucket
<1>9. Timed(w)'
  <2>1. request'[w].now - made.refill = 0
    BY <1>6, <1>7
  <2> QED
    BY <1>1, <1>2, <1>4, <1>6, <1>7, <1>8, <2>1 DEF Timed
<1>10. ASSUME NEW t \in Tenants PROVE Account(t)' /\ Kept(checked[t])'
  <2>1. Kept(checked[t])'
    BY <1>1 DEF RInv, Kept, Covers, Passed, Paid
  <2>2. CASE t = mine
    <3>1. checked[mine] = <<>>
      BY <1>0, <1>2 DEF Account
    <3>2. \A i \in DOMAIN checked'[mine] : FALSE
      BY <1>1, <3>1
    <3> QED
      BY <1>1, <1>2, <1>3, <1>4, <1>7, <2>1, <2>2, <3>2 DEF Account
  <2>3. CASE t # mine
    <3>1. registered'[t] = registered[t] /\ bucket'[t] = bucket[t]
      BY <1>1, <2>3 DEF GInv, TypeOK
    <3> QED
      BY <1>1, <2>1, <3>1 DEF RInv, Account, Covers, Passed, Paid
  <2> QED
    BY <2>2, <2>3
<1> QED
  BY <1>9, <1>10

\* What is left of a bucket and what was let through since any request, this one
\* included, stays paid for.
LEMMA SpendStep ==
    ASSUME GInv, RInv, NEW w \in Workers, Spend(w)
    PROVE  /\ Timed(w)'
           /\ \A t \in Tenants : Account(t)' /\ Kept(checked[t])'
<1>p. PICK mine \in Tenants : mine = TenantOf(w)
  BY Facts DEF Spend, At
<1> DEFINE x == request[w].tokens
           now == request[w].now
           rate == request[w].limit
           past == checked[mine]
           n == Len(past)
           check == [time |-> now, limit |-> rate, passed |-> ~ (x < TicksPerMinute)]
           left == IF x < TicksPerMinute THEN x ELSE x - TicksPerMinute
           due == Append(past, check)
<1>0. /\ request[w] \in Request /\ request \in [Workers -> Request]
      /\ request[w].owner \in Workers
      /\ Timed(w) /\ Account(mine) /\ Kept(past)
  BY Facts DEF Spend, At, Knows, RInv, GInv, TypeOK, Request, Points
<1>1. TicksPerMinute \in Nat /\ TicksPerMinute > 0 /\ Limits \subseteq Nat
  BY GateAssumption
<1>2. /\ registered[mine] = request[w].owner /\ registered[mine] # Null
      /\ request[w].owner # Null /\ rate = config[mine].limit
  BY <1>p, <1>0, GateAssumption DEF Timed, Spend, At
<1> DEFINE b == bucket[mine][registered[mine]]
<1>3. b.tokens \in Int /\ b.refill \in Nat /\ b = Bucket(w)
  BY <1>p, <1>0, <1>2 DEF GInv, TypeOK, Bucket
<1>4. /\ now \in Nat /\ past \in Seq(Check) /\ clock \in Nat /\ rate \in Limits
      /\ n \in Nat
  BY <1>0, <1>2, GateAssumption DEF GInv, TypeOK, Request, Config
<1>5. /\ now <= clock /\ b.refill <= now
      /\ x \in Nat /\ x <= rate * TicksPerMinute
      /\ x <= b.tokens + rate * (now - b.refill)
  <2>1. x \in Int
    BY <1>0 DEF Request
  <2>2. 0 <= x
    BY <1>0 DEF Timed, Spend, At
  <2> QED
    BY <1>p, <1>0, <1>2, <1>3, <2>1, <2>2 DEF Timed, Spend, At
<1>6. /\ b.tokens >= 0
      /\ \A i \in DOMAIN past :
           /\ past[i].time <= b.refill
           /\ \A limit \in Limits : Covers(limit, past, i, n) =>
                Paid(Cardinality(Passed(past, i, n)), b.tokens, past[i].limit,
                     past[i].time, b.refill, limit)
  BY <1>0, <1>2 DEF Account
<1>7. /\ bucket' = [bucket EXCEPT ![mine][request[w].owner] =
                      [tokens |-> left, refill |-> now]]
      /\ registered' = registered /\ clock' = clock
      /\ checked' = [checked EXCEPT ![mine] = due]
  BY <1>p, <1>2 DEF Spend
<1>8. check \in Check
  BY <1>4 DEF Check
<1>9. /\ check.time = now /\ check.limit = rate
      /\ check.passed <=> ~ (x < TicksPerMinute)
  OBVIOUS
<1> HIDE DEF check, b, x, now, rate, n
<1>10. /\ Len(due) = n + 1 /\ DOMAIN due = 1 .. n + 1 /\ due[n + 1] = check
       /\ DOMAIN past = 1 .. n
       /\ \A i \in 1 .. n : due[i] = past[i] /\ past[i] \in Check
  BY <1>4, <1>8 DEF n
<1>a. \A i \in 1 .. n + 1 : due[i] \in Check
  <2> SUFFICES ASSUME NEW i \in 1 .. n + 1 PROVE due[i] \in Check
    OBVIOUS
  <2>1. i = n + 1 \/ i \in 1 .. n
    BY <1>4
  <2> QED
    BY <1>8, <1>10, <2>1
<1>11. left \in Nat
  BY <1>1, <1>5
<1> HIDE DEF left, due, past
<1>12. /\ bucket'[mine][registered'[mine]] = [tokens |-> left, refill |-> now]
       /\ registered'[mine] # Null
       /\ checked'[mine] = due
  BY <1>0, <1>2, <1>7 DEF GInv, TypeOK
<1>13. ASSUME NEW i \in 1 .. n + 1, NEW limit \in Limits, Covers(limit, due, i, n + 1)
       PROVE  Paid(Cardinality(Passed(due, i, n + 1)), left, due[i].limit, due[i].time,
                   now, limit)
  <2> DEFINE before == Cardinality(Passed(past, i, n))
             after == Cardinality(Passed(due, i, n + 1))
  <2>1. before \in Nat /\ after = IF check.passed THEN before + 1 ELSE before
    BY <1>4, <1>8, PassedMore DEF due, n
  <2>2. limit \in Nat /\ rate \in Nat /\ rate <= limit
    <3>1. n + 1 \in i .. n + 1
      BY <1>4
    <3> QED
      BY <1>1, <1>4, <1>9, <1>10, <1>13, <3>1 DEF Covers
  <2>3. due[i].limit \in Nat /\ due[i].time \in Nat
    BY <1>1, <1>a DEF Check
  <2>4. Paid(before, x, due[i].limit, due[i].time, now, limit)
    <3>1. CASE i = n + 1
      <4>1. Passed(past, i, n) = {}
        BY <1>4, <3>1 DEF Passed
      <4>2. before = 0
        BY <4>1, FS_EmptySet
      <4>3. due[i].limit = rate /\ due[i].time = now
        BY <1>9, <1>10, <3>1
      <4>4. 0 * TicksPerMinute = 0 /\ limit * (now - now) = 0 /\ rate * TicksPerMinute \in Nat
        BY <1>1, <1>4, <2>2
      <4> QED
        BY <1>5, <4>2, <4>3, <4>4 DEF Paid
    <3>2. CASE i # n + 1
      <4>1. i \in 1 .. n
        BY <1>4, <3>2
      <4>2. Covers(limit, past, i, n)
        BY <1>4, <1>10, <1>13, <4>1 DEF Covers
      <4>3. Paid(before, b.tokens, due[i].limit, due[i].time, b.refill, limit)
        BY <1>6, <1>10, <4>1, <4>2
      <4>4. b.tokens \in Nat
        BY <1>3, <1>6
      <4> HIDE DEF before
      <4> QED
        BY <1>3, <1>4, <1>5, <2>1, <2>2, <2>3, <4>3, <4>4, PaidLater
    <3> QED
      BY <3>1, <3>2
  <2>5. CASE x < TicksPerMinute
    BY <1>9, <2>1, <2>4, <2>5 DEF left
  <2>6. CASE ~ (x < TicksPerMinute)
    <3>1. after = before + 1 /\ left = x - TicksPerMinute
      BY <1>9, <2>1, <2>6 DEF left
    <3> HIDE DEF before, after
    <3>2. Paid(before + 1, x - TicksPerMinute, due[i].limit, due[i].time, now, limit)
      <4>1. before \in Nat /\ x \in Int
        BY <1>5, <2>1 DEF before
      <4>2. Paid(before, x, due[i].limit, due[i].time, now, limit)
        BY <2>4 DEF before
      <4> QED
        BY <1>4, <2>2, <2>3, <4>1, <4>2, PaidSpend
    <3>3. Paid(after, left, due[i].limit, due[i].time, now, limit)
      BY <3>1, <3>2
    <3> QED
      BY <3>3 DEF after
  <2> QED
    BY <2>5, <2>6
<1>14. Timed(w)'
  <2>1. request'[w].at \in {"idle", "handle"}
    <3>1. \/ request' = [request EXCEPT ![w] = [request[w] EXCEPT !.at = "handle"]]
          \/ request' = [request EXCEPT ![w] = [Free EXCEPT !.at = "idle"]]
      BY DEF Spend, Goto
    <3> QED
      BY <1>0, <3>1 DEF Request, Free
  <2> QED
    BY <2>1, AwayTimed
<1>15. Kept(due)
  <2> SUFFICES ASSUME NEW j \in 1 .. n + 1, NEW i \in 1 .. j, NEW limit \in Limits,
                      Covers(limit, due, i, j)
               PROVE  Paid(Cardinality(Passed(due, i, j)), 0, due[i].limit, due[i].time,
                           due[j].time, limit)
    BY <1>10 DEF Kept
  <2>1. CASE j = n + 1
    <3>1. i \in 1 .. n + 1
      BY <1>4, <2>1
    <3>2. /\ due[i].limit \in Nat /\ due[i].time \in Nat /\ limit \in Nat
          /\ due[j].time = now
      BY <1>1, <1>9, <1>10, <1>a, <2>1, <3>1 DEF Check
    <3>3. Cardinality(Passed(due, i, j)) \in Nat
      BY <1>4, <3>1, PassedFinite
    <3>4. Paid(Cardinality(Passed(due, i, j)), left, due[i].limit, due[i].time, now, limit)
      BY <1>13, <2>1, <3>1
    <3> QED
      BY <1>4, <1>11, <3>2, <3>3, <3>4, PaidLess
  <2>2. CASE j # n + 1
    <3>1. j \in 1 .. n /\ i \in 1 .. n /\ i .. j \subseteq 1 .. n
      BY <1>4, <2>2
    <3>2. Covers(limit, past, i, j)
      BY <1>10, <3>1 DEF Covers
    <3>3. Passed(due, i, j) = Passed(past, i, j)
      BY <1>10, <3>1 DEF Passed
    <3>4. Paid(Cardinality(Passed(past, i, j)), 0, past[i].limit, past[i].time,
               past[j].time, limit)
      BY <1>0, <1>10, <3>1, <3>2 DEF Kept
    <3> QED
      BY <1>10, <3>1, <3>3, <3>4
  <2> QED
    BY <2>1, <2>2
<1>16. \A i \in DOMAIN due : due[i].time <= now
  <2> SUFFICES ASSUME NEW i \in 1 .. n + 1 PROVE due[i].time <= now
    BY <1>10
  <2>1. CASE i = n + 1
    BY <1>4, <1>9, <1>10, <2>1
  <2>2. CASE i # n + 1
    <3>1. i \in 1 .. n
      BY <1>4, <2>2
    <3>2. due[i].time \in Nat /\ due[i].time <= b.refill
      BY <1>6, <1>10, <3>1 DEF Check
    <3> QED
      BY <1>3, <1>4, <1>5, <3>2
  <2> QED
    BY <2>1, <2>2
<1>17. Account(mine)' /\ Kept(checked[mine])'
  <2>1. Account(mine)'
    BY <1>5, <1>7, <1>10, <1>11, <1>12, <1>13, <1>16 DEF Account, Covers, Passed, Paid
  <2>2. Kept(checked[mine])'
    BY <1>12, <1>15 DEF Kept, Covers, Passed, Paid
  <2> QED
    BY <2>1, <2>2
<1>18. ASSUME NEW t \in Tenants, t # mine PROVE Account(t)' /\ Kept(checked[t])'
  <2>1. registered'[t] = registered[t] /\ bucket'[t] = bucket[t] /\ checked'[t] = checked[t]
    BY <1>0, <1>7, <1>18 DEF GInv, TypeOK
  <2> QED
    BY <1>7, <2>1 DEF RInv, Account, Kept, Covers, Passed, Paid
<1> QED
  BY <1>14, <1>17, <1>18

LEMMA RequestStep ==
    ASSUME OneThread, GInv, RInv, NEW w \in Workers,
           Step(w)
    PROVE  RInv'
<1>1. /\ Timed(w)'
      /\ \A t \in Tenants : Account(t)' /\ Kept(checked[t])'
  <2>1. CASE ReadLimit(w) \/ TakeTime(w) \/ Lookup(w) \/ Elapse(w) \/ Refill(w)
    <3>1. UNCHANGED <<registered, bucket, checked, clock>>
      BY <2>1 DEF ReadLimit, TakeTime, Lookup, Elapse, Refill
    <3> QED
      BY <2>1, <3>1, LocalTimed, AccountsStay
  <2>2. ASSUME NEW k \in KeyIds, NEW kind \in Kinds, NEW target \in Tenants,
               Authenticate(w, k, kind, target)
        PROVE  /\ Timed(w)'
               /\ \A t \in Tenants : Account(t)' /\ Kept(checked[t])'
    <3>1. UNCHANGED <<registered, bucket, checked, clock>>
      BY <2>2 DEF Authenticate
    <3> QED
      BY <2>2, <3>1, AuthenticateTimed, AccountsStay
  <2>3. CASE Handle(w)
    BY <2>3, HandleTimed, AccountsStay
  <2>4. CASE CreateBucket(w)
    BY <2>4, CreateBucketStep
  <2>5. CASE Spend(w)
    BY <2>5, SpendStep
  <2> QED
    BY <2>1, <2>2, <2>3, <2>4, <2>5 DEF Step
<1>2. \A v \in Workers : v = w
  BY DEF OneThread
<1> QED
  BY <1>1, <1>2 DEF RInv

\* Requests stay while the clock advances or a key is revoked.
LEMMA OutsideStep ==
    ASSUME GInv, RInv,
           UNCHANGED <<config, registered, bucket, checked, request>>,
           clock' \in Nat, clock <= clock'
    PROVE  RInv'
<1>1. clock \in Nat
  BY GateAssumption DEF GInv, TypeOK
<1>2. ASSUME NEW w \in Workers PROVE Timed(w)'
  <2>1. Timed(w) /\ request[w].now \in Nat
    BY DEF RInv, GInv, TypeOK
  <2>2. request[w].now <= clock => request[w].now <= clock'
    BY <1>1, <2>1
  <2>3. TenantOf(w)' = TenantOf(w) /\ Bucket(w)' = Bucket(w)
    BY DEF TenantOf, Bucket
  <2> QED
    BY <2>1, <2>2, <2>3 DEF Timed
<1>3. ASSUME NEW t \in Tenants PROVE Account(t)' /\ Kept(checked[t])'
  <2>1. Account(t) /\ Kept(checked[t])
    BY DEF RInv
  <2>2. CASE registered[t] = Null
    BY <2>1, <2>2 DEF Account, Kept, Covers, Passed, Paid
  <2>3. CASE registered[t] # Null
    <3>1. bucket[t][registered[t]].refill \in Nat
      BY <2>3 DEF GInv, TypeOK
    <3>2. bucket[t][registered[t]].refill <= clock'
      BY <1>1, <2>1, <2>3, <3>1 DEF Account
    <3> QED
      BY <2>1, <2>3, <3>2 DEF Account, Kept, Covers, Passed, Paid
  <2> QED
    BY <2>2, <2>3
<1> QED
  BY <1>2, <1>3 DEF RInv

LEMMA NextRate ==
    ASSUME OneThread, GInv, RInv, [Next]_vars
    PROVE  RInv'
<1>1. ASSUME NEW w \in Workers, Step(w) PROVE RInv'
  BY <1>1, RequestStep
<1>2. clock \in Nat
  BY GateAssumption DEF GInv, TypeOK
<1>3. ASSUME NEW k \in KeyIds, RevokeKey(k) PROVE RInv'
  BY <1>2, <1>3, OutsideStep DEF RevokeKey
<1>4. CASE Tick
  BY <1>2, <1>4, OutsideStep DEF Tick
<1>5. CASE UNCHANGED vars
  BY <1>2, <1>5, OutsideStep DEF vars
<1> QED
  BY <1>1, <1>3, <1>4, <1>5 DEF Next

LEMMA InitRate == Init => RInv
<1> SUFFICES ASSUME Init PROVE RInv
  OBVIOUS
<1>1. \A w \in Workers : Timed(w)
  BY DEF Init, Free, Timed
<1>2. \A t \in Tenants : checked[t] = <<>> /\ registered[t] = Null
  BY DEF Init
<1>3. \A t \in Tenants : Account(t) /\ Kept(checked[t])
  BY <1>2 DEF Account, Kept
<1> QED
  BY <1>1, <1>3 DEF RInv

-----------------------------------------------------------------------------
(* Theorem *)

\* With one request at a time, a tenant's requests from any one to any later one get
\* through only as far as a bucket filled at the limit the tenant had at the first
\* and its refill since at the highest limit in between pay for, whatever the limits,
\* their updates and the lengths of time (auth.py, 74-95).
THEOREM OneThreadKeepsRate == ASSUME OneThread PROVE Spec => []RateKept
<1>1. GInv /\ RInv /\ [Next]_vars => RInv'
  BY NextRate
<1>2. GInv /\ RInv => RateKept
  <2> SUFFICES ASSUME GInv, RInv, NEW t \in Tenants, NEW j \in DOMAIN checked[t],
                      NEW i \in 1 .. j, NEW limit \in Limits, Covers(limit, checked[t], i, j)
               PROVE  Cardinality(Passed(checked[t], i, j)) * TicksPerMinute
                        <= checked[t][i].limit * TicksPerMinute
                             + limit * (checked[t][j].time - checked[t][i].time)
    BY DEF RateKept
  <2> DEFINE passed == Cardinality(Passed(checked[t], i, j))
  <2>1. Paid(passed, 0, checked[t][i].limit, checked[t][i].time, checked[t][j].time, limit)
    BY DEF RInv, Kept
  <2>2. j \in Nat /\ i \in Nat
    <3>1. checked[t] \in Seq(Check)
      BY DEF GInv, TypeOK
    <3> QED
      BY <3>1
  <2>3. passed \in Nat
    BY <2>2, PassedFinite
  <2> HIDE DEF passed
  <2>4. passed * TicksPerMinute + 0 = passed * TicksPerMinute
    BY <2>3, GateAssumption
  <2> QED
    BY <2>1, <2>4 DEF Paid, passed
<1> QED
  BY InitRate, <1>1, <1>2, Inductive, PTL DEF Spec
=============================================================================

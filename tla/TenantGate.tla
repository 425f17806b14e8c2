----------------------------- MODULE TenantGate -----------------------------
(***************************************************************************)
(* What every API request passes before its handler, and the handlers that *)
(* change the tenant registry: _authenticate of app/api/main.py with       *)
(* resolve_auth, require_role and RateLimiter.check of app/tenancy/auth.py,*)
(* and the two admin endpoints over app/tenancy/registry.py.               *)
(*                                                                         *)
(* Requests run in threads of one process. Each registry function is one   *)
(* SQLite transaction; the buckets are plain objects without a lock, and a *)
(* thread may be switched out at every call RateLimiter.check makes. An    *)
(* action stands for the code from one such point to the next.             *)
(*                                                                         *)
(* Time is in ticks, TicksPerMinute to a minute; tokens are counted in     *)
(* units of 1/TicksPerMinute, so a limit of n a minute refills n units a   *)
(* tick. The rounding of floating-point tokens is left out.                *)
(***************************************************************************)
EXTENDS Integers, Sequences, FiniteSets

CONSTANTS
    Workers,         \* request threads
    Tenants,
    KeyIds,          \* every key that exists or may be issued
    KeyTenant,
    KeyRole,
    SeededKeys,      \* the keys created by seed_demo_data
    Limits,          \* rate_limit_per_minute
    Settings,        \* the rest of a tenant_configs row
    SeededConfig,    \* each tenant's row at the start
    Updates,         \* bodies of the config endpoint; Null: not given
    TicksPerMinute,
    MaxClock,        \* bound on the clock
    MaxChecked,      \* bound on the requests of a tenant the limiter decides on
    Null

Roles == {"admin", "operator", "reviewer", "viewer"}

Config == [limit : Limits, settings : Settings]

\* When a request was decided on, the tenant's limit then, and the decision.
Check == [time : Nat, limit : Limits, passed : BOOLEAN]

ASSUME GateAssumption ==
    /\ KeyTenant \in [KeyIds -> Tenants]
    /\ KeyRole \in [KeyIds -> Roles]
    /\ SeededKeys \subseteq KeyIds
    /\ Limits \subseteq Nat
    /\ SeededConfig \in [Tenants -> Config]
    /\ Updates \subseteq [limit : Limits \cup {Null}, settings : Settings \cup {Null}]
    /\ TicksPerMinute \in Nat \ {0}
    /\ MaxClock \in Nat
    /\ MaxChecked \in Nat
    /\ Null \notin Limits \cup Settings \cup Workers

VARIABLES
    config,      \* tenant_configs
    keys,        \* api_keys: whether each key is absent, valid or revoked
    clock,       \* time.monotonic()
    registered,  \* RateLimiter._buckets: the thread whose bucket a tenant uses
    bucket,      \* the _Bucket each thread made for each tenant
    request,     \* what each thread is executing
    checked      \* history: the requests of each tenant the limiter decided on

vars == <<config, keys, clock, registered, bucket, request, checked>>

\* The least role-bound permission of each endpoint; "config" and "issue" are
\* the admin endpoints, the others do not touch the registry.
Required == [view |-> "viewer", run |-> "operator", resume |-> "reviewer",
             config |-> "admin", issue |-> "admin"]
Kinds == DOMAIN Required

\* ROLE_HIERARCHY
Satisfying == [viewer   |-> {"viewer", "operator", "reviewer", "admin"},
               operator |-> {"operator", "admin"},
               reviewer |-> {"reviewer", "admin"},
               admin    |-> {"admin"}]

Free == [at |-> "idle", key |-> Null, handler |-> "none", limit |-> 0, now |-> 0,
         owner |-> Null, elapsed |-> 0, tokens |-> 0, row |-> Null]

TypeOK ==
    /\ config \in [Tenants -> Config]
    /\ keys \in [KeyIds -> {"absent", "valid", "revoked"}]
    /\ clock \in 0 .. MaxClock
    /\ registered \in [Tenants -> Workers \cup {Null}]
    /\ bucket \in [Tenants -> [Workers -> [tokens : Int, refill : Nat]]]
    /\ request \in [Workers -> [
           at : {"idle", "limit", "time", "lookup", "create", "elapse", "refill",
                 "spend", "handle", "write"},
           key : KeyIds \cup {Null}, handler : {"config", "issue", "none"},
           limit : Limits \cup {0}, now : Nat, owner : Workers \cup {Null},
           elapsed : Int, tokens : Int, row : Config \cup {Null}]]
    /\ checked \in [Tenants -> Seq(Check)]

Init ==
    /\ config = SeededConfig
    /\ keys = [k \in KeyIds |-> IF k \in SeededKeys THEN "valid" ELSE "absent"]
    /\ clock = 0
    /\ registered = [t \in Tenants |-> Null]
    /\ bucket = [t \in Tenants |-> [w \in Workers |-> [tokens |-> 0, refill |-> 0]]]
    /\ request = [w \in Workers |-> Free]
    /\ checked = [t \in Tenants |-> <<>>]

-----------------------------------------------------------------------------
(* _authenticate *)

At(w, step) == request[w].at = step

\* The tenant of the key a request came with.
TenantOf(w) == KeyTenant[request[w].key]

Goto(w, step, changed) == request' = [request EXCEPT ![w] = [changed EXCEPT !.at = step]]

Bucket(w) == bucket[TenantOf(w)][request[w].owner]

\* Mutant: a revoked key is still accepted.
MayCallRevoked(k, kind) ==
    keys[k] # "absent" /\ KeyRole[k] \in Satisfying[Required[kind]]

MayCall(k, kind) == keys[k] = "valid" /\ KeyRole[k] \in Satisfying[Required[kind]]

\* What is left to do for an admitted request, of the handlers modelled here:
\* an administrator of another tenant than the one in the path gets 403.
Handler(k, kind, target) ==
    IF kind \in {"config", "issue"} /\ target = KeyTenant[k] THEN kind ELSE "none"

\* resolve_auth and require_role: 401 and 403 change nothing.
Authenticate(w, k, kind, target) ==
    /\ At(w, "idle")
    /\ IF MayCall(k, kind)
       THEN /\ Len(checked[KeyTenant[k]]) < MaxChecked
            /\ Goto(w, "limit", [Free EXCEPT !.key = k, !.handler = Handler(k, kind, target)])
       ELSE UNCHANGED request
    /\ UNCHANGED <<config, keys, clock, registered, bucket, checked>>

\* Mutant: a limit of 0 counts as none, which means the default.
ReadLimitOrDefault(w) ==
    /\ At(w, "limit")
    /\ LET limit == config[TenantOf(w)].limit
       IN  Goto(w, "time", [request[w] EXCEPT !.limit = IF limit = 0 THEN 1 ELSE limit])
    /\ UNCHANGED <<config, keys, clock, registered, bucket, checked>>

ReadLimit(w) ==
    /\ At(w, "limit")
    /\ Goto(w, "time", [request[w] EXCEPT !.limit = config[TenantOf(w)].limit])
    /\ UNCHANGED <<config, keys, clock, registered, bucket, checked>>

TakeTime(w) ==
    /\ At(w, "time")
    /\ Goto(w, "lookup", [request[w] EXCEPT !.now = clock])
    /\ UNCHANGED <<config, keys, clock, registered, bucket, checked>>

Lookup(w) ==
    /\ At(w, "lookup")
    /\ LET owner == registered[TenantOf(w)]
       IN  Goto(w, IF owner = Null THEN "create" ELSE "elapse",
                [request[w] EXCEPT !.owner = owner])
    /\ UNCHANGED <<config, keys, clock, registered, bucket, checked>>

\* A full bucket, in place of whichever another thread registered meanwhile.
CreateBucket(w) ==
    /\ At(w, "create")
    /\ bucket' = [bucket EXCEPT ![TenantOf(w)][w] =
                    [tokens |-> request[w].limit * TicksPerMinute,
                     refill |-> request[w].now]]
    /\ registered' = [registered EXCEPT ![TenantOf(w)] = w]
    /\ Goto(w, "refill", [request[w] EXCEPT !.owner = w])
    /\ UNCHANGED <<config, keys, clock, checked>>

Elapse(w) ==
    /\ At(w, "elapse")
    /\ Goto(w, "refill", [request[w] EXCEPT !.elapsed = request[w].now - Bucket(w).refill])
    /\ UNCHANGED <<config, keys, clock, registered, bucket, checked>>

Lesser(x, y) == IF x <= y THEN x ELSE y

\* Mutant: what a bucket holds above a limit that was lowered stays in it.
RefilledKeepingSurplus(limit, tokens, elapsed) ==
    IF tokens > limit * TicksPerMinute THEN tokens
    ELSE Lesser(limit * TicksPerMinute, tokens + elapsed * limit)

Refilled(limit, tokens, elapsed) ==
    Lesser(limit * TicksPerMinute, tokens + elapsed * limit)

Refill(w) ==
    /\ At(w, "refill")
    /\ Goto(w, "spend", [request[w] EXCEPT !.tokens =
                           Refilled(request[w].limit, Bucket(w).tokens, request[w].elapsed)])
    /\ UNCHANGED <<config, keys, clock, registered, bucket, checked>>

\* The refill is stored; 429 below one token, otherwise one is spent.
Spend(w) ==
    LET t == TenantOf(w)
        tokens == request[w].tokens
        refused == tokens < TicksPerMinute
    IN  /\ At(w, "spend")
        /\ bucket' = [bucket EXCEPT ![t][request[w].owner] =
                        [tokens |-> IF refused THEN tokens ELSE tokens - TicksPerMinute,
                         refill |-> request[w].now]]
        /\ checked' = [checked EXCEPT ![t] =
                Append(@, [time |-> request[w].now, limit |-> config[t].limit,
                           passed |-> ~ refused])]
        /\ IF ~ refused /\ request[w].handler # "none"
           THEN Goto(w, "handle", request[w])
           ELSE Goto(w, "idle", Free)
        /\ UNCHANGED <<config, keys, clock, registered>>

-----------------------------------------------------------------------------
(* The admin endpoints *)

\* set_tenant_config reads the row, and then writes all of it.
ReadConfig(w) ==
    /\ At(w, "handle")
    /\ request[w].handler = "config"
    /\ Goto(w, "write", [request[w] EXCEPT !.row = config[TenantOf(w)]])
    /\ UNCHANGED <<config, keys, clock, registered, bucket, checked>>

\* Mutant: a field that is not given is not excluded.
UpdatedWithNull(row, update) == update

Updated(row, update) ==
    [limit    |-> IF update.limit = Null THEN row.limit ELSE update.limit,
     settings |-> IF update.settings = Null THEN row.settings ELSE update.settings]

WriteConfig(w, update) ==
    /\ At(w, "write")
    /\ config' = [config EXCEPT ![TenantOf(w)] = Updated(request[w].row, update)]
    /\ Goto(w, "idle", Free)
    /\ UNCHANGED <<keys, clock, registered, bucket, checked>>

\* create_api_key: any role; the key id is new.
IssueKey(w, k) ==
    /\ At(w, "handle")
    /\ request[w].handler = "issue"
    /\ keys[k] = "absent" /\ KeyTenant[k] = TenantOf(w)
    /\ keys' = [keys EXCEPT ![k] = "valid"]
    /\ Goto(w, "idle", Free)
    /\ UNCHANGED <<config, clock, registered, bucket, checked>>

\* A role that Role does not have: 400.
RefuseRole(w) ==
    /\ At(w, "handle")
    /\ request[w].handler = "issue"
    /\ Goto(w, "idle", Free)
    /\ UNCHANGED <<config, keys, clock, registered, bucket, checked>>

-----------------------------------------------------------------------------

\* revoke_api_key, which an operator calls; no endpoint does.
RevokeKey(k) ==
    /\ keys[k] = "valid"
    /\ keys' = [keys EXCEPT ![k] = "revoked"]
    /\ UNCHANGED <<config, clock, registered, bucket, request, checked>>

Tick ==
    /\ clock < MaxClock
    /\ clock' = clock + 1
    /\ UNCHANGED <<config, keys, registered, bucket, request, checked>>

Handle(w) ==
    \/ ReadConfig(w)
    \/ \E update \in Updates : WriteConfig(w, update)
    \/ \E k \in KeyIds : IssueKey(w, k)
    \/ RefuseRole(w)

Step(w) ==
    \/ \E k \in KeyIds, kind \in Kinds, target \in Tenants : Authenticate(w, k, kind, target)
    \/ ReadLimit(w)
    \/ TakeTime(w)
    \/ Lookup(w)
    \/ CreateBucket(w)
    \/ Elapse(w)
    \/ Refill(w)
    \/ Spend(w)
    \/ Handle(w)

Next ==
    \/ \E w \in Workers : Step(w)
    \/ \E k \in KeyIds : RevokeKey(k)
    \/ Tick

Spec == Init /\ [][Next]_vars

-----------------------------------------------------------------------------
(* Properties *)

\* Those of the i-th to the j-th request of a history that were let through, and
\* whether a limit covers the one each of them was decided at.
Passed(history, i, j) == {k \in i .. j : history[k].passed}
Covers(limit, history, i, j) == \A k \in i .. j : history[k].limit <= limit

\* With one request at a time, a tenant's requests from any one to any later one
\* get through only as far as a bucket filled at the limit the tenant had at the
\* first and its refill since, at the highest limit the tenant had at a request in
\* between, pay for. A limit that is lowered counts from the next request on: what the
\* bucket held above it is lost (auth.py, 74-95). Also the statement of
\* README.md:270-271 that the limiter throttles request volume using the tenant's
\* configured rate_limit_per_minute, which requests that overlap break.
RateKept ==
    \A t \in Tenants : \A j \in DOMAIN checked[t] : \A i \in 1 .. j : \A limit \in Limits :
        Covers(limit, checked[t], i, j) =>
            Cardinality(Passed(checked[t], i, j)) * TicksPerMinute
                <= checked[t][i].limit * TicksPerMinute
                     + limit * (checked[t][j].time - checked[t][i].time)

\* The limit is 0 and no request that read another one is under way.
Locked(t) ==
    /\ config[t].limit = 0
    /\ \A w \in Workers :
          At(w, "idle") \/ At(w, "limit") \/ TenantOf(w) # t
          \/ /\ request[w].limit = 0
             /\ ~ At(w, "handle") /\ ~ At(w, "write")
             /\ At(w, "spend") => request[w].tokens < TicksPerMinute

\* A limit of 0 is final: it also refuses the administrator who would raise it
\* (auth.py, 74-95; main.py, 185-192).
LockedStays == [][\A t \in Tenants : Locked(t) => Locked(t)']_vars

\* No admin key of the tenant is valid.
NoAdmin(t) ==
    \A k \in KeyIds : KeyTenant[k] = t /\ KeyRole[k] = "admin" => keys[k] # "valid"

\* The requests made with one that are under way.
AdminRequests(t) ==
    {w \in Workers :
        ~ At(w, "idle") /\ TenantOf(w) = t /\ KeyRole[request[w].key] = "admin"}

\* Without a valid admin key a tenant's configuration and admin keys change only
\* by requests that were past the lookup of their key when it was revoked, and by
\* each at most once, as it ends: no key of another role, of another tenant or
\* already revoked changes them (auth.py, 43-59; main.py, 185-205).
NoAdminNoChange ==
    [][\A t \in Tenants : NoAdmin(t) =>
          /\ AdminRequests(t)' \subseteq AdminRequests(t)
          /\ \/ NoAdmin(t)' /\ config'[t] = config[t]
             \/ AdminRequests(t)' # AdminRequests(t)]_vars
=============================================================================

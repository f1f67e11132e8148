------------------------------ MODULE Authority ------------------------------
(***************************************************************************)
(* Who may have a showcase order placed, on whose approval, until when and *)
(* how often: credentials and their roles (redline.service.auth), the      *)
(* request dependencies of redline.service.app, approval, expiry, freeze   *)
(* switches and idempotency keys, over one release that is release_ready.  *)
(* The rate limiter only refuses more and is left out.                     *)
(*                                                                         *)
(* Configuration and freeze switches are read from the environment: they   *)
(* change when the service is restarted.  Session cookies carry the role   *)
(* of the login and outlive a restart; tokens are looked up in the         *)
(* configuration at every request.  Everything the request dependencies do *)
(* runs on the event loop, hence in one step; a handler runs in a thread   *)
(* of the pool and each of its accesses to the store is a step.            *)
(*                                                                         *)
(* Handlers that write the row of the release back are in                  *)
(* ReleaseLifecycle, durable jobs in ReleaseJobs.                          *)
(***************************************************************************)
EXTENDS Naturals, Sequences, FiniteSets, OrderRequests

CONSTANTS
    People,        \* principals
    TokenHolders,  \* those who send a service token; the others log in
    Legacy,        \* the principal of the default service token
    Creator,       \* created_by of the release
    Keys,          \* values of the header Idempotency-Key
    Configs,       \* environments the service may be started in
    SessionTTL,    \* seconds a session cookie lives
    ApprovalTTL,   \* REDLINE_APPROVAL_TTL_SECONDS
    MaxTime,       \* bound: the clock stops there
    MaxApprovals,  \* bound on approvals granted
    MaxRestarts    \* bound on restarts

Roles == {"author", "reviewer", "release_manager", "admin"}

\* _default_scopes_for_role.
Scopes(role) ==
    {"read-only", "release-write"}
        \cup (IF role \in {"release_manager", "admin"} THEN {"execute-demo"} ELSE {})
        \cup (IF role = "admin" THEN {"admin"} ELSE {})

APPROVAL_ROLES == {"reviewer", "release_manager"}

\* Some token is configured; the default one belongs to an administrator.
TokensParse(role) ==
    /\ \E p \in TokenHolders : role[p] # None
    /\ role[Legacy] \in {None, "admin"}

\* role: tokens and REDLINE_AUTH_USERS; allowed: logins let in as reviewers;
\* dev: dev login is enabled, never in production.
ServiceConfig ==
    {c \in [role : [People -> Roles \cup {None}],
            allowed : SUBSET People,
            production : BOOLEAN,
            dev : BOOLEAN,
            release_freeze : BOOLEAN,
            execution_freeze : BOOLEAN] :
        TokensParse(c.role) /\ ~(c.production /\ c.dev)}

ASSUME AuthorityAssumption ==
    /\ TokenHolders \subseteq People
    /\ Legacy \in TokenHolders
    /\ Creator \in People
    /\ Configs \subseteq ServiceConfig
    /\ ApprovalTTL \in Nat \ {0}
    /\ {SessionTTL, MaxTime, MaxApprovals, MaxRestarts} \subseteq Nat

ASSUME NoneAssumption ==
    /\ None \notin Nat \cup Keys
    /\ None \notin [nonce: Nat, by: People, expires: Nat, consumed: BOOLEAN]

VARIABLES
    now,       \* the clock
    reigns,    \* history: the configurations in force and their first second
    session,   \* session[p]: the cookie p holds, or None
    approval,  \* the showcase approval in the row's metadata, or None
    nonces,    \* nonces given to approvals so far
    op,        \* op[t]: what thread t is doing
    recorded,  \* recorded[k]: answer in the idempotency record of k, or None
    orders,    \* history: nonce and key of the orders the exchange accepted
    torn       \* history: keys two requests had at once, or whose request was
               \* cut off by a restart, a failure or a lost answer

vars == <<now, reigns, session, approval, nonces, op,
          recorded, orders, torn>>

\* What a showcase request is answered: the nonce its order was placed under,
\* or this, whatever the reason.
Refused == 0

Idle == [pc |-> "idle", key |-> None, seen |-> None, answer |-> None]

Init ==
    /\ now = 0
    /\ \E c \in Configs : reigns = <<[config |-> c, at |-> 0]>>
    /\ session = [p \in People \ TokenHolders |-> None]
    /\ approval = None
    /\ nonces = 0
    /\ op = [t \in Threads |-> Idle]
    /\ recorded = [k \in Keys |-> None]
    /\ orders = <<>>
    /\ torn = {}

config == reigns[Len(reigns)].config

Tick ==
    /\ now < MaxTime
    /\ now' = now + 1
    /\ UNCHANGED <<reigns, session, approval, nonces, op, recorded, orders, torn>>

-----------------------------------------------------------------------------
(* Credentials.                                                            *)

\* Dev login: the user of REDLINE_AUTH_USERS, or a release manager.
DevRole(c, p) == IF c.role[p] # None THEN c.role[p] ELSE "release_manager"

\* GitHub login: the user of REDLINE_AUTH_USERS, or a reviewer if allowed.
GithubRole(c, p) ==
    IF c.role[p] # None THEN c.role[p]
    ELSE IF p \in c.allowed THEN "reviewer"
    ELSE None

SessionCookie(role) == [role |-> role, exp |-> now + SessionTTL]

DevLogin(p) ==
    /\ p \notin TokenHolders \cup config.allowed
    /\ config.dev
    /\ session' = [session EXCEPT ![p] = SessionCookie(DevRole(config, p))]
    /\ UNCHANGED <<now, reigns, approval, nonces, op, recorded, orders, torn>>

GithubLogin(p) ==
    /\ p \notin TokenHolders
    /\ GithubRole(config, p) # None
    /\ session' = [session EXCEPT ![p] = SessionCookie(GithubRole(config, p))]
    /\ UNCHANGED <<now, reigns, approval, nonces, op, recorded, orders, torn>>

Logout(p) ==
    /\ p \notin TokenHolders
    /\ session[p] # None
    /\ session' = [session EXCEPT ![p] = None]
    /\ UNCHANGED <<now, reigns, approval, nonces, op, recorded, orders, torn>>

\* Mutant: the expiry of the cookie is not looked at.
CookieRoleForever(p) == IF session[p] # None THEN session[p].role ELSE None

\* The role the cookie of p carries, while it lasts.
CookieRole(p) ==
    IF session[p] # None /\ session[p].exp >= now THEN session[p].role ELSE None

TokenRole(p) == config.role[p]

\* The role with which a request of p is served now.
Role(p) == IF p \in TokenHolders THEN TokenRole(p) ELSE CookieRole(p)

HasScope(role, scope) == {"admin", scope} \cap Scopes(role) # {}

\* _require_token and _require_scope let the request of p pass.
MayAsk(p, scope) == Role(p) # None /\ HasScope(Role(p), scope)

-----------------------------------------------------------------------------
(* approve_release_endpoint on a release that is ready.                    *)

\* The default service token, exempt from roles and from four eyes.
IsLegacy(p) == p = Legacy /\ Role(p) = "admin"

\* Mutant: as SERVICE_API and PRODUCTION_RELEASE_BACKEND have it, demo_mode
\* lets the creator approve.
MayApproveOwn(p, demo_mode) ==
    /\ ~config.release_freeze
    /\ Role(p) \in APPROVAL_ROLES \/ IsLegacy(p)
    /\ p # Creator \/ IsLegacy(p) \/ demo_mode

\* The demo_mode of the request is kept with the approval and decides nothing:
\* the creator is refused with it as without it.
MayApprove(p, demo_mode) ==
    /\ ~config.release_freeze
    /\ Role(p) \in APPROVAL_ROLES \/ IsLegacy(p)
    /\ p # Creator \/ IsLegacy(p)

\* _approval_expires_at.
ExpiresAt == now + ApprovalTTL

Approve(p) ==
    /\ nonces < MaxApprovals
    /\ MayAsk(p, "release-write")
    /\ \E demo_mode \in BOOLEAN : MayApprove(p, demo_mode)
    /\ nonces' = nonces + 1
    /\ approval' = [nonce |-> nonces', by |-> p,
                    expires |-> ExpiresAt, consumed |-> FALSE]
    /\ UNCHANGED <<now, reigns, session, op, recorded, orders, torn>>

-----------------------------------------------------------------------------
(* create_release_demo_showcase_order_endpoint.                            *)

\* The row of the release is read; the key has not been looked up yet.
Receive(t, p, k) ==
    /\ op[t].pc = "idle"
    /\ MayAsk(p, "execute-demo")
    /\ op' = [op EXCEPT ![t] = [Idle EXCEPT !.pc = "lookup", !.key = k,
                                            !.seen = approval]]
    /\ torn' = IF \E u \in Threads : op[u].pc # "idle" /\ op[u].key = k
               THEN torn \cup ({k} \ {None})
               ELSE torn
    /\ UNCHANGED <<now, reigns, session, approval, nonces, recorded, orders>>

Expired(seen) == seen.expires <= now

\* The approval the handler has seen does not authorise an order: it is
\* consumed, or has expired.  Without a showcase approval the one of the
\* release stands, consumed by the canonical order.
ApprovalBlocks(seen) ==
    seen = None \/ seen.consumed \/ Expired(seen)

Replayed(k) == k # None /\ recorded[k] # None

\* Thread t has its answer and goes on to record it.
Answer(t, a) ==
    op' = [op EXCEPT ![t] = [Idle EXCEPT !.pc = "record", !.key = op[t].key,
                                         !.answer = a]]

\* Mutant: an answer that was recorded is not looked up.
LookupNothing(t) ==
    /\ op[t].pc = "lookup"
    /\ IF config.execution_freeze \/ ApprovalBlocks(op[t].seen)
       THEN Answer(t, Refused)
       ELSE op' = [op EXCEPT ![t].pc = "consume"]
    /\ UNCHANGED <<now, reigns, session, approval, nonces, recorded, orders,
                   torn>>

\* A known key is answered from its record; otherwise the freeze switch, then
\* the approval of the row as it was read.
Lookup(t) ==
    /\ op[t].pc = "lookup"
    /\ IF Replayed(op[t].key) THEN op' = [op EXCEPT ![t] = Idle]
       ELSE IF config.execution_freeze \/ ApprovalBlocks(op[t].seen)
            THEN Answer(t, Refused)
       ELSE op' = [op EXCEPT ![t].pc = "consume"]
    /\ UNCHANGED <<now, reigns, session, approval, nonces, recorded, orders,
                   torn>>

\* store.consume_release_showcase_approval: compare and swap on the nonce.
Consume(t) ==
    /\ op[t].pc = "consume"
    /\ IF approval.nonce = op[t].seen.nonce /\ ~approval.consumed
       THEN /\ approval' = [approval EXCEPT !.consumed = TRUE]
            /\ op' = [op EXCEPT ![t].pc = "order"]
       ELSE /\ Answer(t, Refused)
            /\ UNCHANGED approval
    /\ UNCHANGED <<now, reigns, session, nonces, recorded, orders, torn>>

Placed(t) ==
    orders' = Append(orders, [nonce |-> op[t].seen.nonce, key |-> op[t].key])

Torn(k) == torn' = torn \cup ({k} \ {None})

\* The exchange accepts; policy, evidence or the exchange refuse; the exchange
\* accepts and its answer is lost; or the handler fails, before or after that.
Order(t) ==
    /\ op[t].pc = "order"
    /\ \/ Placed(t) /\ Answer(t, op[t].seen.nonce) /\ UNCHANGED torn
       \/ Answer(t, Refused) /\ UNCHANGED <<orders, torn>>
       \/ Placed(t) /\ Answer(t, Refused) /\ Torn(op[t].key)
       \/ /\ op' = [op EXCEPT ![t] = Idle]
          /\ \/ UNCHANGED <<orders, torn>>
             \/ Placed(t) /\ Torn(op[t].key)
    /\ UNCHANGED <<now, reigns, session, approval, nonces, recorded>>

\* put_idempotency_record: INSERT OR IGNORE, the first answer stays.
PutRecord(k, a) ==
    recorded' = [recorded EXCEPT ![k] = IF @ = None THEN a ELSE @]

\* A request without a key leaves no record.
Record(t) ==
    /\ op[t].pc = "record"
    /\ IF op[t].key = None THEN UNCHANGED recorded
       ELSE PutRecord(op[t].key, op[t].answer)
    /\ op' = [op EXCEPT ![t] = Idle]
    /\ UNCHANGED <<now, reigns, session, approval, nonces, orders, torn>>

-----------------------------------------------------------------------------
\* The process ends, its requests with it, and another one starts, perhaps in
\* another environment.
Restart ==
    /\ Len(reigns) <= MaxRestarts
    /\ \E c \in Configs : reigns' = Append(reigns, [config |-> c, at |-> now])
    /\ torn' = torn \cup ({op[t].key : t \in Threads} \ {None})
    /\ op' = [t \in Threads |-> Idle]
    /\ UNCHANGED <<now, session, approval, nonces, recorded, orders>>

Next ==
    \/ Tick
    \/ Restart
    \/ \E p \in People :
         DevLogin(p) \/ GithubLogin(p) \/ Logout(p) \/ Approve(p)
    \/ \E t \in Threads :
         \/ \E p \in People, k \in Keys \cup {None} : Receive(t, p, k)
         \/ Lookup(t)
         \/ Consume(t)
         \/ Order(t)
         \/ Record(t)

Spec == Init /\ [][Next]_vars

-----------------------------------------------------------------------------
(* Properties.                                                             *)

\* The roles p has under configuration c, by whatever way it is let in.  A
\* principal that is not in the users list belongs to one way of logging in.
RolesUnder(c, p) ==
    IF p \in TokenHolders THEN {c.role[p]}
    ELSE {GithubRole(c, p)}
             \cup (IF c.dev /\ p \notin c.allowed THEN {DevRole(c, p)} ELSE {})

\* Last second of the i-th reign.
EndOf(i) == IF i < Len(reigns) THEN reigns[i + 1].at ELSE now

\* Some configuration gives p this role now; for somebody who logs in, did so
\* at most SessionTTL ago.
HeldLately(p, role) ==
    \E i \in DOMAIN reigns :
        /\ EndOf(i) + (IF p \in TokenHolders THEN 0 ELSE SessionTTL) >= now
        /\ role \in RolesUnder(reigns[i].config, p)

\* Cookies carry the role of the login and survive a restart in another
\* environment: whoever is taken out of the configuration, or given another
\* role there, loses the old one within SessionTTL, at once with a token.
RolesAreRecent ==
    \A p \in People : Role(p) # None => HeldLately(p, Role(p))

\* Every order spends an approval of its own, whatever the number of requests
\* that read it before it was spent and of restarts in between; it was granted
\* by another reviewer than the creator (the default token excepted), whatever
\* demo_mode says, where two documents let it exempt him; and no order goes
\* out of a frozen service.
OrdersAreAuthorised ==
    /\ \A i, j \in DOMAIN orders : orders[i].nonce = orders[j].nonce => i = j
    /\ \A t \in Threads : op[t].pc = "order" =>
         /\ op[t].seen.by \in (People \ {Creator}) \cup {Legacy}
         /\ op[t].seen.nonce \notin {orders[i].nonce : i \in DOMAIN orders}
         /\ ~config.execution_freeze

\* SERVICE_API: "same key plus same body returns the same showcase order".
\* The record of a key names the order placed under it, and a refusal means
\* that none was placed, provided no two requests with the key overlapped and
\* none was cut off between the order and the record.
KeysTellTheirOrder ==
    \A k \in Keys \ torn : recorded[k] # None =>
        {orders[i].nonce : i \in {j \in DOMAIN orders : orders[j].key = k}} =
            {recorded[k]} \ {Refused}
=============================================================================

---------------------------- MODULE OrderProofs ----------------------------
(***************************************************************************)
(* Every order the service places is one somebody may ask for, once.       *)
(*                                                                         *)
(* The first part is about the showcase orders of a release: for any       *)
(* people, keys, threads and any number of restarts, each goes back to a   *)
(* live, unspent approval (Authority).  The second is about the demo order *)
(* of a run: for any threads, intents, approvals and retries there is at   *)
(* most one, and evidence and answers are backed by it (DemoExecution).    *)
(***************************************************************************)
EXTENDS Authority, DemoExecution, TLAPS

Reigns == [config: Configs, at: Nat]
Placings == [nonce: Nat, key: Keys \cup {None}]
Grants == [nonce: Nat, by: People, expires: Nat, consumed: BOOLEAN]
Ops == [pc: {"idle", "lookup", "consume", "order", "record"},
        key: Keys \cup {None}, seen: Grants \cup {None},
        answer: Nat \cup {None}]

Types ==
    /\ now \in Nat /\ nonces \in Nat
    /\ reigns \in Seq(Reigns) /\ Len(reigns) >= 1
    /\ session \in [People \ TokenHolders ->
                      [role: Roles, exp: Nat] \cup {None}]
    /\ approval \in Grants \cup {None}
    /\ op \in [Threads -> Ops]
    /\ recorded \in [Keys -> Nat \cup {None}]
    /\ orders \in Seq(Placings)
    /\ torn \subseteq Keys

\* A grant is one of those given so far, by somebody who may.
Granted(g, n) ==
    g.nonce \in 1 .. n /\ g.by \in (People \ {Creator}) \cup {Legacy}

GrantInv ==
    /\ approval # None => Granted(approval, nonces) /\ approval.nonce = nonces
    /\ \A t \in Threads :
         /\ op[t].seen # None => approval # None /\ Granted(op[t].seen, nonces)
         /\ op[t].pc \in {"consume", "order"} =>
              op[t].seen # None /\ ~config.execution_freeze
    /\ \A i \in DOMAIN orders : orders[i].nonce <= nonces

\* An order is on its way, or placed, on a grant that is consumed or was
\* replaced; one grant is never in two hands.
SpentOnce ==
    /\ \A i, j \in DOMAIN orders : orders[i].nonce = orders[j].nonce => i = j
    /\ \A t \in Threads : op[t].pc = "order" =>
         /\ \A i \in DOMAIN orders : orders[i].nonce # op[t].seen.nonce
         /\ op[t].seen.nonce = approval.nonce => approval.consumed
    /\ \A t, u \in Threads :
         op[t].pc = "order" /\ op[u].pc = "order"
         /\ op[t].seen.nonce = op[u].seen.nonce => t = u
    /\ approval # None =>
         \A i \in DOMAIN orders :
            orders[i].nonce = approval.nonce => approval.consumed

CookiesInv ==
    \A p \in People \ TokenHolders : session[p] # None =>
        \E i \in DOMAIN reigns :
           /\ session[p].role \in RolesUnder(reigns[i].config, p)
           /\ session[p].exp <= EndOf(i) + SessionTTL

OrdersOf(k) ==
    {orders[i].nonce : i \in {j \in DOMAIN orders : orders[j].key = k}}

Busy(t, k) == op[t].pc # "idle" /\ op[t].key = k

\* What is on record, or about to be, names the order placed under a key.
KeyHolds(k) ==
    /\ \A t, u \in Threads : Busy(t, k) /\ Busy(u, k) => t = u
    /\ \A t \in Threads : Busy(t, k) /\ op[t].pc # "lookup" => recorded[k] = None
    /\ \A t \in Threads : Busy(t, k) /\ op[t].pc = "record" =>
                            OrdersOf(k) = {op[t].answer} \ {Refused}
    /\ recorded[k] = None
       /\ (\A t \in Threads : Busy(t, k) => op[t].pc # "record")
         => OrdersOf(k) = {}
    /\ recorded[k] # None => OrdersOf(k) = {recorded[k]} \ {Refused}

KeyInv ==
    /\ \A t \in Threads : op[t].pc = "record" => op[t].answer \in Nat
    /\ \A k \in Keys \ torn : KeyHolds(k)

LEMMA Appended ==
    ASSUME NEW S, NEW s \in Seq(S), NEW e \in S, NEW r, r = Append(s, e)
    PROVE  /\ r \in Seq(S) /\ Len(r) = Len(s) + 1 /\ Len(r) >= 1
           /\ Len(r) \in DOMAIN r /\ r[Len(r)] = e
           /\ \A i \in DOMAIN s : i \in DOMAIN r /\ r[i] = s[i] /\ i # Len(r)
           /\ \A i \in DOMAIN r : i \in DOMAIN s \/ i = Len(r)
OBVIOUS

\* What a step of thread t does to op.
LEMMA OpSet ==
    ASSUME Types, NEW t \in Threads, NEW o \in Ops,
           op' = [op EXCEPT ![t] = o]
    PROVE  /\ op' \in [Threads -> Ops] /\ op'[t] = o
           /\ \A u \in Threads : u # t => op'[u] = op[u]
BY DEF Types

LEMMA IdleIsOp ==
    /\ Idle \in Ops /\ Idle.pc = "idle" /\ Idle.key = None /\ Idle.seen = None
BY DEF Idle, Ops

LEMMA ReceivedOp ==
    ASSUME Types, NEW t \in Threads, NEW k \in Keys \cup {None},
           op' = [op EXCEPT ![t] = [Idle EXCEPT !.pc = "lookup", !.key = k,
                                                !.seen = approval]]
    PROVE  /\ op' \in [Threads -> Ops]
           /\ op'[t].pc = "lookup" /\ op'[t].key = k /\ op'[t].seen = approval
           /\ \A u \in Threads : u # t => op'[u] = op[u]
<1> DEFINE o == [Idle EXCEPT !.pc = "lookup", !.key = k, !.seen = approval]
<1>1. Idle \in Ops
  BY IdleIsOp
<1>2. approval \in Grants \cup {None}
  BY DEF Types
<1>3. o \in Ops /\ o.pc = "lookup" /\ o.key = k /\ o.seen = approval
  BY <1>1, <1>2 DEF Ops
<1>4. op' = [op EXCEPT ![t] = o]
  OBVIOUS
<1> HIDE DEF o
<1> QED
  BY <1>3, <1>4, OpSet

LEMMA AnsweredOp ==
    ASSUME Types, NEW t \in Threads, NEW a \in Nat, Answer(t, a)
    PROVE  /\ op' \in [Threads -> Ops]
           /\ op'[t].pc = "record" /\ op'[t].key = op[t].key
           /\ op'[t].seen = None /\ op'[t].answer = a
           /\ \A u \in Threads : u # t => op'[u] = op[u]
<1> DEFINE o == [Idle EXCEPT !.pc = "record", !.key = op[t].key, !.answer = a]
<1>1. Idle \in Ops /\ Idle.seen = None
  BY IdleIsOp
<1>2. op[t].key \in Keys \cup {None}
  BY DEF Types, Ops
<1>3. /\ o \in Ops /\ o.pc = "record" /\ o.key = op[t].key /\ o.seen = None
      /\ o.answer = a
  BY <1>1, <1>2 DEF Ops
<1>4. op' = [op EXCEPT ![t] = o]
  BY DEF Answer
<1> HIDE DEF o
<1> QED
  BY <1>3, <1>4, OpSet

LEMMA AdvancedOp ==
    ASSUME Types, NEW t \in Threads, NEW s \in {"consume", "order"},
           op' = [op EXCEPT ![t].pc = s]
    PROVE  /\ op' \in [Threads -> Ops]
           /\ op'[t].pc = s /\ op'[t].key = op[t].key
           /\ op'[t].seen = op[t].seen
           /\ \A u \in Threads : u # t => op'[u] = op[u]
<1> DEFINE o == [op[t] EXCEPT !.pc = s]
<1>1. op[t] \in Ops
  BY DEF Types
<1>2. o \in Ops /\ o.pc = s /\ o.key = op[t].key /\ o.seen = op[t].seen
  BY <1>1 DEF Ops
<1>3. op' = [op EXCEPT ![t] = o]
  OBVIOUS
<1> HIDE DEF o
<1> QED
  BY <1>2, <1>3, OpSet

LEMMA IdledOp ==
    ASSUME Types, NEW t \in Threads, op' = [op EXCEPT ![t] = Idle]
    PROVE  /\ op' \in [Threads -> Ops]
           /\ op'[t].pc = "idle" /\ op'[t].key = None /\ op'[t].seen = None
           /\ \A u \in Threads : u # t => op'[u] = op[u]
<1>1. op'[t] = Idle /\ op' \in [Threads -> Ops]
      /\ \A u \in Threads : u # t => op'[u] = op[u]
  BY IdleIsOp, OpSet
<1> QED
  BY <1>1, IdleIsOp

\* What an order adds to the history.
LEMMA PlacedOrder ==
    ASSUME Types, NEW t \in Threads, op[t].seen \in Grants, Placed(t)
    PROVE  /\ orders' \in Seq(Placings)
           /\ Len(orders') \in DOMAIN orders'
           /\ orders'[Len(orders')].nonce = op[t].seen.nonce
           /\ orders'[Len(orders')].key = op[t].key
           /\ \A i \in DOMAIN orders : /\ i \in DOMAIN orders' /\ i # Len(orders')
                                       /\ orders'[i] = orders[i]
           /\ \A i \in DOMAIN orders' : i \in DOMAIN orders \/ i = Len(orders')
<1> DEFINE e == [nonce |-> op[t].seen.nonce, key |-> op[t].key]
<1>1. op[t].seen.nonce \in Nat /\ op[t].key \in Keys \cup {None}
  BY DEF Types, Ops, Grants
<1>2. e \in Placings /\ e.nonce = op[t].seen.nonce /\ e.key = op[t].key
  BY <1>1 DEF Placings
<1>3. orders \in Seq(Placings) /\ orders' = Append(orders, e)
  BY DEF Types, Placed
<1> HIDE DEF e
<1>4. /\ orders' \in Seq(Placings)
      /\ Len(orders') \in DOMAIN orders' /\ orders'[Len(orders')] = e
      /\ \A i \in DOMAIN orders : /\ i \in DOMAIN orders' /\ i # Len(orders')
                                  /\ orders'[i] = orders[i]
      /\ \A i \in DOMAIN orders' : i \in DOMAIN orders \/ i = Len(orders')
  BY <1>2, <1>3, Appended
<1> QED
  BY <1>2, <1>4

LEMMA ConfigTyped ==
    ASSUME Types, AuthorityAssumption
    PROVE  /\ Len(reigns) \in DOMAIN reigns /\ config \in ServiceConfig
           /\ \A i \in DOMAIN reigns : /\ reigns[i].config \in ServiceConfig
                                       /\ reigns[i].at \in Nat
<1>1. reigns \in Seq(Reigns) /\ Len(reigns) >= 1
  BY DEF Types
<1>2. Len(reigns) \in DOMAIN reigns
  BY <1>1
<1>3. \A i \in DOMAIN reigns : reigns[i] \in Reigns
  BY <1>1
<1>4. Configs \subseteq ServiceConfig
  BY DEF AuthorityAssumption
<1>5. \A i \in DOMAIN reigns : /\ reigns[i].config \in ServiceConfig
                               /\ reigns[i].at \in Nat
  BY <1>3, <1>4 DEF Reigns
<1> QED
  BY <1>2, <1>5 DEF config

LEMMA NoGrant ==
    ASSUME NoneAssumption PROVE None \notin Grants /\ None \notin Nat
BY DEF NoneAssumption, Grants

LEMMA TypesInit ==
    ASSUME AuthorityAssumption, Init PROVE Types
<1>1. PICK c \in Configs : reigns = <<[config |-> c, at |-> 0]>>
  BY DEF Init
<1>2. [config |-> c, at |-> 0] \in Reigns
  BY DEF Reigns
<1>3. reigns \in Seq(Reigns) /\ Len(reigns) >= 1
  BY <1>1, <1>2
<1>4. op \in [Threads -> Ops]
  BY IdleIsOp DEF Init
<1>5. orders \in Seq(Placings)
  BY DEF Init
<1>6. /\ session \in [People \ TokenHolders
                        -> [role: Roles, exp: Nat] \cup {None}]
      /\ recorded \in [Keys -> Nat \cup {None}]
      /\ now \in Nat /\ nonces \in Nat /\ approval \in Grants \cup {None}
      /\ torn \subseteq Keys
  BY DEF Init
<1> QED
  BY <1>3, <1>4, <1>5, <1>6 DEF Types

\* The grant that Approve makes.
LEMMA ApproveGrants ==
    ASSUME Types, AuthorityAssumption, NEW p \in People, Approve(p)
    PROVE  /\ approval' \in Grants /\ approval'.nonce = nonces'
           /\ nonces' = nonces + 1 /\ nonces' \in Nat
           /\ approval'.by \in (People \ {Creator}) \cup {Legacy}
<1> DEFINE g == [nonce |-> nonces', by |-> p, expires |-> ExpiresAt,
                 consumed |-> FALSE]
<1>1. nonces' = nonces + 1 /\ nonces' \in Nat
  BY DEF Approve, Types
<1>2. ExpiresAt \in Nat
  BY DEF ExpiresAt, Types, AuthorityAssumption
<1>3. g \in Grants /\ g.nonce = nonces' /\ g.by = p
  BY <1>1, <1>2 DEF Grants
<1>4. approval' = g
  BY DEF Approve
<1> HIDE DEF g
<1>5. p \in (People \ {Creator}) \cup {Legacy}
  BY DEF Approve, MayApprove, IsLegacy
<1> QED
  BY <1>1, <1>3, <1>4, <1>5

\* The grant that Consume spends.
LEMMA ConsumeSpends ==
    ASSUME approval \in Grants, approval' = [approval EXCEPT !.consumed = TRUE]
    PROVE  /\ approval' \in Grants /\ approval'.nonce = approval.nonce
           /\ approval'.by = approval.by /\ approval'.consumed
BY DEF Grants

\* A cookie carries a role the configuration in force gives.
LEMMA CookieGiven ==
    ASSUME Types, AuthorityAssumption, NEW p \in People,
           DevLogin(p) \/ GithubLogin(p)
    PROVE  /\ p \in People \ TokenHolders
           /\ \E s \in [role: Roles, exp: Nat] :
                /\ session' = [session EXCEPT ![p] = s]
                /\ s.role \in RolesUnder(config, p)
                /\ s.exp = now + SessionTTL
<1>1. config \in ServiceConfig
  BY ConfigTyped
<1>2. config.role[p] \in Roles \cup {None}
  BY <1>1 DEF ServiceConfig
<1>3. now + SessionTTL \in Nat
  BY DEF Types, AuthorityAssumption
<1>4. ASSUME NEW r \in Roles, session' = [session EXCEPT ![p] = SessionCookie(r)],
             r \in RolesUnder(config, p)
      PROVE  \E s \in [role: Roles, exp: Nat] :
                /\ session' = [session EXCEPT ![p] = s]
                /\ s.role \in RolesUnder(config, p)
                /\ s.exp = now + SessionTTL
  <2>1. /\ SessionCookie(r) \in [role: Roles, exp: Nat]
        /\ SessionCookie(r).role = r /\ SessionCookie(r).exp = now + SessionTTL
    BY <1>3 DEF SessionCookie
  <2> QED
    BY <1>4, <2>1
<1>5. CASE DevLogin(p)
  <2>1. DevRole(config, p) \in Roles
    BY <1>2 DEF DevRole, Roles
  <2>2. /\ p \notin TokenHolders
        /\ DevRole(config, p) \in RolesUnder(config, p)
    BY <1>5 DEF DevLogin, RolesUnder
  <2>3. session' = [session EXCEPT ![p] = SessionCookie(DevRole(config, p))]
    BY <1>5 DEF DevLogin
  <2> QED
    BY <1>4, <2>1, <2>2, <2>3
<1>6. CASE GithubLogin(p)
  <2>1. GithubRole(config, p) \in Roles
    BY <1>2, <1>6 DEF GithubLogin, GithubRole, Roles
  <2>2. /\ p \notin TokenHolders
        /\ GithubRole(config, p) \in RolesUnder(config, p)
    BY <1>6 DEF GithubLogin, RolesUnder
  <2>3. session' = [session EXCEPT ![p] = SessionCookie(GithubRole(config, p))]
    BY <1>6 DEF GithubLogin
  <2> QED
    BY <1>4, <2>1, <2>2, <2>3
<1> QED
  BY <1>5, <1>6

SpendInv == Types /\ GrantInv /\ SpentOnce

\* A step of thread t in which every grant in hands was given.
LEMMA GrantKept ==
    ASSUME GrantInv, NEW t \in Threads, UNCHANGED <<reigns, nonces>>,
           approval # None => approval' # None,
           approval' # None => /\ Granted(approval', nonces)
                               /\ approval'.nonce = nonces,
           \A u \in Threads : u # t => op'[u] = op[u],
           op'[t].seen # None => approval' # None /\ Granted(op'[t].seen, nonces),
           op'[t].pc \in {"consume", "order"} =>
             op'[t].seen # None /\ ~config.execution_freeze,
           \A i \in DOMAIN orders' : orders'[i].nonce <= nonces
    PROVE  GrantInv'
<1>1. config' = config /\ nonces' = nonces
  BY DEF config
<1>2. ASSUME NEW u \in Threads
      PROVE  /\ op'[u].seen # None =>
                  approval' # None /\ Granted(op'[u].seen, nonces)
             /\ op'[u].pc \in {"consume", "order"} =>
                  op'[u].seen # None /\ ~config'.execution_freeze
  <2>1. CASE u = t
    BY <1>1, <2>1
  <2>2. CASE u # t
    BY <1>1, <2>2 DEF GrantInv
  <2> QED
    BY <2>1, <2>2
<1> QED
  BY <1>1, <1>2 DEF GrantInv

\* A step of thread t after which it has no order on its way.
LEMMA SpentKept ==
    ASSUME SpentOnce, NEW t \in Threads, UNCHANGED <<approval, orders>>,
           \A u \in Threads : u # t => op'[u] = op[u],
           op'[t].pc # "order"
    PROVE  SpentOnce'
<1>1. \A u \in Threads : op'[u].pc = "order" => op'[u] = op[u]
  OBVIOUS
<1> QED
  BY <1>1 DEF SpentOnce

LEMMA ReceiveSpend ==
    ASSUME SpendInv, NEW t \in Threads, NEW p \in People,
           NEW k \in Keys \cup {None}, Receive(t, p, k)
    PROVE  SpendInv'
<1>1. /\ Types /\ GrantInv /\ SpentOnce
      /\ UNCHANGED <<now, reigns, session, approval, nonces, recorded, orders>>
  BY DEF SpendInv, Receive
<1>2. /\ op' \in [Threads -> Ops] /\ op'[t].pc = "lookup"
      /\ op'[t].seen = approval
      /\ \A u \in Threads : u # t => op'[u] = op[u]
  BY <1>1, ReceivedOp DEF Receive
<1>3. torn' \subseteq Keys
  BY <1>1 DEF Receive, Types
<1>4. Types'
  BY <1>1, <1>2, <1>3 DEF Types
<1>5. GrantInv'
  <2>1. approval # None => Granted(approval, nonces) /\ approval.nonce = nonces
    BY <1>1 DEF GrantInv
  <2>2. \A i \in DOMAIN orders' : orders'[i].nonce <= nonces
    BY <1>1 DEF GrantInv
  <2> QED
    BY <1>1, <1>2, <2>1, <2>2, GrantKept
<1>6. SpentOnce'
  BY <1>1, <1>2, SpentKept
<1> QED
  BY <1>4, <1>5, <1>6 DEF SpendInv

LEMMA LookupSpend ==
    ASSUME SpendInv, NEW t \in Threads, Lookup(t)
    PROVE  SpendInv'
<1>1. /\ Types /\ GrantInv /\ SpentOnce
      /\ UNCHANGED <<now, reigns, session, approval, nonces, recorded, orders,
                     torn>>
  BY DEF SpendInv, Lookup
<1>2. /\ approval # None => Granted(approval, nonces) /\ approval.nonce = nonces
      /\ op[t].seen # None => approval # None /\ Granted(op[t].seen, nonces)
      /\ \A i \in DOMAIN orders' : orders'[i].nonce <= nonces
  BY <1>1 DEF GrantInv
<1>3. \/ op' = [op EXCEPT ![t] = Idle]
      \/ Answer(t, Refused)
      \/ /\ op' = [op EXCEPT ![t].pc = "consume"]
         /\ op[t].seen # None /\ ~config.execution_freeze
  BY DEF Lookup, ApprovalBlocks
<1>4. Refused \in Nat
  BY DEF Refused
<1>5. /\ op' \in [Threads -> Ops] /\ op'[t].pc # "order"
      /\ op'[t].pc = "consume" => op[t].seen # None /\ ~config.execution_freeze
                                  /\ op'[t].seen = op[t].seen
      /\ op'[t].pc # "consume" => op'[t].seen = None
      /\ \A u \in Threads : u # t => op'[u] = op[u]
  <2>1. CASE op' = [op EXCEPT ![t] = Idle]
    BY <1>1, <2>1, IdledOp
  <2>2. CASE Answer(t, Refused)
    BY <1>1, <1>4, <2>2, AnsweredOp
  <2>3. CASE /\ op' = [op EXCEPT ![t].pc = "consume"]
             /\ op[t].seen # None /\ ~config.execution_freeze
    BY <1>1, <2>3, AdvancedOp
  <2> QED
    BY <1>3, <2>1, <2>2, <2>3
<1>6. Types'
  BY <1>1, <1>5 DEF Types
<1>7. GrantInv'
  BY <1>1, <1>2, <1>5, GrantKept
<1>8. SpentOnce'
  BY <1>1, <1>5, SpentKept
<1> QED
  BY <1>6, <1>7, <1>8 DEF SpendInv

\* The compare and swap: the grant is spent by whoever finds it unspent.
LEMMA ConsumeSpend ==
    ASSUME NoneAssumption, SpendInv, NEW t \in Threads, Consume(t)
    PROVE  SpendInv'
<1>1. /\ Types /\ GrantInv /\ SpentOnce /\ op[t].pc = "consume"
      /\ UNCHANGED <<now, reigns, session, nonces, recorded, orders, torn>>
  BY DEF SpendInv, Consume
<1>2. /\ op[t].seen # None /\ approval # None /\ ~config.execution_freeze
      /\ Granted(op[t].seen, nonces)
      /\ Granted(approval, nonces) /\ approval.nonce = nonces
      /\ \A i \in DOMAIN orders' : orders'[i].nonce <= nonces
  BY <1>1 DEF GrantInv
<1>3. approval \in Grants
  BY <1>1, <1>2 DEF Types
<1>4. CASE Answer(t, Refused) /\ UNCHANGED approval
  <2>1. /\ op' \in [Threads -> Ops] /\ op'[t].pc = "record"
        /\ op'[t].seen = None
        /\ \A u \in Threads : u # t => op'[u] = op[u]
    BY <1>1, <1>4, AnsweredOp DEF Refused
  <2>2. Types'
    BY <1>1, <1>4, <2>1 DEF Types
  <2>3. GrantInv'
    BY <1>1, <1>2, <1>4, <2>1, GrantKept
  <2>4. SpentOnce'
    BY <1>1, <1>4, <2>1, SpentKept
  <2> QED
    BY <2>2, <2>3, <2>4 DEF SpendInv
<1>5. CASE /\ approval.nonce = op[t].seen.nonce /\ ~approval.consumed
           /\ approval' = [approval EXCEPT !.consumed = TRUE]
           /\ op' = [op EXCEPT ![t].pc = "order"]
  <2>1. /\ op' \in [Threads -> Ops] /\ op'[t].pc = "order"
        /\ op'[t].seen = op[t].seen
        /\ \A u \in Threads : u # t => op'[u] = op[u]
    BY <1>1, <1>5, AdvancedOp
  <2>2. /\ approval' \in Grants /\ approval'.nonce = approval.nonce
        /\ approval'.by = approval.by /\ approval'.consumed
    BY <1>3, <1>5, ConsumeSpends
  <2>3. Types'
    BY <1>1, <2>1, <2>2 DEF Types
  <2>4. approval' # None /\ Granted(approval', nonces)
    <3>1. Granted(approval', nonces)
      BY <1>2, <2>2 DEF Granted
    <3>2. approval' # None
      BY <2>2, NoGrant
    <3> QED
      BY <3>1, <3>2
  <2>5. GrantInv'
    BY <1>1, <1>2, <2>1, <2>2, <2>4, GrantKept
  <2>6. \A i \in DOMAIN orders : orders[i].nonce # op[t].seen.nonce
    BY <1>1, <1>2, <1>5 DEF SpentOnce
  <2>7. \A u \in Threads : op[u].pc = "order" =>
                             op[u].seen.nonce # op[t].seen.nonce
    BY <1>1, <1>5 DEF SpentOnce
  <2>8. SpentOnce'
    <3>1. \A u \in Threads : op'[u].pc = "order" =>
            /\ \A i \in DOMAIN orders' : orders'[i].nonce # op'[u].seen.nonce
            /\ op'[u].seen.nonce = approval'.nonce => approval'.consumed
      BY <1>1, <2>1, <2>2, <2>6 DEF SpentOnce
    <3>2. \A u, v \in Threads :
            op'[u].pc = "order" /\ op'[v].pc = "order"
            /\ op'[u].seen.nonce = op'[v].seen.nonce => u = v
      BY <1>1, <2>1, <2>7 DEF SpentOnce
    <3> QED
      BY <1>1, <2>2, <3>1, <3>2 DEF SpentOnce
  <2> QED
    BY <2>3, <2>5, <2>8 DEF SpendInv
<1> QED
  BY <1>4, <1>5 DEF Consume

LEMMA OrderSpend ==
    ASSUME SpendInv, NEW t \in Threads, Order(t)
    PROVE  SpendInv'
<1>1. /\ Types /\ GrantInv /\ SpentOnce /\ op[t].pc = "order"
      /\ UNCHANGED <<now, reigns, session, approval, nonces, recorded>>
  BY DEF SpendInv, Order
<1>2. /\ op[t].seen # None /\ Granted(op[t].seen, nonces)
      /\ approval # None => Granted(approval, nonces) /\ approval.nonce = nonces
      /\ \A i \in DOMAIN orders : orders[i].nonce <= nonces
  BY <1>1 DEF GrantInv
<1>3. op[t].seen \in Grants /\ op[t].seen.nonce \in Nat
  BY <1>1, <1>2 DEF Types, Ops, Grants
<1>4. op' = [op EXCEPT ![t] = Idle] \/ \E a \in Nat : Answer(t, a)
  BY <1>3 DEF Order, Refused
<1>5. /\ op' \in [Threads -> Ops] /\ op'[t].pc \in {"idle", "record"}
      /\ op'[t].seen = None
      /\ \A u \in Threads : u # t => op'[u] = op[u]
  <2>1. CASE op' = [op EXCEPT ![t] = Idle]
    BY <1>1, <2>1, IdledOp
  <2>2. CASE \E a \in Nat : Answer(t, a)
    BY <1>1, <2>2, AnsweredOp
  <2> QED
    BY <1>4, <2>1, <2>2
<1>6. torn' \subseteq Keys
  BY <1>1 DEF Order, Torn, Types, Ops
<1>7. CASE UNCHANGED orders
  <2>1. Types'
    BY <1>1, <1>5, <1>6, <1>7 DEF Types
  <2>2. GrantInv'
    BY <1>1, <1>2, <1>5, <1>7, GrantKept
  <2>3. SpentOnce'
    BY <1>1, <1>5, <1>7, SpentKept
  <2> QED
    BY <2>1, <2>2, <2>3 DEF SpendInv
<1>8. CASE Placed(t)
  <2> DEFINE n == Len(orders')
  <2>1. /\ orders' \in Seq(Placings)
        /\ n \in DOMAIN orders' /\ orders'[n].nonce = op[t].seen.nonce
        /\ \A i \in DOMAIN orders : /\ i \in DOMAIN orders' /\ i # n
                                    /\ orders'[i] = orders[i]
        /\ \A i \in DOMAIN orders' : i \in DOMAIN orders \/ i = n
    BY <1>1, <1>3, <1>8, PlacedOrder
  <2> HIDE DEF n
  <2>2. Types'
    BY <1>1, <1>5, <1>6, <2>1 DEF Types
  <2>3. op[t].seen.nonce <= nonces
    BY <1>2 DEF Granted
  <2>4. \A i \in DOMAIN orders' : orders'[i].nonce <= nonces
    BY <1>2, <2>1, <2>3
  <2>5. GrantInv'
    BY <1>1, <1>2, <1>5, <2>4, GrantKept
  <2>6. \A i \in DOMAIN orders : orders[i].nonce # op[t].seen.nonce
    BY <1>1 DEF SpentOnce
  <2>7. op[t].seen.nonce = approval.nonce => approval.consumed
    BY <1>1 DEF SpentOnce
  <2>8. \A i, j \in DOMAIN orders' : orders'[i].nonce = orders'[j].nonce => i = j
    BY <1>1, <2>1, <2>6 DEF SpentOnce
  <2>9. \A u \in Threads : op'[u].pc = "order" =>
          u # t /\ op'[u] = op[u] /\ op[u].seen.nonce # op[t].seen.nonce
    BY <1>1, <1>5 DEF SpentOnce
  <2>10. \A u \in Threads : op'[u].pc = "order" =>
           /\ \A i \in DOMAIN orders' : orders'[i].nonce # op'[u].seen.nonce
           /\ op'[u].seen.nonce = approval'.nonce => approval'.consumed
    BY <1>1, <2>1, <2>9 DEF SpentOnce
  <2>11. \A u, v \in Threads :
           op'[u].pc = "order" /\ op'[v].pc = "order"
           /\ op'[u].seen.nonce = op'[v].seen.nonce => u = v
    BY <1>1, <2>9 DEF SpentOnce
  <2>12. approval' # None =>
           \A i \in DOMAIN orders' :
              orders'[i].nonce = approval'.nonce => approval'.consumed
    BY <1>1, <2>1, <2>7 DEF SpentOnce
  <2>13. SpentOnce'
    BY <2>8, <2>10, <2>11, <2>12 DEF SpentOnce
  <2> QED
    BY <2>2, <2>5, <2>13 DEF SpendInv
<1> QED
  BY <1>7, <1>8 DEF Order

LEMMA RecordSpend ==
    ASSUME SpendInv, NEW t \in Threads, Record(t)
    PROVE  SpendInv'
<1>1. /\ Types /\ GrantInv /\ SpentOnce /\ op[t].pc = "record"
      /\ UNCHANGED <<now, reigns, session, approval, nonces, orders, torn>>
  BY DEF SpendInv, Record
<1>2. /\ op' \in [Threads -> Ops] /\ op'[t].pc = "idle" /\ op'[t].seen = None
      /\ \A u \in Threads : u # t => op'[u] = op[u]
  BY <1>1, IdledOp DEF Record
<1>3. recorded' \in [Keys -> Nat \cup {None}]
  BY <1>1 DEF Record, PutRecord, Types, Ops
<1>4. Types'
  BY <1>1, <1>2, <1>3 DEF Types
<1>5. /\ approval # None => Granted(approval, nonces) /\ approval.nonce = nonces
      /\ \A i \in DOMAIN orders' : orders'[i].nonce <= nonces
  BY <1>1 DEF GrantInv
<1>6. GrantInv'
  BY <1>1, <1>2, <1>5, GrantKept
<1>7. SpentOnce'
  BY <1>1, <1>2, SpentKept
<1> QED
  BY <1>4, <1>6, <1>7 DEF SpendInv

\* A new grant has a new nonce.
LEMMA ApproveSpend ==
    ASSUME AuthorityAssumption, NoneAssumption, SpendInv,
           NEW p \in People, Approve(p)
    PROVE  SpendInv'
<1>1. /\ Types /\ GrantInv /\ SpentOnce
      /\ UNCHANGED <<now, reigns, session, op, recorded, orders, torn>>
  BY DEF SpendInv, Approve
<1>2. /\ approval' \in Grants /\ approval'.nonce = nonces'
      /\ nonces' = nonces + 1 /\ nonces' \in Nat /\ nonces \in Nat
      /\ approval'.by \in (People \ {Creator}) \cup {Legacy}
  BY <1>1, ApproveGrants DEF Types
<1>3. Types'
  BY <1>1, <1>2 DEF Types
<1>4. Granted(approval', nonces') /\ \A g : Granted(g, nonces) => Granted(g, nonces')
  <2>1. nonces' \in 1 .. nonces' /\ 1 .. nonces \subseteq 1 .. nonces'
    BY <1>2
  <2> QED
    BY <1>2, <2>1 DEF Granted
<1>5. \A i \in DOMAIN orders : orders[i].nonce \in Nat
                               /\ orders[i].nonce <= nonces
  <2>1. orders \in Seq(Placings)
    BY <1>1 DEF Types
  <2>2. \A i \in DOMAIN orders : orders[i] \in Placings
    BY <2>1
  <2> QED
    BY <1>1, <2>2 DEF GrantInv, Placings
<1>6. \A i \in DOMAIN orders' : orders'[i].nonce <= nonces'
                                /\ orders'[i].nonce # nonces'
  BY <1>1, <1>2, <1>5
<1>7. config' = config
  BY <1>1 DEF config
<1>8. ASSUME NEW t \in Threads
      PROVE  /\ op'[t].seen # None => approval' # None
                                      /\ Granted(op'[t].seen, nonces')
             /\ op'[t].pc \in {"consume", "order"} =>
                  op'[t].seen # None /\ ~config'.execution_freeze
             /\ op'[t].pc = "order" => op'[t].seen.nonce # nonces'
  <2>1. /\ op[t].seen # None => approval # None /\ Granted(op[t].seen, nonces)
        /\ op[t].pc \in {"consume", "order"} =>
             op[t].seen # None /\ ~config.execution_freeze
    BY <1>1 DEF GrantInv
  <2>2. op[t].pc = "order" => op[t].seen.nonce # nonces'
    BY <1>2, <2>1 DEF Granted
  <2>3. approval' # None
    BY <1>2, NoGrant
  <2> QED
    BY <1>1, <1>4, <1>7, <2>1, <2>2, <2>3
<1>9. GrantInv'
  BY <1>2, <1>4, <1>6, <1>8 DEF GrantInv
<1>10. SpentOnce'
  BY <1>1, <1>2, <1>6, <1>8 DEF SpentOnce
<1> QED
  BY <1>3, <1>9, <1>10 DEF SpendInv

LEMMA RestartSpend ==
    ASSUME SpendInv, Restart PROVE SpendInv'
<1>1. /\ Types /\ GrantInv /\ SpentOnce
      /\ UNCHANGED <<now, session, approval, nonces, recorded, orders>>
      /\ op' = [t \in Threads |-> Idle]
  BY DEF SpendInv, Restart
<1>2. PICK c \in Configs : reigns' = Append(reigns, [config |-> c, at |-> now])
  BY DEF Restart
<1>3. [config |-> c, at |-> now] \in Reigns
  BY <1>1 DEF Reigns, Types
<1>4. reigns' \in Seq(Reigns) /\ Len(reigns') >= 1
  BY <1>1, <1>2, <1>3, Appended DEF Types
<1>5. /\ op' \in [Threads -> Ops]
      /\ \A t \in Threads : op'[t].pc = "idle" /\ op'[t].seen = None
  BY <1>1, IdleIsOp
<1>6. torn' \subseteq Keys
  <2>1. \A t \in Threads : op[t].key \in Keys \cup {None}
    BY <1>1 DEF Types, Ops
  <2> QED
    BY <1>1, <2>1 DEF Restart, Types
<1>7. Types'
  BY <1>1, <1>4, <1>5, <1>6 DEF Types
<1>8. GrantInv'
  BY <1>1, <1>5 DEF GrantInv
<1>9. SpentOnce'
  BY <1>1, <1>5 DEF SpentOnce
<1> QED
  BY <1>7, <1>8, <1>9 DEF SpendInv

\* Time and credentials.
LEMMA OtherSpend ==
    ASSUME AuthorityAssumption, SpendInv,
           \/ Tick \/ UNCHANGED vars
           \/ \E p \in People : DevLogin(p) \/ GithubLogin(p) \/ Logout(p)
    PROVE  SpendInv'
<1>1. /\ Types /\ GrantInv /\ SpentOnce
      /\ UNCHANGED <<reigns, approval, nonces, op, recorded, orders, torn>>
  BY DEF SpendInv, Tick, DevLogin, GithubLogin, Logout, vars
<1>2. now' \in Nat
  BY <1>1 DEF Tick, DevLogin, GithubLogin, Logout, vars, Types
<1>3. session' \in [People \ TokenHolders -> [role: Roles, exp: Nat] \cup {None}]
  <2>1. CASE Tick \/ UNCHANGED vars
    BY <1>1, <2>1 DEF Tick, vars, Types
  <2>2. CASE \E p \in People : DevLogin(p) \/ GithubLogin(p)
    <3>1. PICK p \in People : DevLogin(p) \/ GithubLogin(p)
      BY <2>2
    <3>2. PICK s \in [role: Roles, exp: Nat] :
            session' = [session EXCEPT ![p] = s]
      BY <1>1, <3>1, CookieGiven
    <3> QED
      BY <1>1, <3>2 DEF Types
  <2>3. CASE \E p \in People : Logout(p)
    BY <1>1, <2>3 DEF Logout, Types
  <2> QED
    BY <2>1, <2>2, <2>3
<1>4. Types'
  BY <1>1, <1>2, <1>3 DEF Types
<1>5. GrantInv' /\ SpentOnce'
  BY <1>1 DEF GrantInv, SpentOnce, config
<1> QED
  BY <1>4, <1>5 DEF SpendInv

LEMMA EndTyped ==
    ASSUME Types, AuthorityAssumption, NEW i \in DOMAIN reigns
    PROVE  EndOf(i) \in Nat /\ (i = Len(reigns) => EndOf(i) = now)
<1>1. now \in Nat /\ reigns \in Seq(Reigns)
  BY DEF Types
<1>2. i < Len(reigns) => i + 1 \in DOMAIN reigns
  BY <1>1
<1>3. \A j \in DOMAIN reigns : reigns[j].at \in Nat
  BY ConfigTyped
<1> QED
  BY <1>1, <1>2, <1>3 DEF EndOf

\* Reigns go on and are followed by others; none ends earlier for it.
LEMMA CookiesKept ==
    ASSUME Types, AuthorityAssumption, CookiesInv, UNCHANGED session,
           \A i \in DOMAIN reigns :
              /\ i \in DOMAIN reigns' /\ reigns'[i] = reigns[i]
              /\ EndOf(i)' \in Nat /\ EndOf(i) <= EndOf(i)'
    PROVE  CookiesInv'
<1> SUFFICES ASSUME NEW p \in People \ TokenHolders, session'[p] # None
             PROVE  \E i \in DOMAIN reigns' :
                       /\ session'[p].role \in RolesUnder(reigns'[i].config, p)
                       /\ session'[p].exp <= EndOf(i)' + SessionTTL
  BY DEF CookiesInv, RolesUnder, GithubRole, DevRole
<1>1. PICK i \in DOMAIN reigns :
        /\ session[p].role \in RolesUnder(reigns[i].config, p)
        /\ session[p].exp <= EndOf(i) + SessionTTL
  BY DEF CookiesInv
<1>2. EndOf(i) \in Nat /\ EndOf(i)' \in Nat
  BY EndTyped
<1>3. session[p].exp \in Nat /\ SessionTTL \in Nat
  BY DEF Types, AuthorityAssumption
<1>4. session[p].exp <= EndOf(i)' + SessionTTL
  BY <1>1, <1>2, <1>3
<1> QED
  BY <1>1, <1>4

LEMMA RestartCookies ==
    ASSUME AuthorityAssumption, Types, CookiesInv, Restart
    PROVE  CookiesInv'
<1>1. PICK c \in Configs : reigns' = Append(reigns, [config |-> c, at |-> now])
  BY DEF Restart
<1>2. UNCHANGED <<now, session>>
  BY DEF Restart
<1>3. reigns \in Seq(Reigns) /\ now \in Nat
  BY DEF Types
<1> DEFINE r == [config |-> c, at |-> now]
<1>4. r \in Reigns /\ r.at = now
  BY <1>3 DEF Reigns
<1>5. reigns' = Append(reigns, r)
  BY <1>1
<1> HIDE DEF r
<1>6. /\ Len(reigns') = Len(reigns) + 1 /\ Len(reigns') \in DOMAIN reigns'
      /\ reigns'[Len(reigns')] = r
      /\ \A i \in DOMAIN reigns : i \in DOMAIN reigns' /\ reigns'[i] = reigns[i]
  BY <1>3, <1>4, <1>5, Appended
<1>7. ASSUME NEW i \in DOMAIN reigns
      PROVE  EndOf(i)' \in Nat /\ EndOf(i) <= EndOf(i)'
  <2>1. EndOf(i) \in Nat /\ i \in 1 .. Len(reigns) /\ Len(reigns) \in Nat
    BY <1>3, EndTyped
  <2>2. EndOf(i)' = reigns'[i + 1].at
    BY <1>6, <2>1 DEF EndOf
  <2>3. CASE i < Len(reigns)
    <3>1. i + 1 \in DOMAIN reigns
      BY <1>3, <2>1, <2>3
    <3>2. EndOf(i) = reigns[i + 1].at
      BY <2>3 DEF EndOf
    <3>3. EndOf(i)' = EndOf(i)
      BY <1>6, <2>2, <3>1, <3>2
    <3> QED
      BY <2>1, <3>3
  <2>4. CASE i = Len(reigns)
    <3>1. EndOf(i) = now
      BY <2>4, EndTyped
    <3>2. EndOf(i)' = now
      BY <1>4, <1>6, <2>2, <2>4
    <3> QED
      BY <2>1, <3>1, <3>2
  <2> QED
    BY <2>1, <2>3, <2>4
<1> QED
  BY <1>2, <1>6, <1>7, CookiesKept

LEMMA TickCookies ==
    ASSUME AuthorityAssumption, Types, CookiesInv,
           UNCHANGED <<reigns, session>>, now' \in {now, now + 1}
    PROVE  CookiesInv'
<1>1. ASSUME NEW i \in DOMAIN reigns
      PROVE  EndOf(i)' \in Nat /\ EndOf(i) <= EndOf(i)'
  <2>1. EndOf(i) \in Nat /\ now \in Nat
    BY EndTyped DEF Types
  <2> QED
    BY <2>1 DEF EndOf
<1> QED
  BY <1>1, CookiesKept

\* A login, or a logout, of p.
LEMMA LoginCookies ==
    ASSUME AuthorityAssumption, Types, CookiesInv, NEW p \in People,
           DevLogin(p) \/ GithubLogin(p) \/ Logout(p)
    PROVE  CookiesInv'
<1>1. UNCHANGED <<now, reigns>> /\ p \in People \ TokenHolders
  BY DEF DevLogin, GithubLogin, Logout
<1>2. \A i : EndOf(i)' = EndOf(i)
  BY <1>1 DEF EndOf
<1>3. \A q \in People \ TokenHolders : q # p => session'[q] = session[q]
  BY DEF DevLogin, GithubLogin, Logout, Types
<1>4. session'[p] # None =>
        \E i \in DOMAIN reigns :
           /\ session'[p].role \in RolesUnder(reigns[i].config, p)
           /\ session'[p].exp <= EndOf(i) + SessionTTL
  <2>1. CASE Logout(p)
    BY <1>1, <2>1 DEF Logout, Types
  <2>2. CASE DevLogin(p) \/ GithubLogin(p)
    <3>1. PICK s \in [role: Roles, exp: Nat] :
            /\ session' = [session EXCEPT ![p] = s]
            /\ s.role \in RolesUnder(config, p) /\ s.exp = now + SessionTTL
      BY <2>2, CookieGiven
    <3>2. session'[p] = s
      BY <1>1, <3>1 DEF Types
    <3>3. Len(reigns) \in DOMAIN reigns /\ EndOf(Len(reigns)) = now
      BY ConfigTyped, EndTyped
    <3>4. s.exp <= EndOf(Len(reigns)) + SessionTTL
      BY <3>1, <3>3
    <3> QED
      BY <3>1, <3>2, <3>3, <3>4 DEF config
  <2> QED
    BY <2>1, <2>2
<1>5. ASSUME NEW q \in People \ TokenHolders, session'[q] # None
      PROVE  \E i \in DOMAIN reigns :
               /\ session'[q].role \in RolesUnder(reigns[i].config, q)
               /\ session'[q].exp <= EndOf(i) + SessionTTL
  BY <1>3, <1>4, <1>5 DEF CookiesInv
<1> QED
  BY <1>1, <1>2, <1>5 DEF CookiesInv, RolesUnder, GithubRole, DevRole

LEMMA RecentRoles ==
    ASSUME AuthorityAssumption, Types, CookiesInv PROVE RolesAreRecent
<1> SUFFICES ASSUME NEW p \in People, Role(p) # None
             PROVE  HeldLately(p, Role(p))
  BY DEF RolesAreRecent
<1>1. now \in Nat /\ SessionTTL \in Nat
  BY DEF Types, AuthorityAssumption
<1>2. CASE p \in TokenHolders
  <2>1. Role(p) \in RolesUnder(config, p)
    BY <1>2 DEF Role, TokenRole, RolesUnder
  <2>2. Len(reigns) \in DOMAIN reigns /\ EndOf(Len(reigns)) = now
    BY ConfigTyped, EndTyped
  <2>3. EndOf(Len(reigns)) + 0 >= now
    BY <1>1, <2>2
  <2> QED
    BY <1>2, <2>1, <2>2, <2>3 DEF HeldLately, config
<1>3. CASE p \notin TokenHolders
  <2>1. /\ session[p] # None /\ session[p].exp >= now
        /\ Role(p) = session[p].role
    BY <1>3 DEF Role, CookieRole
  <2>2. PICK i \in DOMAIN reigns :
          /\ session[p].role \in RolesUnder(reigns[i].config, p)
          /\ session[p].exp <= EndOf(i) + SessionTTL
    BY <1>3, <2>1 DEF CookiesInv
  <2>3. EndOf(i) \in Nat /\ session[p].exp \in Nat
    BY <1>3, <2>1, EndTyped DEF Types
  <2>4. EndOf(i) + SessionTTL >= now
    BY <1>1, <2>1, <2>2, <2>3
  <2> QED
    BY <1>3, <2>1, <2>2, <2>4 DEF HeldLately
<1> QED
  BY <1>2, <1>3

LEMMA OrdersKept ==
    ASSUME UNCHANGED orders PROVE \A k : OrdersOf(k)' = OrdersOf(k)
BY DEF OrdersOf

LEMMA OrdersGrow ==
    ASSUME Types, NEW t \in Threads, op[t].seen \in Grants, Placed(t), NEW k
    PROVE  OrdersOf(k)' = IF k = op[t].key
                          THEN OrdersOf(k) \cup {op[t].seen.nonce}
                          ELSE OrdersOf(k)
<1> DEFINE n == Len(orders')
<1>1. /\ n \in DOMAIN orders' /\ orders'[n].nonce = op[t].seen.nonce
      /\ orders'[n].key = op[t].key
      /\ \A i \in DOMAIN orders : /\ i \in DOMAIN orders' /\ i # n
                                  /\ orders'[i] = orders[i]
      /\ \A i \in DOMAIN orders' : i \in DOMAIN orders \/ i = n
  BY PlacedOrder
<1> HIDE DEF n
<1>2. ASSUME NEW x \in OrdersOf(k)
      PROVE  x \in OrdersOf(k)'
  <2>1. PICK i \in DOMAIN orders : orders[i].key = k /\ x = orders[i].nonce
    BY DEF OrdersOf
  <2>2. i \in DOMAIN orders' /\ orders'[i].key = k /\ x = orders'[i].nonce
    BY <1>1, <2>1
  <2> QED
    BY <2>2 DEF OrdersOf
<1>3. k = op[t].key => op[t].seen.nonce \in OrdersOf(k)'
  BY <1>1 DEF OrdersOf
<1>4. ASSUME NEW x \in OrdersOf(k)'
      PROVE  x \in OrdersOf(k) \/ (k = op[t].key /\ x = op[t].seen.nonce)
  <2>1. PICK i \in DOMAIN orders' : orders'[i].key = k /\ x = orders'[i].nonce
    BY DEF OrdersOf
  <2>2. CASE i = n
    BY <1>1, <2>1, <2>2
  <2>3. CASE i \in DOMAIN orders
    <3>1. orders[i].key = k /\ x = orders[i].nonce
      BY <1>1, <2>1, <2>3
    <3> QED
      BY <2>3, <3>1 DEF OrdersOf
  <2> QED
    BY <1>1, <2>2, <2>3
<1> QED
  BY <1>2, <1>3, <1>4

\* A step that does not touch key k.
LEMMA OtherKey ==
    ASSUME NEW k, KeyHolds(k), recorded'[k] = recorded[k],
           OrdersOf(k)' = OrdersOf(k),
           \A u \in Threads : Busy(u, k) \/ Busy(u, k)' => op'[u] = op[u]
    PROVE  KeyHolds(k)'
<1>1. \A u \in Threads : /\ Busy(u, k)' <=> Busy(u, k)
                         /\ Busy(u, k) => op'[u] = op[u]
  BY DEF Busy
<1> QED
  BY <1>1 DEF KeyHolds

\* A step of the request that holds key k.
LEMMA OwnKey ==
    ASSUME NEW k, KeyHolds(k), NEW t \in Threads, Busy(t, k),
           \A u \in Threads : u # t => op'[u] = op[u],
           Busy(t, k)' /\ op'[t].pc # "lookup" => recorded'[k] = None,
           Busy(t, k)' /\ op'[t].pc = "record" =>
             OrdersOf(k)' = {op'[t].answer} \ {Refused},
           recorded'[k] = None /\ ~(Busy(t, k)' /\ op'[t].pc = "record") =>
             OrdersOf(k)' = {},
           recorded'[k] # None => OrdersOf(k)' = {recorded'[k]} \ {Refused}
    PROVE  KeyHolds(k)'
<1>1. \A u \in Threads : Busy(u, k)' => u = t
  <2>1. \A u \in Threads : Busy(u, k) => u = t
    BY DEF KeyHolds
  <2>2. \A u \in Threads : u # t /\ Busy(u, k)' => Busy(u, k)
    BY DEF Busy
  <2> QED
    BY <2>1, <2>2
<1>2. Refused' = Refused
  BY DEF Refused
<1> QED
  BY <1>1, <1>2 DEF KeyHolds

\* The request that holds key k has no order yet.
LEMMA NothingPlaced ==
    ASSUME NEW k, KeyHolds(k), NEW t \in Threads, Busy(t, k),
           op[t].pc # "record", recorded[k] = None
    PROVE  OrdersOf(k) = {}
BY DEF KeyHolds

LEMMA ReceiveKeys ==
    ASSUME NoneAssumption, Types, KeyInv, NEW t \in Threads, NEW p \in People,
           NEW k \in Keys \cup {None}, Receive(t, p, k)
    PROVE  KeyInv'
<1>1. /\ op'[t].pc = "lookup" /\ op'[t].key = k
      /\ \A u \in Threads : u # t => op'[u] = op[u]
  BY ReceivedOp DEF Receive
<1>2. /\ op[t].pc = "idle" /\ UNCHANGED <<recorded, orders>>
      /\ torn' = IF \E u \in Threads : op[u].pc # "idle" /\ op[u].key = k
                 THEN torn \cup ({k} \ {None}) ELSE torn
  BY DEF Receive
<1>3. \A u \in Threads : op'[u].pc = "record" => op'[u].answer \in Nat
  BY <1>1 DEF KeyInv
<1>4. ASSUME NEW j \in Keys \ torn' PROVE KeyHolds(j)'
  <2>1. j \in Keys \ torn /\ KeyHolds(j) /\ OrdersOf(j)' = OrdersOf(j)
    BY <1>2, OrdersKept DEF KeyInv
  <2>2. CASE j # k
    <3>1. \A u \in Threads : Busy(u, j) \/ Busy(u, j)' => op'[u] = op[u]
      BY <1>1, <1>2, <2>2 DEF Busy
    <3> QED
      BY <1>2, <2>1, <3>1, OtherKey
  <2>3. CASE j = k
    <3>1. \A u \in Threads : ~Busy(u, j)
      BY <1>2, <2>3, NoneAssumption DEF Busy, NoneAssumption
    <3>2. \A u \in Threads : Busy(u, j)' => u = t
      BY <1>1, <3>1 DEF Busy
    <3>3. Refused' = Refused
      BY DEF Refused
    <3> QED
      BY <1>1, <1>2, <2>1, <3>1, <3>2, <3>3 DEF KeyHolds
  <2> QED
    BY <2>2, <2>3
<1> QED
  BY <1>3, <1>4 DEF KeyInv

\* A request that is refused, or goes on: nothing is placed.
LEMMA UnplacedKeys ==
    ASSUME NoneAssumption, Types, KeyInv, NEW t \in Threads,
           op[t].pc \in {"lookup", "consume", "order"},
           UNCHANGED <<recorded, orders, torn>>,
           \A u \in Threads : u # t => op'[u] = op[u],
           op'[t].key \in {op[t].key, None},
           op'[t].pc = "record" => op'[t].answer = Refused,
           op'[t].pc # "idle" /\ op[t].pc = "lookup" =>
             op'[t].key = None \/ recorded[op[t].key] = None
    PROVE  KeyInv'
<1>1. \A u \in Threads : op'[u].pc = "record" => op'[u].answer \in Nat
  BY DEF KeyInv, Refused
<1>2. ASSUME NEW j \in Keys \ torn' PROVE KeyHolds(j)'
  <2>1. KeyHolds(j) /\ OrdersOf(j)' = OrdersOf(j) /\ j # None
    BY <1>2, OrdersKept, NoneAssumption DEF KeyInv, NoneAssumption
  <2>2. CASE j # op[t].key
    <3>1. \A u \in Threads : Busy(u, j) \/ Busy(u, j)' => op'[u] = op[u]
      BY <2>1, <2>2 DEF Busy
    <3> QED
      BY <2>1, <3>1, OtherKey
  <2>3. CASE j = op[t].key
    <3>1. Busy(t, j)
      BY <2>3 DEF Busy
    <3>2. op[t].pc # "lookup" => recorded[j] = None
      BY <2>1, <3>1 DEF KeyHolds
    <3>3. Busy(t, j)' => recorded[j] = None
      BY <2>1, <2>3, <3>2 DEF Busy
    <3>4. recorded[j] = None => OrdersOf(j) = {}
      BY <2>1, <3>1, NothingPlaced
    <3>5. recorded[j] # None => OrdersOf(j) = {recorded[j]} \ {Refused}
      BY <2>1 DEF KeyHolds
    <3>6. Busy(t, j)' /\ op'[t].pc = "record" =>
            OrdersOf(j)' = {op'[t].answer} \ {Refused}
      BY <2>1, <3>3, <3>4
    <3> QED
      BY <2>1, <3>1, <3>3, <3>4, <3>5, <3>6, OwnKey
  <2> QED
    BY <2>2, <2>3
<1> QED
  BY <1>1, <1>2 DEF KeyInv

LEMMA LookupKeys ==
    ASSUME NoneAssumption, Types, KeyInv, NEW t \in Threads, Lookup(t)
    PROVE  KeyInv'
<1>1. /\ op[t].pc = "lookup" /\ UNCHANGED <<recorded, orders, torn>>
  BY DEF Lookup
<1>2. CASE Replayed(op[t].key)
  <2>1. op' = [op EXCEPT ![t] = Idle]
    BY <1>2 DEF Lookup
  <2>2. /\ op'[t].pc = "idle" /\ op'[t].key = None
        /\ \A u \in Threads : u # t => op'[u] = op[u]
    BY <2>1, IdledOp
  <2> QED
    BY <1>1, <2>2, UnplacedKeys
<1>3. CASE ~Replayed(op[t].key)
  <2>1. op[t].key = None \/ recorded[op[t].key] = None
    BY <1>3 DEF Replayed
  <2>2. Answer(t, Refused) \/ op' = [op EXCEPT ![t].pc = "consume"]
    BY <1>3 DEF Lookup
  <2>3. /\ op'[t].pc \in {"record", "consume"} /\ op'[t].key = op[t].key
        /\ op'[t].pc = "record" => op'[t].answer = Refused
        /\ \A u \in Threads : u # t => op'[u] = op[u]
    <3>1. CASE Answer(t, Refused)
      BY <3>1, AnsweredOp DEF Refused
    <3>2. CASE op' = [op EXCEPT ![t].pc = "consume"]
      BY <3>2, AdvancedOp
    <3> QED
      BY <2>2, <3>1, <3>2
  <2> QED
    BY <1>1, <2>1, <2>3, UnplacedKeys
<1> QED
  BY <1>2, <1>3

LEMMA ConsumeKeys ==
    ASSUME NoneAssumption, Types, KeyInv, NEW t \in Threads, Consume(t)
    PROVE  KeyInv'
<1>1. /\ op[t].pc = "consume" /\ UNCHANGED <<recorded, orders, torn>>
      /\ Answer(t, Refused) \/ op' = [op EXCEPT ![t].pc = "order"]
  BY DEF Consume
<1>2. /\ op'[t].pc \in {"record", "order"} /\ op'[t].key = op[t].key
      /\ op'[t].pc = "record" => op'[t].answer = Refused
      /\ \A u \in Threads : u # t => op'[u] = op[u]
  <2>1. CASE Answer(t, Refused)
    BY <2>1, AnsweredOp DEF Refused
  <2>2. CASE op' = [op EXCEPT ![t].pc = "order"]
    BY <2>2, AdvancedOp
  <2> QED
    BY <1>1, <2>1, <2>2
<1> QED
  BY <1>1, <1>2, UnplacedKeys

\* The order is placed, and answered under its nonce, or the key is torn.
LEMMA PlacedKeys ==
    ASSUME NoneAssumption, SpendInv, KeyInv, NEW t \in Threads, Placed(t),
           op[t].pc = "order", recorded' = recorded,
           \/ Answer(t, op[t].seen.nonce) /\ UNCHANGED torn
           \/ Answer(t, Refused) /\ Torn(op[t].key)
           \/ op' = [op EXCEPT ![t] = Idle] /\ Torn(op[t].key)
    PROVE  KeyInv'
<1>1. Types /\ GrantInv
  BY DEF SpendInv
<1>2. op[t].seen # None /\ Granted(op[t].seen, nonces)
  BY <1>1 DEF GrantInv
<1>3. /\ op[t].seen \in Grants /\ op[t].seen.nonce \in Nat
      /\ op[t].seen.nonce # Refused
  BY <1>1, <1>2 DEF Types, Ops, Grants, Granted, Refused
<1>4. /\ op'[t].key \in {op[t].key, None} /\ op'[t].pc \in {"record", "idle"}
      /\ \A u \in Threads : u # t => op'[u] = op[u]
      /\ op'[t].pc = "record" => op'[t].answer \in Nat
  <2>1. CASE Answer(t, op[t].seen.nonce)
    BY <1>1, <1>3, <2>1, AnsweredOp
  <2>2. CASE Answer(t, Refused)
    BY <1>1, <2>2, AnsweredOp DEF Refused
  <2>3. CASE op' = [op EXCEPT ![t] = Idle]
    BY <1>1, <2>3, IdledOp
  <2> QED
    BY <2>1, <2>2, <2>3
<1>5. \A u \in Threads : op'[u].pc = "record" => op'[u].answer \in Nat
  BY <1>4 DEF KeyInv
<1>6. ASSUME NEW j \in Keys \ torn' PROVE KeyHolds(j)'
  <2>1. j \in Keys \ torn /\ KeyHolds(j) /\ j # None
    BY <1>6, NoneAssumption DEF KeyInv, NoneAssumption, Torn
  <2>2. CASE j # op[t].key
    <3>1. \A u \in Threads : Busy(u, j) \/ Busy(u, j)' => op'[u] = op[u]
      BY <1>4, <2>1, <2>2 DEF Busy
    <3>2. OrdersOf(j)' = OrdersOf(j)
      BY <1>1, <1>3, <2>2, OrdersGrow
    <3> QED
      BY <2>1, <3>1, <3>2, OtherKey
  <2>3. CASE j = op[t].key
    <3>1. ~Torn(op[t].key)
      BY <1>6, <2>1, <2>3 DEF Torn
    <3>2. Answer(t, op[t].seen.nonce)
      BY <3>1
    <3>3. /\ op'[t].pc = "record" /\ op'[t].answer = op[t].seen.nonce
          /\ op'[t].key = j
      BY <1>1, <1>3, <2>3, <3>2, AnsweredOp
    <3>4. Busy(t, j) /\ Busy(t, j)'
      BY <2>3, <3>3 DEF Busy
    <3>5. recorded[j] = None
      BY <2>1, <3>4 DEF KeyHolds
    <3>6. OrdersOf(j) = {}
      BY <2>1, <3>4, <3>5, NothingPlaced
    <3>7. OrdersOf(j)' = OrdersOf(j) \cup {op[t].seen.nonce}
      BY <1>1, <1>3, <2>3, OrdersGrow
    <3>8. OrdersOf(j)' = {op'[t].answer} \ {Refused}
      BY <1>3, <3>3, <3>6, <3>7
    <3> QED
      BY <1>4, <2>1, <3>3, <3>4, <3>5, <3>8, OwnKey
  <2> QED
    BY <2>2, <2>3
<1> QED
  BY <1>5, <1>6 DEF KeyInv

LEMMA OrderKeys ==
    ASSUME NoneAssumption, SpendInv, KeyInv, NEW t \in Threads, Order(t)
    PROVE  KeyInv'
<1>1. Types /\ op[t].pc = "order" /\ UNCHANGED recorded
  BY DEF SpendInv, Order
<1>2. CASE Placed(t) /\ Answer(t, op[t].seen.nonce) /\ UNCHANGED torn
  BY <1>1, <1>2, PlacedKeys
<1>3. CASE Answer(t, Refused) /\ UNCHANGED <<orders, torn>>
  <2>1. /\ op'[t].pc = "record" /\ op'[t].key = op[t].key
        /\ op'[t].answer = Refused
        /\ \A u \in Threads : u # t => op'[u] = op[u]
    BY <1>1, <1>3, AnsweredOp DEF Refused
  <2> QED
    BY <1>1, <1>3, <2>1, UnplacedKeys
<1>4. CASE Placed(t) /\ Answer(t, Refused) /\ Torn(op[t].key)
  BY <1>1, <1>4, PlacedKeys
<1>5. CASE op' = [op EXCEPT ![t] = Idle] /\ UNCHANGED <<orders, torn>>
  <2>1. /\ op'[t].pc = "idle" /\ op'[t].key = None
        /\ \A u \in Threads : u # t => op'[u] = op[u]
    BY <1>1, <1>5, IdledOp
  <2> QED
    BY <1>1, <1>5, <2>1, UnplacedKeys
<1>6. CASE op' = [op EXCEPT ![t] = Idle] /\ Placed(t) /\ Torn(op[t].key)
  BY <1>1, <1>6, PlacedKeys
<1> QED
  BY <1>2, <1>3, <1>4, <1>5, <1>6 DEF Order

LEMMA RecordKeys ==
    ASSUME NoneAssumption, Types, KeyInv, NEW t \in Threads, Record(t)
    PROVE  KeyInv'
<1>1. /\ op[t].pc = "record" /\ UNCHANGED <<orders, torn>>
      /\ IF op[t].key = None THEN UNCHANGED recorded
         ELSE PutRecord(op[t].key, op[t].answer)
  BY DEF Record
<1>2. /\ op'[t].pc = "idle" /\ op'[t].key = None
      /\ \A u \in Threads : u # t => op'[u] = op[u]
  BY IdledOp DEF Record
<1>3. \A u \in Threads : op'[u].pc = "record" => op'[u].answer \in Nat
  BY <1>2 DEF KeyInv
<1>4. ASSUME NEW j \in Keys \ torn' PROVE KeyHolds(j)'
  <2>1. KeyHolds(j) /\ OrdersOf(j)' = OrdersOf(j) /\ j # None
    BY <1>1, <1>4, OrdersKept, NoneAssumption DEF KeyInv, NoneAssumption
  <2>2. CASE j # op[t].key
    <3>1. \A u \in Threads : Busy(u, j) \/ Busy(u, j)' => op'[u] = op[u]
      BY <1>2, <2>1, <2>2 DEF Busy
    <3>2. recorded'[j] = recorded[j]
      BY <1>1, <2>2 DEF PutRecord, Types
    <3> QED
      BY <2>1, <3>1, <3>2, OtherKey
  <2>3. CASE j = op[t].key
    <3>1. Busy(t, j) /\ ~Busy(t, j)'
      BY <1>1, <1>2, <2>3 DEF Busy
    <3>2. recorded[j] = None /\ OrdersOf(j) = {op[t].answer} \ {Refused}
      BY <1>1, <2>1, <3>1 DEF KeyHolds
    <3>3. op[t].answer \in Nat
      BY <1>1 DEF KeyInv
    <3>4. recorded'[j] = op[t].answer
      BY <1>1, <2>1, <2>3, <3>2 DEF PutRecord, Types
    <3>5. recorded'[j] # None
      BY <3>3, <3>4, NoGrant
    <3> QED
      BY <1>2, <2>1, <3>1, <3>2, <3>4, <3>5, OwnKey
  <2> QED
    BY <2>2, <2>3
<1> QED
  BY <1>3, <1>4 DEF KeyInv

\* A restart tears the keys of the requests it ends.
LEMMA RestartKeys ==
    ASSUME NoneAssumption, Types, KeyInv, Restart PROVE KeyInv'
<1>1. /\ UNCHANGED <<recorded, orders>> /\ op' = [t \in Threads |-> Idle]
      /\ torn' = torn \cup ({op[t].key : t \in Threads} \ {None})
  BY DEF Restart
<1>2. \A t \in Threads : op'[t].pc = "idle"
  BY <1>1, IdleIsOp
<1>3. ASSUME NEW j \in Keys \ torn' PROVE KeyHolds(j)'
  <2>1. KeyHolds(j) /\ OrdersOf(j)' = OrdersOf(j) /\ j # None
    BY <1>1, <1>3, OrdersKept, NoneAssumption DEF KeyInv, NoneAssumption
  <2>2. \A u \in Threads : ~Busy(u, j)
    BY <1>1, <1>3, <2>1 DEF Busy
  <2>3. \A u \in Threads : ~Busy(u, j)'
    BY <1>2 DEF Busy
  <2>4. Refused' = Refused
    BY DEF Refused
  <2> QED
    BY <1>1, <2>1, <2>2, <2>3, <2>4 DEF KeyHolds
<1> QED
  BY <1>2, <1>3 DEF KeyInv

LEMMA OtherKeys ==
    ASSUME KeyInv, UNCHANGED <<op, recorded, orders, torn>> PROVE KeyInv'
<1>1. ASSUME NEW j \in Keys \ torn' PROVE KeyHolds(j)'
  <2>1. KeyHolds(j) /\ OrdersOf(j)' = OrdersOf(j)
    BY <1>1, OrdersKept DEF KeyInv
  <2> QED
    BY <2>1, OtherKey
<1> QED
  BY <1>1 DEF KeyInv

Given == AuthorityAssumption /\ NoneAssumption

\* Grants and orders; cookies and reigns; keys and their records.
AuthorityInv == SpendInv /\ CookiesInv /\ KeyInv

LEMMA AuthorityInit == Given /\ Init => AuthorityInv
<1> SUFFICES ASSUME Given, Init PROVE AuthorityInv
  OBVIOUS
<1>1. Types
  BY TypesInit DEF Given
<1>2. /\ approval = None /\ orders = <<>> /\ torn = {}
      /\ \A t \in Threads : op[t].pc = "idle" /\ op[t].seen = None
      /\ \A k \in Keys : recorded[k] = None
      /\ \A p \in People \ TokenHolders : session[p] = None
  BY IdleIsOp DEF Init
<1>3. GrantInv /\ SpentOnce
  BY <1>2 DEF GrantInv, SpentOnce
<1>4. CookiesInv
  BY <1>2 DEF CookiesInv
<1>5. \A k : OrdersOf(k) = {}
  BY <1>2 DEF OrdersOf
<1>6. \A k \in Keys : KeyHolds(k)
  BY <1>2, <1>5 DEF KeyHolds, Busy
<1>7. KeyInv
  BY <1>2, <1>6 DEF KeyInv
<1> QED
  BY <1>1, <1>3, <1>4, <1>7 DEF AuthorityInv, SpendInv

LEMMA AuthorityNext ==
    Given /\ AuthorityInv /\ [Next]_vars => AuthorityInv'
<1> SUFFICES ASSUME Given, AuthorityInv, [Next]_vars PROVE AuthorityInv'
  OBVIOUS
<1>1. /\ SpendInv /\ Types /\ CookiesInv /\ KeyInv
      /\ AuthorityAssumption /\ NoneAssumption
  BY DEF AuthorityInv, SpendInv, Given
<1>2. now \in Nat
  BY <1>1 DEF Types
<1>3. CASE Tick \/ UNCHANGED vars
  <2>1. /\ UNCHANGED <<reigns, session, op, recorded, orders, torn>>
        /\ now' \in {now, now + 1}
    BY <1>3 DEF Tick, vars
  <2> QED
    BY <1>1, <1>3, <2>1, OtherSpend, TickCookies, OtherKeys DEF AuthorityInv
<1>4. CASE Restart
  BY <1>1, <1>4, RestartSpend, RestartCookies, RestartKeys DEF AuthorityInv
<1>5. ASSUME NEW p \in People, DevLogin(p) \/ GithubLogin(p) \/ Logout(p)
      PROVE  AuthorityInv'
  <2>1. UNCHANGED <<op, recorded, orders, torn>>
    BY <1>5 DEF DevLogin, GithubLogin, Logout
  <2> QED
    BY <1>1, <1>5, <2>1, OtherSpend, LoginCookies, OtherKeys DEF AuthorityInv
<1>6. ASSUME NEW p \in People, Approve(p) PROVE AuthorityInv'
  <2>1. UNCHANGED <<now, reigns, session, op, recorded, orders, torn>>
    BY <1>6 DEF Approve
  <2> QED
    BY <1>1, <1>6, <2>1, ApproveSpend, TickCookies, OtherKeys DEF AuthorityInv
<1>7. ASSUME NEW t \in Threads, NEW p \in People, NEW k \in Keys \cup {None},
             Receive(t, p, k)
      PROVE  AuthorityInv'
  <2>1. UNCHANGED <<now, reigns, session>>
    BY <1>7 DEF Receive
  <2> QED
    BY <1>1, <1>7, <2>1, ReceiveSpend, TickCookies, ReceiveKeys DEF AuthorityInv
<1>8. ASSUME NEW t \in Threads, Lookup(t) PROVE AuthorityInv'
  <2>1. UNCHANGED <<now, reigns, session>>
    BY <1>8 DEF Lookup
  <2> QED
    BY <1>1, <1>8, <2>1, LookupSpend, TickCookies, LookupKeys DEF AuthorityInv
<1>9. ASSUME NEW t \in Threads, Consume(t) PROVE AuthorityInv'
  <2>1. UNCHANGED <<now, reigns, session>>
    BY <1>9 DEF Consume
  <2> QED
    BY <1>1, <1>9, <2>1, ConsumeSpend, TickCookies, ConsumeKeys DEF AuthorityInv
<1>10. ASSUME NEW t \in Threads, Order(t) PROVE AuthorityInv'
  <2>1. UNCHANGED <<now, reigns, session>>
    BY <1>10 DEF Order
  <2> QED
    BY <1>1, <1>10, <2>1, OrderSpend, TickCookies, OrderKeys DEF AuthorityInv
<1>11. ASSUME NEW t \in Threads, Record(t) PROVE AuthorityInv'
  <2>1. UNCHANGED <<now, reigns, session>>
    BY <1>11 DEF Record
  <2> QED
    BY <1>1, <1>11, <2>1, RecordSpend, TickCookies, RecordKeys DEF AuthorityInv
<1> QED
  BY <1>3, <1>4, <1>5, <1>6, <1>7, <1>8, <1>9, <1>10, <1>11 DEF Next

\* The inductive invariant of credentials, approvals, requests and keys.
THEOREM AuthorityInductive ==
    ASSUME AuthorityAssumption, NoneAssumption
    PROVE  Spec => []AuthorityInv
<1>1. Given
  BY DEF Given
<1> QED
  BY <1>1, AuthorityInit, AuthorityNext, PTL DEF Spec

\* Any number of people, threads, keys and restarts: every showcase order
\* spends an approval of its own, granted by another reviewer than the creator
\* (the default token excepted), and none goes out of a frozen service.
THEOREM ShowcaseOrdersAuthorised ==
    ASSUME AuthorityAssumption, NoneAssumption
    PROVE  Spec => []OrdersAreAuthorised
<1>1. AuthorityInv => OrdersAreAuthorised
  <2> SUFFICES ASSUME AuthorityInv PROVE OrdersAreAuthorised
    OBVIOUS
  <2>1. GrantInv /\ SpentOnce
    BY DEF AuthorityInv, SpendInv
  <2> QED
    BY <2>1 DEF GrantInv, SpentOnce, Granted, OrdersAreAuthorised
<1> QED
  BY <1>1, AuthorityInductive, PTL

\* Whoever loses a role in the configuration loses it within SessionTTL, at
\* once with a token, whatever logins and restarts came before.
THEOREM RolesEnd ==
    ASSUME AuthorityAssumption, NoneAssumption
    PROVE  Spec => []RolesAreRecent
<1>1. AuthorityInv => RolesAreRecent
  BY RecentRoles DEF AuthorityInv, SpendInv
<1> QED
  BY <1>1, AuthorityInductive, PTL

\* The record of a key names the order placed under it, or says that there is
\* none, if no two requests with the key overlapped and none was cut off.
THEOREM KeysAreHonest ==
    ASSUME AuthorityAssumption, NoneAssumption
    PROVE  Spec => []KeysTellTheirOrder
<1>1. AuthorityInv => KeysTellTheirOrder
  BY DEF AuthorityInv, KeyInv, KeyHolds, KeysTellTheirOrder, OrdersOf
<1> QED
  BY <1>1, AuthorityInductive, PTL


-----------------------------------------------------------------------------
\* The start of a step of thread t: the facts every case below uses.
LEMMA EntryFields ==
    ASSUME NEW e \in Entries
    PROVE  e.oid \in Oids /\ e.by \in Approvals \cup {Unapproved} /\ e # None
BY NoneIsNoOrder DEF Entries

\* Every variable keeps its type.
LEMMA TypeStep ==
    ASSUME TypeOK, [DemoNext]_demoVars
    PROVE  TypeOK'
<1> USE DEF TypeOK, Steps, Answers, files, exchange, Goto, Reply
<1>1. CASE UNCHANGED demoVars
    BY <1>1 DEF demoVars
<1>2. ASSUME NEW t \in Threads, Ask(t) PROVE TypeOK'
    BY <1>2 DEF Ask
<1>3. ASSUME NEW t \in Threads, Enter(t) PROVE TypeOK'
    BY <1>3 DEF Enter, AnswerFromEvidence
<1>4. ASSUME NEW t \in Threads, Preflight(t) PROVE TypeOK'
    <2>1. ask[t].oid \in Oids
        BY EntryFields
    <2>2. 0 \in 0 .. MaxRetries
        BY RetriesAssumption
    <2>3. preflight' \in [oid: Oids, ok: BOOLEAN] \cup {None}
        BY <1>4, <2>1 DEF Preflight, KeepPreflight
    <2>4. lock' \in Threads \cup {None} /\ step' \in [Threads -> Steps]
              /\ answer' \in [Threads -> Answers]
        BY <1>4 DEF Preflight
    <2>5. tries' \in [Threads -> 0 .. MaxRetries]
        BY <1>4, <2>2 DEF Preflight
    <2>6. UNCHANGED <<taken, wire, ledger, evidence, status, ask, closing>>
        BY <1>4 DEF Preflight
    <2> HIDE DEF Goto, Reply, Steps, Answers
    <2> QED
        BY <2>3, <2>4, <2>5, <2>6
<1>5. ASSUME NEW t \in Threads, Send(t) PROVE TypeOK'
    <2>1. ask[t].oid \in Oids
        BY EntryFields
    <2>2. taken' \subseteq Oids /\ wire' \subseteq Oids
        BY <1>5, <2>1 DEF Send, Takes, Loses, Delays
    <2>3. tries' \in [Threads -> 0 .. MaxRetries]
        <3>1. tries[t] \in Nat /\ (tries[t] < MaxRetries =>
                                      tries[t] + 1 \in 0 .. MaxRetries)
            BY RetriesAssumption
        <3>2. tries' = tries \/ Retry(t)
            BY <1>5 DEF Send
        <3> QED
            BY <3>1, <3>2 DEF Retry
    <2>4. lock' \in Threads \cup {None} /\ step' \in [Threads -> Steps]
              /\ answer' \in [Threads -> Answers]
        BY <1>5 DEF Send, Retry
    <2>5. UNCHANGED <<preflight, ledger, evidence, status, ask, closing>>
        BY <1>5 DEF Send
    <2> HIDE DEF Goto, Reply, Steps, Answers
    <2> QED
        BY <2>2, <2>3, <2>4, <2>5
<1>6. ASSUME NEW t \in Threads, Recover(t) PROVE TypeOK'
    BY <1>6 DEF Recover
<1>7. ASSUME NEW t \in Threads, WriteLedger(t) PROVE TypeOK'
    <2>1. ask[t] \in Entries
        OBVIOUS
    <2>2. ledger' \in Seq(Entries)
        <3>1. Append(ledger, ask[t]) \in Seq(Entries)
            BY <2>1
        <3> QED
            BY <1>7, <3>1 DEF WriteLedger
    <2>3. lock' \in Threads \cup {None} /\ step' \in [Threads -> Steps]
              /\ answer' \in [Threads -> Answers]
        BY <1>7 DEF WriteLedger
    <2>4. UNCHANGED <<taken, wire, preflight, evidence, status, ask, tries,
                      closing>>
        BY <1>7 DEF WriteLedger
    <2> HIDE DEF Goto, Reply, Steps, Answers
    <2> QED
        BY <2>2, <2>3, <2>4
<1>8. ASSUME NEW t \in Threads, WriteEvidence(t) PROVE TypeOK'
    BY <1>8 DEF WriteEvidence
<1>9. ASSUME NEW t \in Threads, WriteStatus(t) PROVE TypeOK'
    BY <1>9 DEF WriteStatus, KeepStatus
<1>10. CASE Arrive
    BY <1>10 DEF Arrive
<1>11. CASE Close
    BY <1>11 DEF Close
<1>12. CASE Reboot
    BY <1>12 DEF Reboot
<1> QED
    BY <1>1, <1>2, <1>3, <1>4, <1>5, <1>6, <1>7, <1>8, <1>9, <1>10, <1>11,
       <1>12 DEF DemoNext, Work

-----------------------------------------------------------------------------
\* What sends an order goes by the preflight file, and nothing else replaces
\* that file.
LEMMA OrderStep ==
    ASSUME TypeOK, OrderInv, [DemoNext]_demoVars
    PROVE  OrderInv'
<1> USE DEF OrderInv, SentOids, PastPreflight, files, exchange,
            Goto, Reply
<1>1. TypeOK'
    BY TypeStep
<1> DEFINE Owned ==
      /\ \A oid \in SentOids : preflight # None /\ preflight.oid = oid
      /\ \A t \in Threads : step[t] \in PastPreflight =>
             preflight # None /\ preflight.oid = ask[t].oid
<1>2. Owned'
  <2>1. CASE UNCHANGED demoVars
    BY <2>1 DEF demoVars
  <2>2. ASSUME NEW t \in Threads, Ask(t) PROVE Owned'
    BY <2>2 DEF Ask, TypeOK
  <2>3. ASSUME NEW t \in Threads, Enter(t) PROVE Owned'
    <3>1. \E s \in {"preflight", "idle"} : step' = [step EXCEPT ![t] = s]
        BY <2>3 DEF Enter
    <3> QED
        BY <2>3, <3>1 DEF Enter, TypeOK
  <2>4. ASSUME NEW t \in Threads, Preflight(t) PROVE Owned'
    <3>1. ask[t].oid \in Oids
        BY EntryFields DEF TypeOK
    <3>2. preflight # None => preflight' = preflight
        BY <2>4 DEF Preflight, KeepPreflight
    <3>3. step' = [step EXCEPT ![t] = "send"] =>
              preflight' # None /\ preflight'.oid = ask[t].oid
        BY <2>4, <3>1, NoneIsNoOrder
           DEF Preflight, KeepPreflight, TypeOK
    <3>4. step' \in {[step EXCEPT ![t] = "send"], [step EXCEPT ![t] = "idle"]}
        BY <2>4 DEF Preflight
    <3> QED
        BY <2>4, <3>2, <3>3, <3>4 DEF Preflight, TypeOK
  <2>5. ASSUME NEW t \in Threads, Send(t) PROVE Owned'
    <3>1. preflight # None /\ preflight.oid = ask[t].oid
        BY <2>5 DEF Send
    <3>2. taken' \cup wire' \subseteq taken \cup wire \cup {ask[t].oid}
        BY <2>5 DEF Send, Takes, Loses, Delays
    <3>3. \E s \in {"send", "recover", "ledger", "idle"} :
              step' = [step EXCEPT ![t] = s]
        BY <2>5 DEF Send, Retry
    <3> QED
        BY <2>5, <3>1, <3>2, <3>3 DEF Send, TypeOK
  <2>6. ASSUME NEW t \in Threads, Recover(t) PROVE Owned'
    BY <2>6 DEF Recover, TypeOK
  <2>7. ASSUME NEW t \in Threads, WriteLedger(t) PROVE Owned'
    BY <2>7 DEF WriteLedger, TypeOK
  <2>8. ASSUME NEW t \in Threads, WriteEvidence(t) PROVE Owned'
    BY <2>8 DEF WriteEvidence, TypeOK
  <2>9. ASSUME NEW t \in Threads, WriteStatus(t) PROVE Owned'
    BY <2>9 DEF WriteStatus, KeepStatus, TypeOK
  <2>10. CASE Arrive
    BY <2>10 DEF Arrive
  <2>11. CASE Close
    BY <2>11 DEF Close
  <2>12. CASE Reboot
    BY <2>12 DEF Reboot
  <2> QED
    BY <2>1, <2>2, <2>3, <2>4, <2>5, <2>6, <2>7, <2>8, <2>9, <2>10, <2>11,
       <2>12 DEF DemoNext, Work
<1> QED
    BY <1>1, <1>2 DEF OrderInv

-----------------------------------------------------------------------------
\* What a thread holding the lock knows of the files.
LEMMA WorkingAlone ==
    ASSUME TypeOK, RecordInv, NEW t \in Threads,
           step[t] \notin {"idle", "enter"}
    PROVE  /\ lock = t
           /\ \A u \in Threads \ {t} : step[u] \in {"idle", "enter"}
           /\ step[t] # "status" => evidence = None
BY DEF RecordInv

\* A ledger that has no entry for the order about to be recorded is empty:
\* there is no other order it could have an entry for.
LEMMA EmptyLedger ==
    ASSUME TypeOK, OrderInv, RecordInv, NEW t \in Threads,
           step[t] \in PastPreflight, ~LedgerHas(ask[t])
    PROVE  ledger = <<>>
<1>1. \A i \in DOMAIN ledger : ledger[i].oid = ask[t].oid
    BY DEF OrderInv, RecordInv, SentOids
<1>2. DOMAIN ledger = {}
    BY <1>1 DEF LedgerHas
<1> QED
    BY <1>2 DEF TypeOK

\* The ledger has at most the entry of the order at hand, and evidence and
\* answers follow it.
LEMMA RecordStep ==
    ASSUME TypeOK, OrderInv, RecordInv, [DemoNext]_demoVars
    PROVE  RecordInv'
<1> USE DEF files, exchange, LedgerHas
<1>1. CASE UNCHANGED demoVars
    BY <1>1 DEF demoVars, RecordInv, AnswersAreBacked
<1>2. ASSUME NEW t \in Threads, Ask(t) PROVE RecordInv'
    BY <1>2 DEF Ask, TypeOK, RecordInv, AnswersAreBacked
<1>3. ASSUME NEW t \in Threads, Enter(t) PROVE RecordInv'
    <2>1. CASE evidence # None
        <3>1. UNCHANGED <<taken, ledger, evidence, ask>>
            BY <1>3 DEF Enter
        <3>2. Reply(t, AnswerFromEvidence(ask[t])) /\ step[t] = "enter"
            BY <1>3, <2>1 DEF Enter
        <3>3. PICK a \in {"blocked", "reconcile", "already_placed"} :
                 /\ Reply(t, a)
                 /\ a = "already_placed" =>
                      /\ evidence.oid = ask[t].oid
                      /\ ask[t].by \in {Unapproved, evidence.by}
            BY <3>2 DEF AnswerFromEvidence
        <3>4. \A u \in Threads : step[u] \in {"idle", "enter"}
            BY <1>3, NoneIsNoOrder DEF Enter, RecordInv
        <3>5. step' = [step EXCEPT ![t] = "idle"]
              /\ answer' = [answer EXCEPT ![t] = a]
            BY <3>3 DEF Reply
        <3>6. \A u \in Threads : step'[u] \in {"idle", "enter"}
            BY <3>4, <3>5 DEF TypeOK
        <3> HIDE DEF files, exchange, LedgerHas
        <3>7. AnswersAreBacked'
            BY <2>1, <3>1, <3>3, <3>5
               DEF AnswersAreBacked, TypeOK, RecordInv
        <3> QED
            BY <2>1, <3>1, <3>6, <3>7 DEF RecordInv
    <2>2. CASE evidence = None /\ LedgerHas(ask[t])
        <3>1. UNCHANGED <<taken, ledger, evidence, ask>>
            BY <1>3 DEF Enter
        <3>2. Reply(t, "blocked")
            BY <1>3, <2>2 DEF Enter
        <3>3. \A u \in Threads : step[u] \in {"idle", "enter"}
            BY <1>3, NoneIsNoOrder DEF Enter, RecordInv
        <3>4. \A u \in Threads : step'[u] \in {"idle", "enter"}
            BY <3>2, <3>3 DEF Reply, TypeOK
        <3> HIDE DEF files, exchange, LedgerHas
        <3>5. AnswersAreBacked'
            BY <3>1, <3>2
               DEF Reply, AnswersAreBacked, TypeOK, RecordInv
        <3> QED
            BY <3>1, <3>4, <3>5 DEF RecordInv
    <2>3. CASE evidence = None /\ ~LedgerHas(ask[t])
        <3>1. \A u \in Threads : step[u] \in {"idle", "enter"}
            BY <1>3, NoneIsNoOrder DEF Enter, RecordInv
        <3> QED
            BY <1>3, <2>3, <3>1
               DEF Enter, TypeOK, RecordInv, AnswersAreBacked
    <2> QED
        BY <2>1, <2>2, <2>3
<1>4. ASSUME NEW t \in Threads, Preflight(t) PROVE RecordInv'
    <2>1. UNCHANGED <<taken, ledger, evidence, ask>>
        BY <1>4 DEF Preflight
    <2>2. Goto(t, "send") \/ Reply(t, "blocked")
        BY <1>4 DEF Preflight
    <2>3. step[t] = "preflight"
        BY <1>4 DEF Preflight
    <2>4. /\ lock = t /\ evidence = None
          /\ \A u \in Threads \ {t} : step[u] \in {"idle", "enter"}
        BY <2>3, WorkingAlone
    <2>5. CASE Goto(t, "send")
        BY <2>1, <2>3, <2>4, <2>5
           DEF Goto, Reply, TypeOK, RecordInv, AnswersAreBacked
    <2>6. CASE Reply(t, "blocked")
        BY <2>1, <2>3, <2>4, <2>6
           DEF Goto, Reply, TypeOK, RecordInv, AnswersAreBacked
    <2> QED
        BY <2>2, <2>5, <2>6
<1>5. ASSUME NEW t \in Threads, Send(t) PROVE RecordInv'
    <2>1. UNCHANGED <<ledger, evidence, ask>> /\ taken \subseteq taken'
        BY <1>5 DEF Send, Takes, Loses, Delays
    <2>2. step[t] = "send"
        BY <1>5 DEF Send
    <2>3. \/ Goto(t, "ledger") /\ ask[t].oid \in taken'
          \/ Goto(t, "send") \/ Goto(t, "recover")
          \/ Reply(t, "blocked") \/ Reply(t, "rejected")
        BY <1>5 DEF Send, Retry, Takes
    <2>4. /\ lock = t /\ evidence = None
          /\ \A u \in Threads \ {t} : step[u] \in {"idle", "enter"}
        BY <2>2, WorkingAlone
    <2>5. CASE Goto(t, "ledger") /\ ask[t].oid \in taken'
        BY <2>1, <2>2, <2>4, <2>5
           DEF Goto, Reply, TypeOK, RecordInv, AnswersAreBacked
    <2>6. CASE Goto(t, "send") \/ Goto(t, "recover")
        BY <2>1, <2>2, <2>4, <2>6
           DEF Goto, Reply, TypeOK, RecordInv, AnswersAreBacked
    <2>7. CASE Reply(t, "blocked")
        BY <2>1, <2>2, <2>4, <2>7
           DEF Goto, Reply, TypeOK, RecordInv, AnswersAreBacked
    <2>8. CASE Reply(t, "rejected")
        BY <2>1, <2>2, <2>4, <2>8
           DEF Goto, Reply, TypeOK, RecordInv, AnswersAreBacked
    <2> QED
        BY <2>3, <2>5, <2>6, <2>7, <2>8
<1>6. ASSUME NEW t \in Threads, Recover(t) PROVE RecordInv'
    <2>1. UNCHANGED <<taken, ledger, evidence, ask>> /\ step[t] = "recover"
        BY <1>6 DEF Recover
    <2>2. \/ Goto(t, "ledger") /\ ask[t].oid \in taken
          \/ Reply(t, "reconcile")
        BY <1>6 DEF Recover
    <2>3. /\ lock = t /\ evidence = None
          /\ \A u \in Threads \ {t} : step[u] \in {"idle", "enter"}
        BY <2>1, WorkingAlone
    <2>4. CASE Goto(t, "ledger") /\ ask[t].oid \in taken
        BY <2>1, <2>3, <2>4
           DEF Goto, Reply, TypeOK, RecordInv, AnswersAreBacked
    <2>5. CASE Reply(t, "reconcile")
        BY <2>1, <2>3, <2>5
           DEF Goto, Reply, TypeOK, RecordInv, AnswersAreBacked
    <2> QED
        BY <2>2, <2>4, <2>5
<1>7. ASSUME NEW t \in Threads, WriteLedger(t) PROVE RecordInv'
    <2>1. UNCHANGED <<taken, evidence, ask>> /\ step[t] = "ledger"
        BY <1>7 DEF WriteLedger
    <2>2. CASE Reply(t, "blocked") /\ ledger' = ledger
        BY <2>1, <2>2, WorkingAlone
           DEF Reply, TypeOK, RecordInv, AnswersAreBacked
    <2>3. CASE ~LedgerHas(ask[t]) /\ Goto(t, "evidence")
                   /\ ledger' = Append(ledger, ask[t])
        <3>1. ledger' = <<ask[t]>>
            <4>1. ledger = <<>>
                BY <2>1, <2>3, EmptyLedger DEF PastPreflight
            <4> QED
                BY <2>3, <4>1
        <3>2. ask[t].oid \in taken
            BY <2>1 DEF RecordInv
        <3>3. /\ lock = t /\ evidence = None
              /\ \A u \in Threads \ {t} : step[u] \in {"idle", "enter"}
            BY <2>1, WorkingAlone
        <3> HIDE DEF LedgerHas
        <3>4. \A i \in DOMAIN ledger' : ledger'[i].oid \in taken'
            BY <2>1, <3>1, <3>2
        <3>5. Len(ledger') <= 1
            BY <3>1
        <3> QED
            BY <2>1, <2>3, <3>1, <3>2, <3>3, <3>4, <3>5
               DEF Goto, TypeOK, RecordInv, AnswersAreBacked
    <2> QED
        BY <1>7, <2>2, <2>3 DEF WriteLedger
<1>8. ASSUME NEW t \in Threads, WriteEvidence(t) PROVE RecordInv'
    BY <1>8, WorkingAlone
       DEF WriteEvidence, Goto, TypeOK, RecordInv, AnswersAreBacked
<1>9. ASSUME NEW t \in Threads, WriteStatus(t) PROVE RecordInv'
    <2>1. /\ evidence = ask[t] /\ evidence # None
          /\ UNCHANGED <<taken, ledger, evidence, ask>>
        BY <1>9, EntryFields
           DEF WriteStatus, KeepStatus, TypeOK, RecordInv
    <2>2. \A u \in Threads \ {t} : step[u] \in {"idle", "enter"}
        BY <1>9, WorkingAlone DEF WriteStatus, KeepStatus
    <2>3. \E a \in {"placed", "reconcile"} : Reply(t, a)
        BY <1>9 DEF WriteStatus, KeepStatus
    <2>4. /\ step' = [step EXCEPT ![t] = "idle"]
          /\ \A u \in Threads \ {t} : answer'[u] = answer[u]
        BY <2>3 DEF Reply, TypeOK
    <2>5. \A u \in Threads : step'[u] \in {"idle", "enter"}
        BY <2>2, <2>4 DEF TypeOK
    <2>6. AnswersAreBacked'
        BY <2>1, <2>4 DEF RecordInv, AnswersAreBacked, TypeOK
    <2> QED
        BY <2>1, <2>5, <2>6 DEF RecordInv
<1>10. CASE Arrive
    BY <1>10 DEF Arrive, RecordInv, AnswersAreBacked
<1>11. CASE Close
    BY <1>11 DEF Close, RecordInv, AnswersAreBacked
<1>12. CASE Reboot
    BY <1>12 DEF Reboot, RecordInv, AnswersAreBacked
<1> QED
    BY <1>1, <1>2, <1>3, <1>4, <1>5, <1>6, <1>7, <1>8, <1>9, <1>10, <1>11,
       <1>12 DEF DemoNext, Work

-----------------------------------------------------------------------------
\* The invariant that carries the others: the lock, the preflight file and
\* the ledger, each written before the next thing happens.
THEOREM DemoInductive == DemoSpec => []IInv
<1>1. DemoInit => IInv
    <2> SUFFICES ASSUME DemoInit PROVE IInv
        OBVIOUS
    <2>1. TypeOK
        <3>1. ledger \in Seq(Entries)
            BY DEF DemoInit
        <3>2. tries \in [Threads -> 0 .. MaxRetries]
            BY RetriesAssumption DEF DemoInit
        <3>3. step \in [Threads -> Steps]
              /\ answer \in [Threads -> Answers]
            BY DEF DemoInit, Steps, Answers
        <3> QED
            BY <3>1, <3>2, <3>3 DEF DemoInit, TypeOK
    <2>2. OrderInv
        BY <2>1 DEF DemoInit, OrderInv, SentOids, PastPreflight
    <2>3. DOMAIN ledger = {} /\ Len(ledger) = 0
        <3>1. ledger = <<>>
            BY DEF DemoInit
        <3> QED
            BY <3>1
    <2>4. RecordInv
        <3>1. \A t \in Threads : step[t] = "idle" /\ answer[t] = "none"
            BY DEF DemoInit
        <3>2. evidence = None
            BY DEF DemoInit
        <3> QED
            BY <2>3, <3>1, <3>2 DEF RecordInv, AnswersAreBacked
    <2> QED
        BY <2>2, <2>4 DEF IInv
<1>2. IInv /\ [DemoNext]_demoVars => IInv'
    BY OrderStep, RecordStep DEF IInv, OrderInv
<1> QED
    BY <1>1, <1>2, PTL DEF DemoSpec

\* A run has at most one exchange order, whatever intents are asked for and
\* whatever the exchange or the process loses (OneOrderPerRun).
THEOREM AtMostOneOrder == DemoSpec => []OneOrderPerRun
<1>1. IInv => OneOrderPerRun
    BY DEF IInv, OrderInv, OneOrderPerRun, SentOids
<1> QED
    BY <1>1, DemoInductive, PTL

\* Evidence verifies against a ledger of one entry and names an order the
\* exchange has (EvidenceIsTrue).
THEOREM RecordsAreTrue == DemoSpec => []EvidenceIsTrue
<1>1. IInv => EvidenceIsTrue
    <2>1. ASSUME IInv, evidence # None
          PROVE  ExecutionVerifies /\ evidence.oid \in taken
        <3>1. ledger = <<evidence>>
            BY <2>1 DEF IInv, RecordInv
        <3>2. 1 \in DOMAIN ledger /\ ledger[1] = evidence
            BY <3>1
        <3>3. ExecutionVerifies
            BY <2>1, <3>2 DEF ExecutionVerifies, EntryMatches
        <3> QED
            BY <2>1, <3>2, <3>3 DEF IInv, RecordInv
    <2> QED
        BY <2>1 DEF IInv, RecordInv, EvidenceIsTrue
<1> QED
    BY <1>1, DemoInductive, PTL

\* A caller that is told its order stands reads of exactly its order, and of
\* the approval it came with: another intent for the same run, whoever sent
\* it, is never taken for its own (AnswersAreBacked).
THEOREM AnswersAreTrue == DemoSpec => []AnswersAreBacked
<1>1. IInv => AnswersAreBacked
    BY DEF IInv, RecordInv
<1> QED
    BY <1>1, DemoInductive, PTL

=============================================================================

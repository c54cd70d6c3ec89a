------------------------- MODULE TenantAccessProofs -------------------------
(***************************************************************************)
(* Theorems about TenantAccess, for any customers, credentials, roles,     *)
(* corpora and number of requests at once.                                 *)
(***************************************************************************)
EXTENDS TenantAccess, TLAPS

FitRuns == {q \in RunType : Fits(q)}

-----------------------------------------------------------------------------
(* Type correctness *)

LEMMA IdleFits ==
    ASSUME NEW report \in {"none", "deleted", "reset"}
    PROVE  Idle \in FitRuns /\ [Idle EXCEPT !.report = report] \in FitRuns
BY DEF Idle, FitRuns, Fits, RunType, Operations, Principals

\* A request replaced by one that fits leaves every request fitting.
LEMMA FitStep ==
    ASSUME run \in [Requests -> FitRuns], NEW r \in Requests, NEW q \in FitRuns,
           run' = [run EXCEPT ![r] = q]
    PROVE  run' \in [Requests -> FitRuns]
OBVIOUS

LEMMA RunsAreFit == TypeOK => run \in [Requests -> FitRuns]
BY DEF TypeOK, FitRuns

\* A request that ends, or goes on to the next step of its operation, fits.
LEMMA EndFits ==
    ASSUME run \in [Requests -> FitRuns], NEW r \in Requests,
           \/ End(r)
           \/ \E report \in {"deleted", "reset"} : EndWith(r, report)
    PROVE  run' \in [Requests -> FitRuns]
<1>1. ASSUME End(r) PROVE run' \in [Requests -> FitRuns]
  BY <1>1, IdleFits, FitStep DEF End
<1>2. ASSUME NEW report \in {"deleted", "reset"}, EndWith(r, report)
      PROVE  run' \in [Requests -> FitRuns]
  <2> DEFINE q == [Idle EXCEPT !.report = report]
  <2>1. q \in FitRuns
    BY IdleFits
  <2> HIDE DEF q
  <2> QED
    BY <1>2, <2>1, FitStep DEF EndWith, q
<1> QED
  BY <1>1, <1>2

LEMMA GotoFits ==
    ASSUME run \in [Requests -> FitRuns], NEW r \in Requests,
           NEW step \in {"resolved", "creating", "counted", "regranting"}, Goto(r, step),
           run[r].step # "idle",
           step = "resolved" => run[r].op # "create",
           step = "creating" => run[r].op \in {"create", "write", "reset"} /\ run[r].cred = Operator,
           step = "counted" => run[r].op \in {"erase", "reset"},
           step = "regranting" => run[r].op = "reset"
    PROVE  run' \in [Requests -> FitRuns]
<1>1. run[r] \in RunType /\ Fits(run[r])
  BY DEF FitRuns
<1>2. [run[r] EXCEPT !.step = step] \in FitRuns
  BY <1>1 DEF FitRuns, Fits, RunType
<1> QED
  BY <1>2 DEF Goto

LEMMA InitTypeOK == Init => TypeOK
<1> SUFFICES ASSUME Init PROVE TypeOK
  OBVIOUS
<1>1. run \in [Requests -> FitRuns]
  BY IdleFits DEF Init
<1> QED
  BY <1>1 DEF Init, TypeOK, FitRuns, PERMISSIONS

LEMMA NextTypeOK == TypeOK /\ [Next]_vars => TypeOK'
<1> SUFFICES ASSUME TypeOK, [Next]_vars PROVE TypeOK'
  OBVIOUS
<1> DEFINE RunsOK == run \in [Requests -> FitRuns]
           RowsOK ==
             /\ corpora \subseteq Corpora
             /\ grants \subseteq Credentials \X Corpora
             /\ standing \in [Credentials -> {"unissued", "live", "revoked"}]
             /\ role \in [Credentials -> DOMAIN PERMISSIONS]
             /\ content \in [Corpora -> SUBSET Principals]
           BooksOK ==
             /\ clients \subseteq ClientType
             /\ served \in Nat
             /\ touched \subseteq Credentials \X Corpora
             /\ gone \subseteq Requests
             /\ disturbed \subseteq Requests
<1>0. RunsOK /\ RowsOK /\ BooksOK
  BY RunsAreFit DEF TypeOK
<1>t. ASSUME RunsOK', RowsOK', BooksOK' PROVE TypeOK'
  <2>1. run' \in [Requests -> RunType] /\ \A r \in Requests : Fits(run[r])'
    BY <1>t DEF FitRuns, Fits
  <2> QED
    BY <1>t, <2>1 DEF TypeOK
<1>r. \A r \in Requests : run[r] \in RunType /\ Fits(run[r])
  BY <1>0 DEF FitRuns
<1>s. \A r \in Requests : Touch(r) => touched' \subseteq Credentials \X Corpora
  BY <1>0, <1>r DEF Touch, Unrestricted, RunType, Principals
<1>d. \A r \in Requests : \A names : Disturb(r, names) => disturbed' \subseteq Requests
  BY <1>0 DEF Disturb
<1>1. ASSUME NEW r \in Requests, Authenticate(r) PROVE TypeOK'
  <2>1. PICK p \in Principals, op \in Operations, names \in SUBSET Corpora, t \in Principals,
             scope \in SUBSET Corpora :
          /\ op = "reset" => p = Operator
          /\ IF op = "revoke" THEN names = {} ELSE names # {}
          /\ op \notin {"issue", "grant", "ungrant"} => \A c, d \in names : c = d
          /\ IF op \in {"grant", "ungrant", "revoke"} THEN t \in Credentials ELSE t = Operator
          /\ op = "grant" => Handed(p, t, names)
          /\ run' = [run EXCEPT ![r] = Begun(p, op, names, t, scope)]
    <3>1. PICK p \in Principals, op \in Operations, names \in SUBSET Corpora, t \in Principals :
            /\ op = "reset" => p = Operator
            /\ IF op = "revoke" THEN names = {} ELSE names # {}
            /\ op \notin {"issue", "grant", "ungrant"} => \A c, d \in names : c = d
            /\ IF op \in {"grant", "ungrant", "revoke"} THEN t \in Credentials ELSE t = Operator
            /\ op = "grant" => Handed(p, t, names)
            /\ run' = [run EXCEPT ![r] =
                 Begun(p, op, names, t, IF p = Operator THEN {} ELSE Scope(p))]
      BY <1>1 DEF Authenticate
    <3>2. (IF p = Operator THEN {} ELSE Scope(p)) \in SUBSET Corpora
      BY DEF Scope, Held
    <3> QED
      BY <3>1, <3>2
  <2>2. Begun(p, op, names, t, scope) \in FitRuns
    <3>1. Begun(p, op, names, t, scope) \in RunType
      BY DEF Begun, Idle, RunType
    <3>2. Fits(Begun(p, op, names, t, scope))
      BY <2>1 DEF Begun, Idle, Fits, Operations
    <3> QED
      BY <3>1, <3>2 DEF FitRuns
  <2>3. RunsOK'
    BY <1>0, <2>1, <2>2, FitStep
  <2> QED
    BY <1>0, <1>1, <1>t, <2>3 DEF Authenticate, Rows
<1>15. ASSUME NEW r \in Requests, Operate(r) PROVE TypeOK'
  <2>1. PICK k \in clients, op \in {"read", "write"}, c \in Corpora :
          run' = [run EXCEPT ![r] = Begun(k.cred, op, {c}, Operator, k.scope)]
    BY <1>15 DEF Operate
  <2>2. Begun(k.cred, op, {c}, Operator, k.scope) \in FitRuns
    <3>1. k.cred \in Credentials /\ k.scope \in SUBSET Corpora
      BY <1>0 DEF ClientType
    <3> QED
      BY <3>1 DEF Begun, Idle, Fits, FitRuns, RunType, Operations, Principals
  <2>3. RunsOK'
    BY <1>0, <2>1, <2>2, FitStep
  <2> QED
    BY <1>0, <1>15, <1>t, <2>3 DEF Operate, Rows
<1>16. ASSUME Open PROVE TypeOK'
  <2>1. PICK p \in Credentials : clients' = clients \cup {[cred |-> p, scope |-> Scope(p)]}
    BY <1>16 DEF Open
  <2>2. Scope(p) \in SUBSET Corpora
    BY DEF Scope, Held
  <2>3. clients' \subseteq ClientType
    BY <1>0, <2>1, <2>2 DEF ClientType
  <2> QED
    BY <1>0, <1>16, <1>t, <2>3 DEF Open, Rows
<1>2. ASSUME NEW r \in Requests, Refuse(r) \/ Abandon(r) PROVE TypeOK'
  <2>1. RunsOK'
    BY <1>0, <1>2, EndFits DEF Refuse, Abandon
  <2> QED
    BY <1>0, <1>2, <1>t, <2>1 DEF Refuse, Abandon, Rows
<1>3. ASSUME NEW r \in Requests, Resolve(r) PROVE TypeOK'
  <2> DEFINE held == UNION {Holders(c) : c \in run[r].what}
             keep == IF run[r].op = "reset" THEN held ELSE {}
             q == [run[r] EXCEPT !.step = "resolved", !.kept = keep, !.before = keep]
  <2>1. keep \in SUBSET Credentials /\ (run[r].op # "reset" => keep = {})
    BY DEF Holders
  <2>2. run' = [run EXCEPT ![r].step = "resolved", ![r].kept = keep, ![r].before = keep]
    BY <1>3 DEF Resolve
  <2> HIDE DEF keep
  <2>3. run' = [run EXCEPT ![r] = q]
    BY <1>0, <1>r, <2>2 DEF RunType
  <2>4. q \in FitRuns
    <3>1. /\ run[r] \in RunType /\ Fits(run[r])
          /\ run[r].step = "authenticated" /\ run[r].op # "create"
      BY <1>3, <1>r DEF Resolve
    <3> QED
      BY <2>1, <3>1 DEF RunType, FitRuns, Fits
  <2>5. RunsOK'
    BY <1>0, <2>3, <2>4, FitStep
  <2> QED
    BY <1>0, <1>3, <1>t, <2>5 DEF Resolve, Rows
<1>4. ASSUME NEW r \in Requests, ResolveFree(r) PROVE TypeOK'
  <2>1. RunsOK'
    BY <1>0, <1>4, GotoFits DEF ResolveFree, Unrestricted
  <2> QED
    BY <1>0, <1>4, <1>t, <2>1 DEF ResolveFree, Rows
<1>5. ASSUME NEW r \in Requests, Count(r) PROVE TypeOK'
  <2>1. RunsOK'
    BY <1>0, <1>5, GotoFits, EndFits DEF Count
  <2> QED
    BY <1>0, <1>5, <1>t, <2>1 DEF Count, Rows
<1>6. ASSUME NEW r \in Requests, Read(r) PROVE TypeOK'
  <2>1. RunsOK'
    BY <1>0, <1>6, EndFits DEF Read
  <2> QED
    BY <1>0, <1>6, <1>s, <1>t, <2>1 DEF Read, Rows
<1>7. ASSUME NEW r \in Requests, Write(r) PROVE TypeOK'
  <2>1. RunsOK'
    BY <1>0, <1>7, EndFits DEF Write
  <2>2. content' \in [Corpora -> SUBSET Principals]
    BY <1>0, <1>7, <1>r DEF Write, RunType
  <2> QED
    BY <1>0, <1>7, <1>s, <1>t, <2>1, <2>2 DEF Write
<1>8. ASSUME NEW r \in Requests, CreateCorpus(r) PROVE TypeOK'
  <2>1. /\ run[r].step = "creating" /\ run[r].cred = Operator
        /\ run[r].op \in {"create", "write", "reset"} /\ run[r].what \subseteq Corpora
    BY <1>8, <1>r DEF CreateCorpus, Fits, RunType
  <2>2. RunsOK'
    <3>1. \/ End(r) \/ (run[r].op = "write" /\ Goto(r, "resolved"))
          \/ (run[r].op = "reset" /\ Goto(r, "regranting"))
      BY <1>8, <2>1 DEF CreateCorpus
    <3> QED
      BY <1>0, <2>1, <3>1, GotoFits, EndFits
  <2>3. corpora' \subseteq Corpora /\ disturbed' \subseteq Requests
    BY <1>0, <1>8, <1>d, <2>1 DEF CreateCorpus
  <2> QED
    BY <1>0, <1>8, <1>t, <2>2, <2>3 DEF CreateCorpus
<1>9. ASSUME NEW r \in Requests, Erase(r) PROVE TypeOK'
  <2>1. RunsOK'
    BY <1>0, <1>9, <1>r, GotoFits, EndFits DEF Erase, Fits
  <2>2. content' \in [Corpora -> SUBSET Principals]
    BY <1>0, <1>9 DEF Erase
  <2>3. gone' \subseteq Requests
    BY <1>0, <1>9 DEF Erase, Bereft
  <2> QED
    BY <1>0, <1>9, <1>d, <1>s, <1>t, <2>1, <2>2, <2>3 DEF Erase
<1>10. ASSUME NEW r \in Requests, Regrant(r) PROVE TypeOK'
  <2>1. RunsOK'
    BY <1>0, <1>10, EndFits DEF Regrant
  <2>2. grants' \subseteq Credentials \X Corpora
    BY <1>0, <1>10, <1>r DEF Regrant, RunType
  <2> QED
    BY <1>0, <1>10, <1>d, <1>t, <2>1, <2>2 DEF Regrant
<1>11. ASSUME NEW r \in Requests, Issue(r) PROVE TypeOK'
  <2>1. RunsOK'
    BY <1>0, <1>11, EndFits DEF Issue
  <2>2. PICK p \in Credentials, as \in Roles :
          /\ standing' = [standing EXCEPT ![p] = "live"]
          /\ role' = [role EXCEPT ![p] = as]
          /\ grants' = grants \cup ({p} \X run[r].what)
          /\ Disturb(r, run[r].what)
    BY <1>11 DEF Issue
  <2>3. RowsOK'
    BY <1>0, <1>11, <1>r, <2>2, TenantAssumption DEF Issue, RunType
  <2> QED
    BY <1>0, <1>11, <1>d, <1>t, <2>1, <2>2, <2>3 DEF Issue
<1>12. ASSUME NEW r \in Requests, Grant(r) \/ Ungrant(r) PROVE TypeOK'
  <2>1. RunsOK'
    BY <1>0, <1>12, EndFits DEF Grant, Ungrant
  <2>2. grants' \subseteq Credentials \X Corpora
    BY <1>0, <1>12, <1>r DEF Grant, Ungrant, RunType, Fits
  <2> QED
    BY <1>0, <1>12, <1>d, <1>t, <2>1, <2>2 DEF Grant, Ungrant
<1>13. ASSUME NEW r \in Requests, Revoke(r) PROVE TypeOK'
  <2>1. RunsOK'
    BY <1>0, <1>13, EndFits DEF Revoke
  <2>2. standing' \in [Credentials -> {"unissued", "live", "revoked"}]
    BY <1>0, <1>13 DEF Revoke
  <2> QED
    BY <1>0, <1>13, <1>t, <2>1, <2>2 DEF Revoke
<1>14. ASSUME UNCHANGED vars PROVE TypeOK'
  BY <1>0, <1>14, <1>t DEF vars
<1> QED
  BY <1>1, <1>2, <1>3, <1>4, <1>5, <1>6, <1>7, <1>8, <1>9, <1>10, <1>11, <1>12, <1>13,
     <1>14, <1>15, <1>16 DEF Next, Step

\* Every state is well typed, whatever the instance, and every request is at a
\* step its operation has and carries what it was let in with.
THEOREM TypeCorrect == Spec => []TypeOK
BY InitTypeOK, NextTypeOK, PTL DEF Spec

-----------------------------------------------------------------------------
(* Customers are isolated *)

\* What a request may still do stays what its principal could reach when it was
\* let in: nothing that is granted, ungranted or revoked meanwhile widens it.  A
\* reset carries the holders of its corpus, who may all reach it.
InScope(q) ==
    /\ q.cred # Operator =>
         /\ standing[q.cred] # "unissued"
         /\ q.scope \subseteq Owned[Tenant[q.cred]]
         /\ q.step # "authenticated" => q.what \subseteq q.scope
         /\ q.step = "resolved" /\ q.op = "write" => "write" \in PERMISSIONS[role[q.cred]]
    /\ \A p \in q.kept, c \in q.what : c \in Owned[Tenant[p]]

RunsInScope == \A r \in Requests : InScope(run[r])

\* So does what a client that was constructed once begins later.
ClientsInScope ==
    \A k \in clients : standing[k.cred] # "unissued" /\ k.scope \subseteq Owned[Tenant[k.cred]]

\* Roles are fixed when a credential is issued, so a writer's role is settled.
WritersAreIssued ==
    \A c \in Corpora : \A p \in content[c] \ {Operator} : standing[p] # "unissued"

IsolationInv ==
    TypeOK /\ RunsInScope /\ ClientsInScope /\ WritersAreIssued /\ CustomersAreIsolated

\* No step takes a credential back to what it was before it was issued, or gives
\* an issued one another role.
LEMMA IssuedOnce ==
    ASSUME TypeOK, [Next]_vars, NEW p \in Credentials, standing[p] # "unissued"
    PROVE  standing'[p] # "unissued" /\ role'[p] = role[p]
<1>1. standing \in [Credentials -> {"unissued", "live", "revoked"}] /\ DOMAIN role = Credentials
  BY DEF TypeOK
<1>2. ASSUME NEW r \in Requests, Issue(r) PROVE standing'[p] # "unissued" /\ role'[p] = role[p]
  BY <1>1, <1>2 DEF Issue
<1>3. ASSUME NEW r \in Requests, Revoke(r) PROVE standing'[p] # "unissued" /\ role'[p] = role[p]
  BY <1>1, <1>3 DEF Revoke
<1>4. ASSUME \A r \in Requests : ~Issue(r) /\ ~Revoke(r)
      PROVE  standing' = standing /\ role' = role
  <2>1. ASSUME Open \/ \E r \in Requests : Authenticate(r) \/ Operate(r)
        PROVE  standing' = standing /\ role' = role
    BY <2>1 DEF Authenticate, Operate, Open, Rows
  <2>2. ASSUME NEW r \in Requests, Step(r) PROVE standing' = standing /\ role' = role
    BY <1>4, <2>2 DEF Step, Rows, Refuse, Resolve, ResolveFree, Read, Write, CreateCorpus,
                      Count, Erase, Regrant, Grant, Ungrant, Abandon
  <2> QED
    BY <2>1, <2>2 DEF Next, vars
<1> QED
  BY <1>2, <1>3, <1>4

LEMMA InScopeStays ==
    ASSUME TypeOK, [Next]_vars, NEW q \in RunType, InScope(q)
    PROVE  InScope(q)'
<1>1. q.cred # Operator => q.cred \in Credentials
  BY DEF RunType, Principals
<1> QED
  BY <1>1, IssuedOnce DEF InScope

LEMMA IdleInScope ==
    ASSUME NEW report
    PROVE  InScope(Idle)' /\ InScope([Idle EXCEPT !.report = report])'
BY DEF InScope, Idle

\* What one request leaves, when what it leaves is in scope.
LEMMA RunsInScopeStep ==
    ASSUME TypeOK, [Next]_vars, RunsInScope, NEW r \in Requests,
           \/ End(r) \/ \E report : EndWith(r, report)
           \/ \E q : run' = [run EXCEPT ![r] = q] /\ InScope(q)'
    PROVE  RunsInScope'
<1>1. run \in [Requests -> FitRuns] /\ \A s \in Requests : run[s] \in RunType
  BY RunsAreFit DEF FitRuns
<1>2. PICK q : run' = [run EXCEPT ![r] = q] /\ InScope(q)'
  BY IdleInScope DEF End, EndWith
<1>3. \A s \in Requests : InScope(run[s])'
  <2> SUFFICES ASSUME NEW s \in Requests PROVE InScope(run[s])'
    OBVIOUS
  <2>1. CASE s = r
    <3>1. run'[s] = q
      BY <1>1, <1>2, <2>1
    <3> QED
      BY <1>2, <3>1 DEF InScope
  <2>2. CASE s # r
    <3>1. run'[s] = run[s]
      BY <1>1, <1>2, <2>2
    <3>2. \A x \in RunType : InScope(x) => InScope(x)'
      BY InScopeStays
    <3>3. InScope(run[s])
      BY DEF RunsInScope
    <3> QED
      BY <1>1, <3>1, <3>2, <3>3 DEF InScope
  <2> QED
    BY <2>1, <2>2
<1> QED
  BY <1>3 DEF RunsInScope

LEMMA GotoInScope ==
    ASSUME TypeOK, [Next]_vars, RunsInScope, NEW r \in Requests, NEW step, Goto(r, step),
           run[r].cred = Operator \/ (run[r].step = "resolved" /\ step = "counted")
    PROVE  RunsInScope'
<1>1. run[r] \in RunType /\ InScope(run[r])
  BY RunsAreFit DEF FitRuns, RunsInScope
<1>2. PICK x \in RunType : x = run[r] /\ InScope(x)
  BY <1>1
<1>3. InScope(x)'
  BY <1>2, InScopeStays
<1>4. InScope([x EXCEPT !.step = step])'
  BY <1>2, <1>3 DEF RunType, InScope
<1>5. run' = [run EXCEPT ![r] = [x EXCEPT !.step = step]]
  BY <1>2 DEF Goto
<1> QED
  BY <1>4, <1>5, RunsInScopeStep

\* Only the construction of a client adds to what clients hold.
LEMMA ClientsAreOpened == [Next]_vars /\ ~Open => clients' = clients
<1>1. ASSUME NEW r \in Requests, Authenticate(r) \/ Operate(r) \/ Step(r) PROVE clients' = clients
  BY <1>1 DEF Authenticate, Operate, Step, Refuse, Resolve, ResolveFree, Read, Write, CreateCorpus,
              Count, Erase, Regrant, Issue, Grant, Ungrant, Revoke, Abandon
<1> QED
  BY <1>1 DEF Next, vars

LEMMA NextRunsInScope == IsolationInv /\ [Next]_vars => RunsInScope'
<1> SUFFICES ASSUME IsolationInv, [Next]_vars PROVE RunsInScope'
  OBVIOUS
<1>0. /\ TypeOK /\ RunsInScope /\ ClientsInScope /\ CustomersAreIsolated
      /\ \A r \in Requests : run[r] \in RunType /\ Fits(run[r])
  BY RunsAreFit DEF IsolationInv, FitRuns
\* A request begun with a scope that is in order now is in order.
<1>b. ASSUME NEW r \in Requests, NEW p \in Principals, NEW op, NEW names, NEW t, NEW scope,
             run' = [run EXCEPT ![r] = Begun(p, op, names, t, scope)],
             p # Operator => standing[p] # "unissued" /\ scope \subseteq Owned[Tenant[p]]
      PROVE  RunsInScope'
  <2>1. PICK q : q = Begun(p, op, names, t, scope)
    OBVIOUS
  <2>2. InScope(q)'
    <3>1. /\ q.cred = p /\ q.step = "authenticated" /\ q.kept = {} /\ q.scope = scope
      BY <2>1 DEF Begun, Idle
    <3>2. p # Operator => standing'[p] # "unissued"
      BY <1>0, <1>b, IssuedOnce DEF Principals
    <3> QED
      BY <1>b, <3>1, <3>2 DEF InScope
  <2> QED
    BY <1>0, <1>b, <2>1, <2>2, RunsInScopeStep
<1>1. ASSUME NEW r \in Requests, Authenticate(r) PROVE RunsInScope'
  <2>1. PICK p, op, names, t, scope :
          /\ p \in Principals
          /\ p # Operator => Scope(p) # {} /\ scope = Scope(p)
          /\ run' = [run EXCEPT ![r] = Begun(p, op, names, t, scope)]
    BY <1>1 DEF Authenticate
  <2>2. ASSUME p # Operator
        PROVE  standing[p] # "unissued" /\ scope \subseteq Owned[Tenant[p]]
    <3>1. p \in Credentials /\ standing[p] = "live" /\ scope = Held(p)
      BY <2>1, <2>2 DEF Principals, Scope
    <3>2. Held(p) \subseteq Owned[Tenant[p]]
      BY <1>0 DEF Held, CustomersAreIsolated
    <3> QED
      BY <3>1, <3>2
  <2> QED
    BY <1>b, <2>1, <2>2
<1>9. ASSUME NEW r \in Requests, Operate(r) PROVE RunsInScope'
  <2>1. PICK k \in clients, op \in {"read", "write"}, c \in Corpora :
          run' = [run EXCEPT ![r] = Begun(k.cred, op, {c}, Operator, k.scope)]
    BY <1>9 DEF Operate
  <2>2. k.cred \in Principals
    BY <1>0 DEF TypeOK, ClientType, Principals
  <2> QED
    BY <1>0, <1>b, <2>1, <2>2 DEF ClientsInScope
<1>2. ASSUME NEW r \in Requests, Resolve(r) PROVE RunsInScope'
  <2>1. PICK x \in RunType : x = run[r] /\ InScope(x) /\ Fits(x)
    BY <1>0 DEF RunsInScope
  <2>2. PICK keep : keep = IF x.op = "reset" THEN UNION {Holders(c) : c \in x.what} ELSE {}
    OBVIOUS
  <2>3. \A p \in keep, c \in x.what : c \in Owned[Tenant[p]]
    <3> SUFFICES ASSUME NEW p \in keep, NEW c \in x.what PROVE c \in Owned[Tenant[p]]
      OBVIOUS
    <3>1. x.op = "reset" /\ \E d \in x.what : p \in Holders(d)
      BY <2>2
    <3>2. <<p, c>> \in grants
      BY <2>1, <3>1 DEF Fits, Holders
    <3> QED
      BY <1>0, <3>2 DEF CustomersAreIsolated
  <2>4. x.cred # Operator =>
          /\ x.what \subseteq x.scope
          /\ x.op = "write" => "write" \in PERMISSIONS[role[x.cred]]
    BY <1>2, <2>1 DEF Resolve, Admitted, Permitted, Allows, Can, Unrestricted
  <2>5. PICK q : q = [x EXCEPT !.step = "resolved", !.kept = keep, !.before = keep]
    OBVIOUS
  <2>6. InScope(q)'
    <3>1. InScope(x)'
      BY <1>0, <2>1, InScopeStays
    <3>2. x.cred # Operator => x.cred \in Credentials
      BY DEF RunType, Principals
    <3>3. x.cred # Operator /\ x.op = "write" => "write" \in PERMISSIONS[role'[x.cred]]
      BY <1>0, <2>1, <2>4, <3>2, IssuedOnce DEF InScope
    <3>4. /\ q.cred = x.cred /\ q.scope = x.scope /\ q.what = x.what /\ q.op = x.op
          /\ q.kept = keep
      BY <2>5 DEF RunType
    <3> QED
      BY <2>3, <2>4, <3>1, <3>3, <3>4 DEF InScope
  <2>7. run' = [run EXCEPT ![r] = q]
    <3>1. run' = [run EXCEPT ![r].step = "resolved", ![r].kept = keep, ![r].before = keep]
      BY <1>2, <2>1, <2>2 DEF Resolve
    <3>2. run \in [Requests -> RunType]
      BY RunsAreFit, <1>0 DEF FitRuns
    <3> QED
      BY <2>1, <2>5, <3>1, <3>2 DEF RunType
  <2> QED
    BY <1>0, <2>6, <2>7, RunsInScopeStep
<1>3. ASSUME NEW r \in Requests, ResolveFree(r) PROVE RunsInScope'
  BY <1>0, <1>3, GotoInScope DEF ResolveFree, Unrestricted
<1>4. ASSUME NEW r \in Requests, Count(r) PROVE RunsInScope'
  <2>1. Goto(r, "counted") \/ End(r)
    BY <1>4 DEF Count
  <2> QED
    BY <1>0, <1>4, <2>1, GotoInScope, RunsInScopeStep DEF Count
<1>5. ASSUME NEW r \in Requests, CreateCorpus(r) PROVE RunsInScope'
  <2>1. /\ run[r].cred = Operator
        /\ End(r) \/ \E step : Goto(r, step)
    BY <1>0, <1>5 DEF CreateCorpus, Fits
  <2> QED
    BY <1>0, <2>1, GotoInScope, RunsInScopeStep
<1>6. ASSUME NEW r \in Requests, Erase(r) PROVE RunsInScope'
  <2>1. \/ run[r].cred = Operator /\ Goto(r, "creating")
        \/ EndWith(r, "deleted")
    BY <1>0, <1>6 DEF Erase, Fits
  <2> QED
    BY <1>0, <2>1, GotoInScope, RunsInScopeStep
<1>7. ASSUME NEW r \in Requests,
             \/ Refuse(r) \/ Read(r) \/ Write(r) \/ Regrant(r) \/ Issue(r) \/ Grant(r)
             \/ Ungrant(r) \/ Revoke(r) \/ Abandon(r)
      PROVE  RunsInScope'
  <2>1. End(r) \/ EndWith(r, "reset")
    BY <1>7 DEF Refuse, Read, Write, Regrant, Issue, Grant, Ungrant, Revoke, Abandon
  <2> QED
    BY <1>0, <2>1, RunsInScopeStep
<1>8. ASSUME Open \/ UNCHANGED vars PROVE RunsInScope'
  BY <1>0, <1>8 DEF Open, Rows, vars, RunsInScope, InScope
<1> QED
  BY <1>1, <1>2, <1>3, <1>4, <1>5, <1>6, <1>7, <1>8, <1>9 DEF Next, Step

LEMMA NextClientsInScope == IsolationInv /\ [Next]_vars => ClientsInScope'
<1> SUFFICES ASSUME IsolationInv, [Next]_vars, NEW k \in clients'
             PROVE  standing'[k.cred] # "unissued" /\ k.scope \subseteq Owned[Tenant[k.cred]]
  BY DEF ClientsInScope
<1>0. /\ TypeOK /\ ClientsInScope /\ CustomersAreIsolated
      /\ clients \subseteq ClientType
  BY DEF IsolationInv, TypeOK
<1>1. /\ k.cred \in Credentials /\ standing[k.cred] # "unissued"
      /\ k.scope \subseteq Owned[Tenant[k.cred]]
  <2>1. CASE k \in clients
    BY <1>0, <2>1 DEF ClientsInScope, ClientType
  <2>2. CASE Open /\ k \notin clients
    <3>1. PICK p \in Credentials : Scope(p) # {} /\ k = [cred |-> p, scope |-> Scope(p)]
      BY <2>2 DEF Open
    <3>2. standing[p] = "live" /\ Scope(p) = Held(p)
      BY <3>1 DEF Scope
    <3>3. Held(p) \subseteq Owned[Tenant[p]]
      BY <1>0 DEF Held, CustomersAreIsolated
    <3> QED
      BY <3>1, <3>2, <3>3
  <2>3. ASSUME ~Open PROVE clients' = clients
    BY <2>3, ClientsAreOpened
  <2> QED
    BY <2>1, <2>2, <2>3
<1> QED
  BY <1>0, <1>1, IssuedOnce

LEMMA NextIsolated ==
    IsolationInv /\ [Next]_vars => WritersAreIssued' /\ CustomersAreIsolated'
<1> SUFFICES ASSUME IsolationInv, [Next]_vars PROVE WritersAreIssued' /\ CustomersAreIsolated'
  OBVIOUS
<1> DEFINE Reach(S)  == \A g \in S : g[2] \in Owned[Tenant[g[1]]]
           Writes(W) == \A c \in Corpora : \A p \in W[c] \ {Operator} :
                          /\ standing[p] # "unissued"
                          /\ c \in Owned[Tenant[p]] /\ "write" \in PERMISSIONS[role[p]]
<1>0. /\ TypeOK /\ RunsInScope
      /\ \A r \in Requests : run[r] \in RunType /\ Fits(run[r]) /\ InScope(run[r])
      /\ content \in [Corpora -> SUBSET Principals]
  BY RunsAreFit DEF IsolationInv, FitRuns, RunsInScope, TypeOK
<1>1. Reach(grants) /\ Reach(touched) /\ Writes(content)
  BY DEF IsolationInv, CustomersAreIsolated, WritersAreIssued
\* It is enough that what is added now is in order now.
<1>2. ASSUME Reach(grants'), Reach(touched'), Writes(content'),
             content' \in [Corpora -> SUBSET Principals]
      PROVE  WritersAreIssued' /\ CustomersAreIsolated'
  <2>1. \A c \in Corpora : \A p \in content'[c] \ {Operator} :
          /\ standing'[p] # "unissued"
          /\ c \in Owned[Tenant[p]] /\ "write" \in PERMISSIONS[role'[p]]
    <3> SUFFICES ASSUME NEW c \in Corpora, NEW p \in content'[c] \ {Operator}
                 PROVE  /\ standing'[p] # "unissued"
                        /\ c \in Owned[Tenant[p]] /\ "write" \in PERMISSIONS[role'[p]]
      OBVIOUS
    <3>1. p \in Credentials /\ standing[p] # "unissued"
      BY <1>2 DEF Principals
    <3> QED
      BY <1>0, <1>2, <3>1, IssuedOnce
  <2> QED
    BY <1>2, <2>1 DEF WritersAreIssued, CustomersAreIsolated
<1>3. ASSUME NEW r \in Requests, Touch(r), run[r].step # "authenticated"
      PROVE  Reach(touched')
  BY <1>0, <1>1, <1>3 DEF Touch, Unrestricted, InScope
<1> HIDE DEF Reach, Writes
<1>4. ASSUME grants' = grants, content' = content, touched' = touched
      PROVE  WritersAreIssued' /\ CustomersAreIsolated'
  BY <1>0, <1>1, <1>2, <1>4
<1>5. ASSUME NEW r \in Requests, Authenticate(r) \/ Operate(r)
      PROVE  WritersAreIssued' /\ CustomersAreIsolated'
  BY <1>4, <1>5 DEF Authenticate, Operate, Rows
<1>6. ASSUME NEW r \in Requests,
             \/ Refuse(r) \/ Resolve(r) \/ ResolveFree(r) \/ CreateCorpus(r) \/ Count(r)
             \/ Revoke(r) \/ Abandon(r)
      PROVE  WritersAreIssued' /\ CustomersAreIsolated'
  BY <1>4, <1>6 DEF Refuse, Resolve, ResolveFree, CreateCorpus, Count, Revoke, Abandon, Rows
<1>7. ASSUME NEW r \in Requests, Read(r) PROVE WritersAreIssued' /\ CustomersAreIsolated'
  <2>1. Reach(touched') /\ grants' = grants /\ content' = content
    BY <1>3, <1>7 DEF Read, Rows
  <2> QED
    BY <1>0, <1>1, <1>2, <2>1
<1>8. ASSUME NEW r \in Requests, Write(r) PROVE WritersAreIssued' /\ CustomersAreIsolated'
  <2>1. Reach(touched') /\ grants' = grants
    BY <1>3, <1>8 DEF Write
  <2>2. /\ content' \in [Corpora -> SUBSET Principals]
        /\ \A c \in Corpora : content'[c] \subseteq content[c] \cup {run[r].cred}
        /\ \A c \in Corpora \ run[r].what : content'[c] = content[c]
    BY <1>0, <1>8 DEF Write, RunType
  <2>3. run[r].cred # Operator =>
          /\ standing[run[r].cred] # "unissued"
          /\ run[r].what \subseteq Owned[Tenant[run[r].cred]]
          /\ "write" \in PERMISSIONS[role[run[r].cred]]
    BY <1>0, <1>8 DEF Write, InScope
  <2>4. Writes(content')
    BY <1>1, <2>2, <2>3 DEF Writes
  <2> QED
    BY <1>1, <1>2, <2>1, <2>2, <2>4
<1>9. ASSUME NEW r \in Requests, Erase(r) PROVE WritersAreIssued' /\ CustomersAreIsolated'
  <2>1. Reach(touched') /\ Reach(grants')
    BY <1>1, <1>3, <1>9 DEF Erase, Reach
  <2>2. /\ content' \in [Corpora -> SUBSET Principals]
        /\ \A c \in Corpora : content'[c] \subseteq content[c]
    BY <1>0, <1>9 DEF Erase
  <2>3. Writes(content')
    BY <1>1, <2>2 DEF Writes
  <2> QED
    BY <1>2, <2>1, <2>2, <2>3
<1>10. ASSUME NEW r \in Requests, Regrant(r) PROVE WritersAreIssued' /\ CustomersAreIsolated'
  <2>1. grants' \subseteq grants \cup (run[r].kept \X run[r].what)
    BY <1>10 DEF Regrant
  <2>2. Reach(grants')
    BY <1>0, <1>1, <2>1 DEF InScope, Reach
  <2> QED
    BY <1>0, <1>1, <1>2, <1>10, <2>2 DEF Regrant
<1>11. ASSUME NEW r \in Requests, Issue(r) PROVE WritersAreIssued' /\ CustomersAreIsolated'
  <2>1. PICK p \in Credentials : /\ Handed(run[r].cred, p, run[r].what)
                                 /\ grants' = grants \cup ({p} \X run[r].what)
    BY <1>11 DEF Issue
  <2>2. run[r].what \subseteq Owned[Tenant[p]]
    BY <1>0, <1>11, <2>1 DEF Issue, InScope, Handed
  <2>3. Reach(grants')
    BY <1>1, <2>1, <2>2 DEF Reach
  <2> QED
    BY <1>0, <1>1, <1>2, <1>11, <2>3 DEF Issue
<1>12. ASSUME NEW r \in Requests, Grant(r) PROVE WritersAreIssued' /\ CustomersAreIsolated'
  <2>1. run[r].what \subseteq Owned[Tenant[run[r].target]]
    BY <1>0, <1>12 DEF Grant, InScope, Handed, Fits
  <2>2. Reach(grants')
    BY <1>1, <1>12, <2>1 DEF Grant, Reach
  <2> QED
    BY <1>0, <1>1, <1>2, <1>12, <2>2 DEF Grant
<1>13. ASSUME NEW r \in Requests, Ungrant(r) PROVE WritersAreIssued' /\ CustomersAreIsolated'
  <2>1. Reach(grants')
    BY <1>1, <1>13 DEF Ungrant, Reach
  <2> QED
    BY <1>0, <1>1, <1>2, <1>13, <2>1 DEF Ungrant
<1>14. ASSUME UNCHANGED vars PROVE WritersAreIssued' /\ CustomersAreIsolated'
  BY <1>4, <1>14 DEF vars
<1> QED
  <2>1. CASE Open
    BY <1>4, <2>1 DEF Open, Rows
  <2> QED
    BY <1>5, <1>6, <1>7, <1>8, <1>9, <1>10, <1>11, <1>12, <1>13, <1>14, <2>1 DEF Next, Step

\* Whatever is issued, granted, erased, created, reset and revoked, and whichever
\* requests run at once: a credential reaches, and writes to, its own customer's
\* corpora only, and only with a role that writes.
THEOREM CustomersStayIsolated == Spec => []CustomersAreIsolated
<1>1. Init => IsolationInv
  <2> SUFFICES ASSUME Init PROVE IsolationInv
    OBVIOUS
  <2>1. RunsInScope /\ ClientsInScope
    BY DEF Init, RunsInScope, InScope, Idle, ClientsInScope
  <2>2. WritersAreIssued /\ CustomersAreIsolated
    BY DEF Init, WritersAreIssued, CustomersAreIsolated
  <2> QED
    BY <2>1, <2>2, InitTypeOK DEF IsolationInv
<1>2. IsolationInv /\ [Next]_vars => IsolationInv'
  BY NextTypeOK, NextRunsInScope, NextClientsInScope, NextIsolated DEF IsolationInv
<1>3. IsolationInv => CustomersAreIsolated
  BY DEF IsolationInv
<1> QED
  BY <1>1, <1>2, <1>3, PTL DEF Spec

-----------------------------------------------------------------------------
(* What an erasure leaves behind, and what it reports *)

LEMMA NextNothingOutlives ==
    TypeOK /\ NothingOutlivesItsCorpus /\ [Next]_vars => NothingOutlivesItsCorpus'
<1> SUFFICES ASSUME TypeOK, NothingOutlivesItsCorpus, [Next]_vars
             PROVE  NothingOutlivesItsCorpus'
  OBVIOUS
<1>0. /\ content \in [Corpora -> SUBSET Principals]
      /\ \A r \in Requests : run[r] \in RunType
  BY RunsAreFit DEF TypeOK, FitRuns
<1>1. ASSUME grants' \subseteq grants, content' = content, corpora \subseteq corpora'
      PROVE  NothingOutlivesItsCorpus'
  BY <1>1 DEF NothingOutlivesItsCorpus
<1>2. ASSUME Open \/ \E r \in Requests : Authenticate(r) \/ Operate(r)
      PROVE  NothingOutlivesItsCorpus'
  BY <1>1, <1>2 DEF Authenticate, Operate, Open, Rows
<1>3. ASSUME NEW r \in Requests,
             \/ Refuse(r) \/ Resolve(r) \/ ResolveFree(r) \/ Read(r) \/ CreateCorpus(r)
             \/ Count(r) \/ Ungrant(r) \/ Revoke(r) \/ Abandon(r)
      PROVE  NothingOutlivesItsCorpus'
  BY <1>1, <1>3 DEF Refuse, Resolve, ResolveFree, Read, CreateCorpus, Count, Ungrant, Revoke,
                    Abandon, Rows
<1>4. ASSUME NEW r \in Requests, Write(r) PROVE NothingOutlivesItsCorpus'
  BY <1>0, <1>4 DEF Write, NothingOutlivesItsCorpus
<1>5. ASSUME NEW r \in Requests, Erase(r) PROVE NothingOutlivesItsCorpus'
  BY <1>0, <1>5 DEF Erase, NothingOutlivesItsCorpus
\* Whoever adds a grant looks, in the same transaction, whether the corpus is there.
<1>6. ASSUME NEW r \in Requests, Regrant(r) \/ Issue(r) \/ Grant(r)
      PROVE  NothingOutlivesItsCorpus'
  <2>1. \A g \in grants' \ grants : g[2] \in corpora
    BY <1>6 DEF Regrant, Issue, Grant, Existing
  <2>2. corpora' = corpora /\ content' = content
    BY <1>6 DEF Regrant, Issue, Grant
  <2> QED
    BY <2>1, <2>2 DEF NothingOutlivesItsCorpus
<1>7. ASSUME UNCHANGED vars PROVE NothingOutlivesItsCorpus'
  BY <1>1, <1>7 DEF vars
<1> QED
  BY <1>2, <1>3, <1>4, <1>5, <1>6, <1>7 DEF Next, Step

\* Whichever requests run at once: every grant names a corpus that exists, and a
\* corpus that was erased holds nothing, so its name comes back empty and closed.
THEOREM ErasureIsComplete == Spec => []NothingOutlivesItsCorpus
<1>1. Init => TypeOK /\ NothingOutlivesItsCorpus
  BY InitTypeOK DEF Init, NothingOutlivesItsCorpus
<1>2. TypeOK /\ NothingOutlivesItsCorpus /\ [Next]_vars => (TypeOK /\ NothingOutlivesItsCorpus)'
  BY NextTypeOK, NextNothingOutlives
<1> QED
  BY <1>1, <1>2, PTL DEF Spec

\* Between its count and its lock an erasure does not watch the corpus: either the
\* corpus is still there, or somebody else's erasure took it while this one ran.
CountedStands ==
    \A r \in Requests : run[r].step = "counted" /\ run[r].op = "erase"
                          => run[r].what \subseteq corpora \/ r \in gone

ReportInv == TypeOK /\ CountedStands /\ DeletedMeansItWentAway

\* Only the request that acts is changed by a step.
LEMMA OthersUnchanged ==
    ASSUME TypeOK, NEW s \in Requests, Authenticate(s) \/ Operate(s) \/ Step(s),
           NEW r \in Requests \ {s}
    PROVE  run'[r] = run[r]
<1>1. run \in [Requests -> FitRuns]
  BY RunsAreFit
<1>2. ASSUME NEW q, run' = [run EXCEPT ![s] = q] PROVE run'[r] = run[r]
  BY <1>1, <1>2
<1>3. ASSUME End(s) \/ (\E report : EndWith(s, report)) \/ (\E step : Goto(s, step))
      PROVE  run'[r] = run[r]
  BY <1>1, <1>3 DEF End, EndWith, Goto
<1>4. ASSUME Authenticate(s) \/ Operate(s) PROVE run'[r] = run[r]
  BY <1>2, <1>4 DEF Authenticate, Operate
<1>5. ASSUME Resolve(s) PROVE run'[r] = run[r]
  BY <1>1, <1>5 DEF Resolve
<1>6. ASSUME CreateCorpus(s) PROVE run'[r] = run[r]
  <2>1. run[s].op \in {"create", "write", "reset"}
    BY <1>1, <1>6 DEF CreateCorpus, FitRuns, Fits
  <2> QED
    BY <1>3, <1>6, <2>1 DEF CreateCorpus
<1>7. ASSUME Refuse(s) \/ ResolveFree(s) \/ Read(s) \/ Write(s) \/ Count(s) \/ Erase(s)
             \/ Regrant(s) \/ Issue(s) \/ Grant(s) \/ Ungrant(s) \/ Revoke(s) \/ Abandon(s)
      PROVE  run'[r] = run[r]
  BY <1>3, <1>7 DEF Refuse, ResolveFree, Read, Write, Count, Erase, Regrant, Issue, Grant,
                    Ungrant, Revoke, Abandon
<1> QED
  BY <1>4, <1>5, <1>6, <1>7 DEF Step

\* An erasure sees every corpus disappear that it counted.
LEMMA GoneGrows ==
    ASSUME TypeOK, NEW s \in Requests, Authenticate(s) \/ Operate(s) \/ Step(s),
           NEW r \in Requests, r = s => Step(s) /\ ~Authenticate(s) /\ ~Operate(s)
    PROVE  /\ r \in gone => r \in gone'
           /\ run[r].op = "erase" /\ run[r].what \subseteq corpora
                => run[r].what \subseteq corpora' \/ r \in gone'
<1>1. ASSUME Authenticate(s) \/ Operate(s) PROVE r \in gone => r \in gone'
  BY <1>1 DEF Authenticate, Operate
<1>2. ASSUME Erase(s)
      PROVE  /\ r \in gone => r \in gone'
             /\ run[r].op = "erase" /\ run[r].what \subseteq corpora
                  => run[r].what \subseteq corpora' \/ r \in gone'
  <2>1. gone' = gone \cup Bereft(run[s].what) /\ corpora' = corpora \ run[s].what
    BY <1>2 DEF Erase
  <2>2. ASSUME run[r].op = "erase", run[r].what \subseteq corpora, r \notin Bereft(run[s].what)
        PROVE  run[r].what \subseteq corpora'
    BY <2>1, <2>2 DEF Bereft
  <2> QED
    BY <2>1, <2>2
<1>3. ASSUME ~Erase(s) PROVE corpora \subseteq corpora' /\ (Step(s) => gone' = gone)
  BY <1>3 DEF Authenticate, Operate, Step, Rows, Refuse, Resolve, ResolveFree, Read, Write, CreateCorpus,
              Count, Regrant, Issue, Grant, Ungrant, Revoke, Abandon
<1> QED
  BY <1>1, <1>2, <1>3

LEMMA NextReportInv == ReportInv /\ [Next]_vars => ReportInv'
<1> SUFFICES ASSUME ReportInv, [Next]_vars PROVE CountedStands' /\ DeletedMeansItWentAway'
  BY NextTypeOK DEF ReportInv
<1>0. /\ TypeOK /\ CountedStands /\ DeletedMeansItWentAway
      /\ run \in [Requests -> FitRuns]
      /\ \A r \in Requests : run[r] \in RunType /\ Fits(run[r])
  BY RunsAreFit DEF ReportInv, FitRuns
<1> DEFINE Counted(q) == q.step = "counted" /\ q.op = "erase"
           Good(r) == /\ Counted(run[r]) => run[r].what \subseteq corpora \/ r \in gone
                      /\ run[r].report = "deleted" => r \in gone
<1>1. ASSUME NEW s \in Requests, Authenticate(s) \/ Operate(s) \/ Step(s), NEW r \in Requests \ {s}
      PROVE  Good(r)'
  <2>1. run'[r] = run[r]
    BY <1>0, <1>1, OthersUnchanged
  <2>2. /\ r \in gone => r \in gone'
        /\ run[r].op = "erase" /\ run[r].what \subseteq corpora
             => run[r].what \subseteq corpora' \/ r \in gone'
    BY <1>0, <1>1, GoneGrows
  <2> QED
    BY <1>0, <2>1, <2>2 DEF CountedStands, DeletedMeansItWentAway
<1>2. ASSUME NEW r \in Requests, Authenticate(r) \/ Operate(r) PROVE Good(r)'
  <2>1. PICK p, op, names, t, scope : run' = [run EXCEPT ![r] = Begun(p, op, names, t, scope)]
    BY <1>2 DEF Authenticate, Operate
  <2>2. run'[r].step = "authenticated" /\ run'[r].report = "none"
    BY <1>0, <2>1 DEF Begun, Idle
  <2> QED
    BY <2>2
<1>3. ASSUME NEW r \in Requests, Count(r) PROVE Good(r)'
  <2>1. /\ run[r].step = "resolved" /\ corpora' = corpora
        /\ End(r) \/ (Existing(r) /\ Goto(r, "counted"))
    BY <1>3 DEF Count, Rows
  <2>2. run[r].report = "none"
    BY <1>0, <2>1 DEF Fits
  <2> QED
    BY <1>0, <2>1, <2>2 DEF End, Goto, Existing, Idle, FitRuns, RunType
<1>4. ASSUME NEW r \in Requests, Erase(r) PROVE Good(r)'
  <2>1. CASE run[r].op = "reset"
    <3>1. Goto(r, "creating") /\ run[r].report = "none"
      BY <1>0, <1>4, <2>1 DEF Erase, Fits
    <3> QED
      BY <1>0, <3>1 DEF Goto, FitRuns, RunType
  <2>2. CASE run[r].op # "reset"
    <3>1. run[r].op = "erase" /\ run[r].what # {}
      BY <1>0, <1>4, <2>2 DEF Erase, Fits
    <3>2. run[r].what \subseteq corpora \/ r \in gone
      BY <1>0, <1>4, <3>1 DEF Erase, CountedStands
    <3>3. r \in gone'
      BY <1>4, <3>1, <3>2 DEF Erase, Bereft
    <3>4. EndWith(r, "deleted")
      BY <1>4, <2>2 DEF Erase
    <3> QED
      BY <1>0, <3>3, <3>4 DEF EndWith, Idle
  <2> QED
    BY <2>1, <2>2
<1>5. ASSUME NEW r \in Requests, Step(r), ~Count(r), ~Erase(r) PROVE Good(r)'
  <2>1. run'[r].step # "counted" /\ run'[r].report # "deleted"
    <3>1. ASSUME \/ End(r) \/ EndWith(r, "reset")
                 \/ \E step \in {"resolved", "creating", "regranting"} :
                      Goto(r, step) /\ run[r].step # "idle"
          PROVE  run'[r].step # "counted" /\ run'[r].report # "deleted"
      BY <1>0, <3>1 DEF End, EndWith, Goto, Idle, FitRuns, RunType, Fits
    <3>2. ASSUME Resolve(r) PROVE run'[r].step # "counted" /\ run'[r].report # "deleted"
      <4>1. run[r].report = "none"
        BY <1>0, <3>2 DEF Resolve, Fits
      <4> QED
        BY <1>0, <3>2, <4>1 DEF Resolve, FitRuns, RunType
    <3>3. ASSUME CreateCorpus(r) PROVE run'[r].step # "counted" /\ run'[r].report # "deleted"
      <4>1. run[r].op \in {"create", "write", "reset"} /\ run[r].step # "idle"
        BY <1>0, <3>3 DEF CreateCorpus, Fits
      <4> QED
        BY <3>1, <3>3, <4>1 DEF CreateCorpus
    <3>4. ASSUME ~Resolve(r), ~CreateCorpus(r)
          PROVE  run'[r].step # "counted" /\ run'[r].report # "deleted"
      BY <1>5, <3>1, <3>4 DEF Step, Refuse, ResolveFree, Read, Write, Regrant, Issue, Grant,
                              Ungrant, Revoke, Abandon
    <3> QED
      BY <3>2, <3>3, <3>4
  <2> QED
    BY <2>1
<1>6. ASSUME NEW r \in Requests, Open \/ UNCHANGED vars PROVE Good(r)'
  BY <1>0, <1>6 DEF Open, Rows, vars, CountedStands, DeletedMeansItWentAway
<1>7. \A r \in Requests : Good(r)'
  BY <1>1, <1>2, <1>3, <1>4, <1>5, <1>6 DEF Next
<1> QED
  BY <1>7 DEF CountedStands, DeletedMeansItWentAway

\* Whichever requests run at once: an erasure that reports success saw the corpus
\* disappear while it ran, by its own hand or another erasure's.
THEOREM DeletionIsReal == Spec => []DeletedMeansItWentAway
<1>1. Init => ReportInv
  BY InitTypeOK DEF Init, ReportInv, CountedStands, DeletedMeansItWentAway, Idle
<1>2. ReportInv => DeletedMeansItWentAway
  BY DEF ReportInv
<1> QED
  BY <1>1, <1>2, NextReportInv, PTL DEF Spec

-----------------------------------------------------------------------------
(* A revoked credential, and an undisturbed reset *)

\* Whatever is granted to it afterwards, and whichever requests run at once: no
\* request to the service and no client begins with a credential that has been
\* revoked, and a client constructed before begins no more than reads and writes
\* within the scope the credential had when the client was constructed.
THEOREM RevocationIsFinal == Spec => RevocationTakesHold
<1>1. ASSUME TypeOK, [Next]_vars, NEW p \in Credentials, standing[p] = "revoked",
             NEW r \in Requests, run'[r].cred = p, run[r].cred # p
      PROVE  /\ run'[r].op \in {"read", "write"}
             /\ [cred |-> p, scope |-> run'[r].scope] \in clients
  <2>0. /\ run \in [Requests -> FitRuns] /\ run[r] \in RunType /\ Fits(run[r])
        /\ p # Operator
    BY <1>1, RunsAreFit, TenantAssumption DEF FitRuns
  <2>1. ASSUME NEW s \in Requests \ {r}, Authenticate(s) \/ Operate(s) \/ Step(s) PROVE FALSE
    BY <1>1, <2>1, OthersUnchanged
  <2>2. ASSUME Authenticate(r) PROVE FALSE
    <3>1. PICK a, op, names, t, scope :
            /\ a \in Principals
            /\ a # Operator => Scope(a) # {}
            /\ run' = [run EXCEPT ![r] = Begun(a, op, names, t, scope)]
      BY <2>2 DEF Authenticate
    <3>2. a = p
      BY <1>1, <2>0, <3>1 DEF Begun, Idle
    <3> QED
      BY <1>1, <2>0, <3>1, <3>2 DEF Scope
  <2>3. ASSUME Step(r) PROVE FALSE
    <3>1. ASSUME End(r) \/ (\E report : EndWith(r, report)) \/ (\E step : Goto(r, step))
          PROVE  FALSE
      BY <1>1, <2>0, <3>1 DEF End, EndWith, Goto, Idle, FitRuns, RunType
    <3>2. ASSUME Resolve(r) PROVE FALSE
      BY <1>1, <2>0, <3>2 DEF Resolve, FitRuns, RunType
    <3>3. ASSUME CreateCorpus(r) PROVE FALSE
      <4>1. run[r].op \in {"create", "write", "reset"}
        BY <2>0, <3>3 DEF CreateCorpus, Fits
      <4> QED
        BY <3>1, <3>3, <4>1 DEF CreateCorpus
    <3> QED
      BY <2>3, <3>1, <3>2, <3>3 DEF Step, Refuse, ResolveFree, Read, Write, Count, Erase,
                                    Regrant, Issue, Grant, Ungrant, Revoke, Abandon
  <2>4. ASSUME Open \/ UNCHANGED vars PROVE FALSE
    BY <1>1, <2>4 DEF Open, vars
  <2>5. Operate(r)
    BY <1>1, <2>1, <2>2, <2>3, <2>4 DEF Next
  <2>6. PICK k \in clients, op \in {"read", "write"}, c \in Corpora :
          run' = [run EXCEPT ![r] = Begun(k.cred, op, {c}, Operator, k.scope)]
    BY <2>5 DEF Operate
  <2>7. /\ run'[r].op = op /\ k.cred = p /\ run'[r].scope = k.scope
        /\ k \in ClientType
    BY <1>1, <2>0, <2>6 DEF Begun, Idle, TypeOK
  <2>8. k = [cred |-> p, scope |-> run'[r].scope]
    BY <2>7 DEF ClientType
  <2> QED
    BY <2>6, <2>7, <2>8
<1>2. ASSUME [Next]_vars, NEW p \in Credentials, standing[p] = "revoked"
      PROVE  {k \in clients' : k.cred = p} \subseteq clients
  <2>1. CASE Open
    <3>1. PICK a \in Credentials :
            Scope(a) # {} /\ clients' = clients \cup {[cred |-> a, scope |-> Scope(a)]}
      BY <2>1 DEF Open
    <3>2. a # p
      BY <1>2, <3>1 DEF Scope
    <3> QED
      BY <3>1, <3>2
  <2>2. CASE ~Open
    BY <1>2, <2>2, ClientsAreOpened
  <2> QED
    BY <2>1, <2>2
<1>3. TypeOK /\ [Next]_vars =>
        [\A p \in Credentials : standing[p] = "revoked" =>
           /\ {k \in clients' : k.cred = p} \subseteq clients
           /\ \A r \in Requests : run'[r].cred = p /\ run[r].cred # p =>
                /\ run'[r].op \in {"read", "write"}
                /\ [cred |-> p, scope |-> run'[r].scope] \in clients]_vars
  BY <1>1, <1>2
<1> QED
  BY <1>3, InitTypeOK, NextTypeOK, PTL DEF Spec, RevocationTakesHold

\* What an undisturbed reset finds when it comes back: the grants it read, until it
\* erases the corpus, and from then on none.
Knows(r) ==
    run[r].op = "reset" /\ r \notin disturbed =>
        \A c \in run[r].what :
            /\ run[r].step \in {"resolved", "counted"} => Holders(c) = run[r].before
            /\ run[r].step \in {"creating", "regranting"} => Holders(c) = {}

ResetsKnowTheGrants == \A r \in Requests : Knows(r)

\* Whoever changes a corpus or its grants disturbs the resets of that corpus.
LEMMA DisturbersTell ==
    ASSUME TypeOK, NEW s \in Requests, Authenticate(s) \/ Operate(s) \/ Step(s),
           NEW r \in Requests \ {s}, run[r].op = "reset", r \notin disturbed', NEW c \in run[r].what
    PROVE  r \notin disturbed /\ Holders(c)' = Holders(c)
<1>1. ASSUME Disturb(s, run[s].what)
      PROVE  r \notin disturbed /\ c \notin run[s].what
  BY <1>1 DEF Disturb
<1>2. ASSUME Disturb(s, run[s].what), NEW S,
             \/ grants' = grants \/ grants' = grants \cup (S \X run[s].what)
             \/ grants' = grants \ (S \X run[s].what)
             \/ grants' = {g \in grants : g[2] \notin run[s].what}
      PROVE  r \notin disturbed /\ Holders(c)' = Holders(c)
  <2>1. \A p : <<p, c>> \in grants' <=> <<p, c>> \in grants
    BY <1>1, <1>2
  <2> QED
    BY <1>1, <1>2, <2>1 DEF Holders
<1>3. ASSUME grants' = grants, \E q \in Requests : q # r /\ disturbed' = disturbed \ {q}
      PROVE  r \notin disturbed /\ Holders(c)' = Holders(c)
  BY <1>3 DEF Holders
<1>4. ASSUME grants' = grants, disturbed' = disturbed
      PROVE  r \notin disturbed /\ Holders(c)' = Holders(c)
  BY <1>4 DEF Holders
<1>5. CASE Authenticate(s) \/ Operate(s)
  BY <1>3, <1>5 DEF Authenticate, Operate, Rows
<1>6. CASE \/ Refuse(s) \/ Resolve(s) \/ ResolveFree(s) \/ Read(s) \/ Write(s) \/ Count(s)
           \/ Revoke(s) \/ Abandon(s)
  BY <1>4, <1>6 DEF Refuse, Resolve, ResolveFree, Read, Write, Count, Revoke, Abandon, Rows
<1>7. CASE CreateCorpus(s)
  BY <1>2, <1>4, <1>7 DEF CreateCorpus
<1>8. CASE Erase(s) \/ Grant(s) \/ Ungrant(s)
  BY <1>2, <1>8 DEF Erase, Grant, Ungrant
<1>9. CASE Regrant(s)
  BY <1>2, <1>9 DEF Regrant
<1>10. CASE Issue(s)
  <2>1. PICK p : grants' = grants \cup ({p} \X run[s].what) /\ Disturb(s, run[s].what)
    BY <1>10 DEF Issue
  <2> QED
    BY <1>2, <2>1
<1> QED
  BY <1>5, <1>6, <1>7, <1>8, <1>9, <1>10 DEF Step

LEMMA NextResetsKnow ==
    TypeOK /\ ResetsKnowTheGrants /\ [Next]_vars => ResetsKnowTheGrants'
<1> SUFFICES ASSUME TypeOK, ResetsKnowTheGrants, [Next]_vars PROVE ResetsKnowTheGrants'
  OBVIOUS
<1>0. /\ run \in [Requests -> FitRuns]
      /\ \A r \in Requests : run[r] \in RunType /\ Fits(run[r])
  BY RunsAreFit DEF FitRuns
<1>1. ASSUME NEW s \in Requests, Authenticate(s) \/ Operate(s) \/ Step(s), NEW r \in Requests \ {s}
      PROVE  Knows(r)'
  <2>1. run'[r] = run[r]
    BY <1>1, OthersUnchanged
  <2>2. ASSUME run[r].op = "reset", r \notin disturbed', NEW c \in run[r].what
        PROVE  r \notin disturbed /\ Holders(c)' = Holders(c)
    BY <1>1, <2>2, DisturbersTell
  <2>3. ASSUME run[r].op = "reset", r \notin disturbed', NEW c \in run[r].what
        PROVE  /\ run[r].step \in {"resolved", "counted"} => Holders(c)' = run[r].before
               /\ run[r].step \in {"creating", "regranting"} => Holders(c)' = {}
    BY <2>2, <2>3 DEF ResetsKnowTheGrants, Knows
  <2> QED
    BY <2>1, <2>3 DEF Knows
<1>2. ASSUME NEW r \in Requests,
             run'[r].step \in {"idle", "authenticated"} \/ run'[r].op # "reset"
      PROVE  Knows(r)'
  BY <1>2 DEF Knows
<1>3. ASSUME NEW r \in Requests,
             \/ End(r) \/ Authenticate(r) \/ Operate(r)
             \/ \E report : EndWith(r, report)
             \/ run[r].op # "reset" /\ (Resolve(r) \/ \E step : Goto(r, step))
      PROVE  Knows(r)'
  <2>1. CASE End(r) \/ \E report : EndWith(r, report)
    BY <1>0, <1>2, <2>1 DEF End, EndWith, Idle
  <2>2. CASE Authenticate(r) \/ Operate(r)
    <3>1. PICK p, op, names, t, scope : run' = [run EXCEPT ![r] = Begun(p, op, names, t, scope)]
      BY <2>2 DEF Authenticate, Operate
    <3> QED
      BY <1>0, <1>2, <3>1 DEF Begun, Idle
  <2>3. CASE run[r].op # "reset" /\ (Resolve(r) \/ \E step : Goto(r, step))
    BY <1>0, <1>2, <2>3 DEF Resolve, Goto, FitRuns, RunType
  <2> QED
    BY <1>3, <2>1, <2>2, <2>3
<1>4. ASSUME NEW r \in Requests, Resolve(r), run[r].op = "reset" PROVE Knows(r)'
  <2>1. /\ run'[r].what = run[r].what
        /\ run'[r].step = "resolved"
        /\ run'[r].before = UNION {Holders(c) : c \in run[r].what}
    BY <1>0, <1>4 DEF Resolve, FitRuns, RunType
  <2>2. grants' = grants
    BY <1>4 DEF Resolve, Rows
  <2>3. \A c \in run[r].what : Holders(c)' = run'[r].before
    <3> SUFFICES ASSUME NEW c \in run[r].what PROVE Holders(c)' = run'[r].before
      OBVIOUS
    <3>1. Holders(c)' = Holders(c)
      BY <2>2 DEF Holders
    <3>2. \A d \in run[r].what : d = c
      BY <1>0, <1>4 DEF Fits
    <3> QED
      BY <2>1, <3>1, <3>2
  <2> QED
    BY <2>1, <2>3 DEF Knows
<1>5. ASSUME NEW r \in Requests, Count(r), run[r].op = "reset", Goto(r, "counted")
      PROVE  Knows(r)'
  <2>1. /\ run'[r] = [run[r] EXCEPT !.step = "counted"]
        /\ run[r].step = "resolved" /\ grants' = grants /\ disturbed' = disturbed
    BY <1>0, <1>5 DEF Count, Goto, Rows
  <2> QED
    BY <1>0, <2>1 DEF RunType, ResetsKnowTheGrants, Knows, Holders
<1>6. ASSUME NEW r \in Requests, Erase(r), run[r].op = "reset" PROVE Knows(r)'
  <2>1. /\ run'[r] = [run[r] EXCEPT !.step = "creating"]
        /\ grants' = {g \in grants : g[2] \notin run[r].what}
    BY <1>0, <1>6 DEF Erase, Goto
  <2>2. \A c \in run[r].what : Holders(c)' = {}
    BY <2>1 DEF Holders
  <2> QED
    BY <1>0, <2>1, <2>2 DEF RunType, Knows
<1>7. ASSUME NEW r \in Requests, CreateCorpus(r), run[r].op = "reset", Goto(r, "regranting")
      PROVE  Knows(r)'
  <2>1. /\ run'[r] = [run[r] EXCEPT !.step = "regranting"]
        /\ run[r].step = "creating" /\ grants' = grants
        /\ r \notin disturbed' => r \notin disturbed
    BY <1>0, <1>7 DEF CreateCorpus, Goto, Disturb
  <2> QED
    BY <1>0, <2>1 DEF RunType, ResetsKnowTheGrants, Knows, Holders
<1>9. ASSUME NEW r \in Requests, Open \/ UNCHANGED vars PROVE Knows(r)'
  BY <1>9 DEF Open, Rows, vars, ResetsKnowTheGrants, Knows, Holders
<1>8. ASSUME NEW r \in Requests, Step(r) PROVE Knows(r)'
  <2>1. CASE Resolve(r)
    BY <1>3, <1>4, <2>1
  <2>2. CASE Count(r)
    BY <1>3, <1>5, <2>2 DEF Count
  <2>3. CASE Erase(r)
    BY <1>3, <1>6, <2>3 DEF Erase
  <2>4. CASE CreateCorpus(r)
    <3>1. run[r].op \in {"create", "write", "reset"}
      BY <1>0, <2>4 DEF CreateCorpus, Fits
    <3> QED
      BY <1>3, <1>7, <2>4, <3>1 DEF CreateCorpus
  <2>5. CASE ResolveFree(r)
    BY <1>3, <2>5 DEF ResolveFree
  <2>6. CASE \/ Refuse(r) \/ Read(r) \/ Write(r) \/ Regrant(r) \/ Issue(r) \/ Grant(r)
             \/ Ungrant(r) \/ Revoke(r) \/ Abandon(r)
    BY <1>3, <2>6 DEF Refuse, Read, Write, Regrant, Issue, Grant, Ungrant, Revoke, Abandon
  <2> QED
    BY <1>8, <2>1, <2>2, <2>3, <2>4, <2>5, <2>6 DEF Step
<1>10. \A r \in Requests : Knows(r)'
  BY <1>1, <1>3, <1>8, <1>9 DEF Next
<1> QED
  BY <1>10 DEF ResetsKnowTheGrants

\* Whichever requests run at once: a reset that finishes without another request
\* having changed the corpus or its grants restores exactly who had access.
THEOREM UndisturbedResetsRestore == Spec => ResetKeepsGrants
<1>1. Init => TypeOK /\ ResetsKnowTheGrants
  BY InitTypeOK DEF Init, ResetsKnowTheGrants, Knows, Idle
<1>2. ASSUME TypeOK, ResetsKnowTheGrants, [Next]_vars, NEW r \in Requests,
             run'[r].report = "reset", run[r].report = "none", r \notin disturbed,
             NEW c \in run[r].what
      PROVE  Holders(c)' = run[r].before
  <2>0. run \in [Requests -> FitRuns] /\ run[r] \in RunType /\ Fits(run[r])
    BY RunsAreFit, <1>2 DEF FitRuns
  <2>1. Regrant(r) /\ EndWith(r, "reset")
    <3>1. ASSUME NEW s \in Requests \ {r}, Authenticate(s) \/ Operate(s) \/ Step(s) PROVE FALSE
      BY <1>2, <3>1, OthersUnchanged
    <3>2. ASSUME \/ End(r) \/ EndWith(r, "deleted") \/ Resolve(r) \/ Authenticate(r) \/ Operate(r)
                 \/ \E step : Goto(r, step)
          PROVE  FALSE
      <4>1. CASE End(r) \/ EndWith(r, "deleted")
        BY <1>2, <2>0, <4>1 DEF End, EndWith, Idle
      <4>2. CASE Authenticate(r) \/ Operate(r)
        <5>1. PICK p, op, names, t, scope : run' = [run EXCEPT ![r] = Begun(p, op, names, t, scope)]
          BY <4>2 DEF Authenticate, Operate
        <5> QED
          BY <1>2, <2>0, <5>1 DEF Begun, Idle
      <4>3. CASE Resolve(r)
        BY <1>2, <2>0, <4>3 DEF Resolve, FitRuns, RunType
      <4>4. CASE \E step : Goto(r, step)
        BY <1>2, <2>0, <4>4 DEF Goto, FitRuns, RunType
      <4> QED
        BY <3>2, <4>1, <4>2, <4>3, <4>4
    <3>3. ASSUME CreateCorpus(r) PROVE FALSE
      <4>1. run[r].op \in {"create", "write", "reset"}
        BY <2>0, <3>3 DEF CreateCorpus, Fits
      <4> QED
        BY <3>2, <3>3, <4>1 DEF CreateCorpus
    <3>4. ~Open /\ ~UNCHANGED vars
      BY <1>2 DEF Open, vars
    <3>5. Step(r)
      BY <1>2, <3>1, <3>2, <3>4 DEF Next
    <3>6. Regrant(r)
      BY <3>2, <3>3, <3>5 DEF Step, Refuse, ResolveFree, Read, Write, Count, Erase, Issue, Grant,
                              Ungrant, Revoke, Abandon
    <3> QED
      BY <3>2, <3>6 DEF Regrant
  <2>2. run[r].op = "reset" /\ run[r].kept = run[r].before /\ run[r].step = "regranting"
    BY <2>0, <2>1 DEF Regrant, Fits
  <2>3. Holders(c) = {}
    BY <1>2, <2>2 DEF ResetsKnowTheGrants, Knows
  <2>4. Existing(r)
    BY <2>0, <2>1, <1>2 DEF Regrant, End, EndWith, Idle
  <2>5. grants' = grants \cup (run[r].kept \X run[r].what)
    BY <2>1, <2>4 DEF Regrant
  <2>6. run[r].before \subseteq Credentials
    BY <2>0 DEF RunType
  <2> QED
    BY <1>2, <2>2, <2>3, <2>5, <2>6 DEF Holders
<1>3. TypeOK /\ ResetsKnowTheGrants /\ [Next]_vars =>
        [\A r \in Requests :
           run'[r].report = "reset" /\ run[r].report = "none" /\ r \notin disturbed
             => \A c \in run[r].what : Holders(c)' = run[r].before]_vars
  BY <1>2
<1>4. TypeOK /\ ResetsKnowTheGrants /\ [Next]_vars => (TypeOK /\ ResetsKnowTheGrants)'
  BY NextTypeOK, NextResetsKnow
<1> QED
  BY <1>1, <1>3, <1>4, PTL DEF Spec, ResetKeepsGrants

=============================================================================

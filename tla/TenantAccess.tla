---------------------------- MODULE TenantAccess ----------------------------
(***************************************************************************)
(* Who may reach which corpus: credentials, their grants, the corpora and  *)
(* the requests that use and change all three, in the mode that requires a *)
(* credential.                                                             *)
(*                                                                         *)
(* A request to the service resolves its principal once, when it begins,   *)
(* and carries that scope through every transaction it opens; an SDK       *)
(* client that works in its own process resolves it once, when it is       *)
(* constructed, and begins every operation with it.  Names are turned into *)
(* corpora in one transaction and the work is done in later statements or  *)
(* transactions.  The content of a corpus is the set of principals who     *)
(* wrote to it.  A corpus id is a hash of the name, so a corpus erased and *)
(* created again is the same corpus to a request that resolved it before.  *)
(***************************************************************************)
EXTENDS Integers

CONSTANTS
    Credentials,    \* credentials that may be issued
    Corpora,        \* corpus names
    Requests,       \* requests that may run at once
    Tenant,         \* Tenant[p]: the customer that is given credential p
    Owned,          \* Owned[t]: the corpora the operator has for customer t
    Roles,          \* the roles that are handed out
    Operator,       \* ADMIN_PRINCIPAL, the identity of the operator's commands
    MaxRequests     \* bound: requests let in and clients constructed

PERMISSIONS ==
    [read_only       |-> {"read"},
     read_write      |-> {"read", "write"},
     corpus_admin    |-> {"read", "write", "manage_corpus"},
     principal_admin |-> {"read", "write", "manage_corpus", "manage_principals"}]

Operations == {"read", "write", "create", "erase", "reset", "issue", "grant", "ungrant", "revoke"}

ASSUME TenantAssumption ==
    /\ DOMAIN Tenant = Credentials
    /\ \A p \in Credentials : Tenant[p] \in DOMAIN Owned
    /\ \A t \in DOMAIN Owned : Owned[t] \subseteq Corpora
    /\ Roles \subseteq DOMAIN PERMISSIONS
    /\ Operator \notin Credentials /\ MaxRequests \in Nat

VARIABLES
    corpora,    \* corpora
    grants,     \* memory_principal_corpora
    standing,   \* memory_principals: not issued yet, live or revoked
    role,       \* memory_principals.role
    content,    \* per corpus, who has written what it holds
    clients,    \* what in-process clients hold: a credential and the scope it
                \*   had when they were constructed
    run,        \* each request
    served,     \* requests let in and clients constructed so far
    touched,    \* auxiliary: the corpora a credential's requests worked on
    gone,       \* auxiliary: erasures whose corpus disappeared while they ran
    disturbed   \* auxiliary: resets during which another request changed the
                \*   corpus or its grants

vars == <<corpora, grants, standing, role, content, clients, run, served, touched, gone, disturbed>>

Principals == Credentials \cup {Operator}

Idle == [step |-> "idle", op |-> "none", cred |-> Operator, what |-> {}, target |-> Operator,
         scope |-> {}, kept |-> {}, before |-> {}, report |-> "none"]

\* The customer's people hand out access only to their own credentials, the
\* operator only to the corpora kept for the credential's customer.
Handed(p, target, names) ==
    IF p = Operator THEN names \subseteq Owned[Tenant[target]] ELSE Tenant[target] = Tenant[p]

ClientType == [cred : Credentials, scope : SUBSET Corpora]

RunType ==
    [step : {"idle", "authenticated", "resolved", "creating", "counted", "regranting"},
     op : Operations \cup {"none"}, cred : Principals, what : SUBSET Corpora,
     target : Principals, scope : SUBSET Corpora, kept : SUBSET Credentials,
     before : SUBSET Credentials, report : {"none", "deleted", "reset"}]

\* The fields of a request fit each other: it is at a step its operation has,
\* carries what was checked when it was let in, and a reset puts back what it read.
Fits(q) ==
    /\ q.step = "idle" => q.cred = Operator /\ q.op = "none"
    /\ q.step # "idle" => q.report = "none" /\ q.op # "none"
    /\ q.step = "resolved" => q.op # "create"
    /\ q.step = "creating" => q.op \in {"create", "write", "reset"} /\ q.cred = Operator
    /\ q.step = "counted" => q.op \in {"erase", "reset"}
    /\ q.step = "regranting" => q.op = "reset"
    /\ q.op \in {"grant", "ungrant", "revoke"} => q.target \in Credentials
    /\ q.op = "grant" => Handed(q.cred, q.target, q.what)
    /\ q.op = "erase" => q.what # {}
    /\ q.op = "reset" => /\ q.cred = Operator
                         /\ \A c, d \in q.what : c = d
                         /\ q.kept = q.before
    /\ q.op # "reset" => q.kept = {}

TypeOK ==
    /\ corpora \subseteq Corpora
    /\ grants \subseteq Credentials \X Corpora
    /\ standing \in [Credentials -> {"unissued", "live", "revoked"}]
    /\ role \in [Credentials -> DOMAIN PERMISSIONS]
    /\ content \in [Corpora -> SUBSET Principals]
    /\ clients \subseteq ClientType
    /\ run \in [Requests -> RunType]
    /\ \A r \in Requests : Fits(run[r])
    /\ served \in Nat
    /\ touched \subseteq Credentials \X Corpora
    /\ gone \subseteq Requests
    /\ disturbed \subseteq Requests

Init ==
    /\ corpora = Corpora
    /\ grants = {}
    /\ standing = [p \in Credentials |-> "unissued"]
    /\ role = [p \in Credentials |-> "read_only"]
    /\ content = [c \in Corpora |-> {}]
    /\ clients = {}
    /\ run = [r \in Requests |-> Idle]
    /\ served = 0
    /\ touched = {}
    /\ gone = {}
    /\ disturbed = {}

-----------------------------------------------------------------------------
(* Principals *)

Holders(c) == {p \in Credentials : <<p, c>> \in grants}
Held(p) == {c \in Corpora : <<p, c>> \in grants}

\* Faulty: a revoked credential is still looked up.
ScopeOfAny(p) == IF standing[p] = "unissued" THEN {} ELSE Held(p)

\* mindpalace_resolve_credential: one row per corpus of a live credential.
Scope(p) == IF standing[p] = "live" THEN Held(p) ELSE {}

Unrestricted(r) == run[r].cred = Operator
Can(r, permission) ==
    permission \in IF Unrestricted(r) THEN UNION {PERMISSIONS[as] : as \in DOMAIN PERMISSIONS}
                   ELSE PERMISSIONS[role[run[r].cred]]

\* Faulty: any name may be turned into a corpus.
AllowsAny(r, names) == TRUE
Allows(r, names) == Unrestricted(r) \/ names \subseteq run[r].scope

Permitted(r) ==
    CASE run[r].op = "read" -> TRUE
      [] run[r].op = "write" -> Can(r, "write")
      [] run[r].op \in {"erase", "reset"} -> Can(r, "manage_corpus")
      [] run[r].op = "create" -> Unrestricted(r)
      [] OTHER -> Can(r, "manage_principals")

-----------------------------------------------------------------------------
(* What a request leaves when it goes on or ends *)

Goto(r, step) == run' = [run EXCEPT ![r].step = step]
End(r) == run' = [run EXCEPT ![r] = Idle]
EndWith(r, report) == run' = [run EXCEPT ![r] = [Idle EXCEPT !.report = report]]

Touch(r) == touched' = IF Unrestricted(r) THEN touched
                       ELSE touched \cup ({run[r].cred} \X run[r].what)

\* Every other reset of one of these corpora was disturbed.
Disturb(r, names) ==
    disturbed' = disturbed \cup {s \in Requests \ {r} : run[s].op = "reset" /\ run[s].what \cap names # {}}

\* The erasures of one of these corpora that see it disappear.
Bereft(names) == {s \in Requests : run[s].op = "erase" /\ run[s].what \cap names \cap corpora # {}}

Rows == <<corpora, grants, standing, role, content>>

\* The request with its principal, whose scope it keeps for as long as it runs.
Begun(p, op, names, t, scope) ==
    [Idle EXCEPT !.step = "authenticated", !.op = op, !.cred = p, !.what = names, !.target = t,
                 !.scope = scope]

\* A request to the service or, for the operator, a command.
Authenticate(r) ==
    /\ run[r].step = "idle" /\ served < MaxRequests
    /\ \E p \in Principals, op \in Operations, names \in SUBSET Corpora, t \in Principals :
         /\ p # Operator => Scope(p) # {}                   \* otherwise 401
         /\ op = "reset" => p = Operator                    \* only the command line resets
         /\ IF op = "revoke" THEN names = {} ELSE names # {}
         /\ op \notin {"issue", "grant", "ungrant"} => \A c, d \in names : c = d
         /\ IF op \in {"grant", "ungrant", "revoke"} THEN t \in Credentials ELSE t = Operator
         /\ op = "grant" => Handed(p, t, names)
         /\ LET scope == IF p = Operator THEN {} ELSE Scope(p)
            IN run' = [run EXCEPT ![r] = Begun(p, op, names, t, scope)]
    /\ served' = served + 1
    /\ gone' = gone \ {r}
    /\ disturbed' = disturbed \ {r}
    /\ UNCHANGED <<Rows, clients, touched>>

\* _local_principal, from the constructor of a client without a URL.
Open == \E p \in Credentials :
    /\ served < MaxRequests
    /\ served' = served + 1
    /\ Scope(p) # {}
    /\ clients' = clients \cup {[cred |-> p, scope |-> Scope(p)]}
    /\ UNCHANGED <<Rows, run, touched, gone, disturbed>>

\* _as_caller: an operation of such a client, which is not authenticated again.
Operate(r) ==
    /\ run[r].step = "idle" /\ served < MaxRequests
    /\ \E k \in clients, op \in {"read", "write"}, c \in Corpora :
         run' = [run EXCEPT ![r] = Begun(k.cred, op, {c}, Operator, k.scope)]
    /\ served' = served + 1
    /\ gone' = gone \ {r}
    /\ disturbed' = disturbed \ {r}
    /\ UNCHANGED <<Rows, clients, touched>>

\* get_corpus_by_name, require_permission and _resolve_credential_id.
Admitted(r) == Permitted(r) /\ Allows(r, run[r].what)
Located(r) == run[r].op \in {"grant", "ungrant", "revoke"} => standing[run[r].target] = "live"
Existing(r) == run[r].what \subseteq corpora

Refuse(r) ==
    /\ run[r].step = "authenticated"
    /\ \/ ~Admitted(r) \/ ~Located(r)
       \/ run[r].op \in {"read", "erase", "reset", "issue", "grant"} /\ ~Existing(r)
       \/ run[r].op = "write" /\ ~Existing(r) /\ ~Unrestricted(r)
       \/ run[r].op = "create" /\ Existing(r)
    /\ End(r)
    /\ UNCHANGED <<Rows, touched, gone, disturbed, clients, served>>

\* Faulty: the rows of the grants are kept, not the credentials they name.
ResolveRows(r) ==
    /\ run[r].step = "authenticated" /\ Admitted(r) /\ Located(r)
    /\ Existing(r) \/ run[r].op \in {"ungrant", "revoke"}
    /\ run[r].op # "create"
    /\ run' = [run EXCEPT ![r].step = "resolved",
                 ![r].kept = {g \in grants : run[r].op = "reset" /\ g[2] \in run[r].what}]
    /\ UNCHANGED <<Rows, touched, gone, disturbed, clients, served>>

\* A reset reads the grants it will put back.
Resolve(r) ==
    /\ run[r].step = "authenticated" /\ Admitted(r) /\ Located(r)
    /\ Existing(r) \/ run[r].op \in {"ungrant", "revoke"}
    /\ run[r].op # "create"
    /\ LET held == UNION {Holders(c) : c \in run[r].what}
       IN run' = [run EXCEPT ![r].step = "resolved",
                    ![r].kept = IF run[r].op = "reset" THEN held ELSE {},
                    ![r].before = IF run[r].op = "reset" THEN held ELSE {}]
    /\ UNCHANGED <<Rows, touched, gone, disturbed, clients, served>>

\* get_or_create_corpus and create_corpus: the name is free.
ResolveFree(r) ==
    /\ run[r].step = "authenticated" /\ Admitted(r) /\ ~Existing(r)
    /\ run[r].op \in {"create", "write"} /\ Unrestricted(r)
    /\ Goto(r, "creating")
    /\ UNCHANGED <<Rows, touched, gone, disturbed, clients, served>>

-----------------------------------------------------------------------------
(* Using a corpus *)

\* Rows outside the transaction's scope are not visible.
Read(r) ==
    /\ run[r].step = "resolved" /\ run[r].op = "read"
    /\ End(r)
    /\ Touch(r)
    /\ UNCHANGED <<Rows, gone, disturbed, clients, served>>

\* One transaction under the corpus lock; without the corpus's row the foreign
\* key refuses the rows.
Write(r) ==
    /\ run[r].step = "resolved" /\ run[r].op = "write"
    /\ End(r)
    /\ content' = [c \in Corpora |->
         IF c \in run[r].what \cap corpora THEN content[c] \cup {run[r].cred} ELSE content[c]]
    /\ Touch(r)
    /\ UNCHANGED <<corpora, grants, standing, role, gone, disturbed, clients, served>>

-----------------------------------------------------------------------------
(* Corpora *)

\* create_corpus's insert and commit; a name taken meanwhile is an error.
CreateCorpus(r) ==
    /\ run[r].step = "creating"
    /\ IF Existing(r)
       THEN End(r) /\ UNCHANGED <<corpora, disturbed>>
       ELSE /\ corpora' = corpora \cup run[r].what
            /\ Disturb(r, run[r].what)
            /\ CASE run[r].op = "create" -> End(r)
                 [] run[r].op = "write" -> Goto(r, "resolved")
                 [] run[r].op = "reset" -> Goto(r, "regranting")
    /\ UNCHANGED <<grants, standing, role, content, touched, gone, clients, served>>

\* mindpalace_erase_corpus up to its lock: the scope's check and the count.
Count(r) ==
    /\ run[r].step = "resolved" /\ run[r].op \in {"erase", "reset"}
    /\ IF Existing(r) THEN Goto(r, "counted") ELSE End(r)
    /\ UNCHANGED <<Rows, touched, gone, disturbed, clients, served>>

\* Faulty: the session closes without the commit.
EraseUncommitted(r) ==
    /\ run[r].step = "counted"
    /\ IF run[r].op = "reset" THEN Goto(r, "creating") ELSE EndWith(r, "deleted")
    /\ Touch(r)
    /\ UNCHANGED <<Rows, gone, disturbed, clients, served>>

\* The rest of it, under the corpus lock, and the commit: whatever is there by
\* now is removed, and the report says deleted.
Erase(r) ==
    /\ run[r].step = "counted"
    /\ corpora' = corpora \ run[r].what
    /\ grants' = {g \in grants : g[2] \notin run[r].what}
    /\ content' = [c \in Corpora |-> IF c \in run[r].what THEN {} ELSE content[c]]
    /\ gone' = gone \cup Bereft(run[r].what)
    /\ IF run[r].op = "reset" THEN Goto(r, "creating") ELSE EndWith(r, "deleted")
    /\ Disturb(r, run[r].what)
    /\ Touch(r)
    /\ UNCHANGED <<standing, role, clients, served>>

\* Faulty: the corpus comes back without the grants it had.
RegrantNobody(r) ==
    /\ run[r].step = "regranting"
    /\ IF Existing(r) THEN EndWith(r, "reset") ELSE End(r)
    /\ UNCHANGED <<Rows, touched, gone, disturbed, clients, served>>

\* reset_corpus's last transaction; without the corpus's row it fails.
Regrant(r) ==
    /\ run[r].step = "regranting"
    /\ grants' = IF Existing(r) THEN grants \cup (run[r].kept \X run[r].what) ELSE grants
    /\ Disturb(r, run[r].what)
    /\ IF Existing(r) THEN EndWith(r, "reset") ELSE End(r)
    /\ UNCHANGED <<corpora, standing, role, content, touched, gone, clients, served>>

-----------------------------------------------------------------------------
(* Credentials *)

\* Faulty: the corpora looked up before are taken to be there still.
IssueUnchecked(r) ==
    /\ run[r].step = "resolved" /\ run[r].op = "issue"
    /\ \E p \in Credentials, as \in Roles :
         /\ standing[p] = "unissued" /\ Handed(run[r].cred, p, run[r].what)
         /\ standing' = [standing EXCEPT ![p] = "live"]
         /\ role' = [role EXCEPT ![p] = as]
         /\ grants' = grants \cup ({p} \X run[r].what)
         /\ Disturb(r, run[r].what)
    /\ End(r)
    /\ UNCHANGED <<corpora, content, touched, gone, clients, served>>

\* issue_credential's transaction; a corpus that is gone fails all of it.
Issue(r) ==
    /\ run[r].step = "resolved" /\ run[r].op = "issue" /\ Existing(r)
    /\ \E p \in Credentials, as \in Roles :
         /\ standing[p] = "unissued" /\ Handed(run[r].cred, p, run[r].what)
         /\ standing' = [standing EXCEPT ![p] = "live"]
         /\ role' = [role EXCEPT ![p] = as]
         /\ grants' = grants \cup ({p} \X run[r].what)
         /\ Disturb(r, run[r].what)
    /\ End(r)
    /\ UNCHANGED <<corpora, content, touched, gone, clients, served>>

\* grant_corpora; the credential may have been revoked since it was located.
Grant(r) ==
    /\ run[r].step = "resolved" /\ run[r].op = "grant" /\ Existing(r)
    /\ grants' = grants \cup ({run[r].target} \X run[r].what)
    /\ Disturb(r, run[r].what)
    /\ End(r)
    /\ UNCHANGED <<corpora, standing, role, content, touched, gone, clients, served>>

\* revoke_corpora
Ungrant(r) ==
    /\ run[r].step = "resolved" /\ run[r].op = "ungrant"
    /\ grants' = grants \ ({run[r].target} \X run[r].what)
    /\ Disturb(r, run[r].what)
    /\ End(r)
    /\ UNCHANGED <<corpora, standing, role, content, touched, gone, clients, served>>

\* revoke_credential
Revoke(r) ==
    /\ run[r].step = "resolved" /\ run[r].op = "revoke"
    /\ standing' = [standing EXCEPT ![run[r].target] = "revoked"]
    /\ End(r)
    /\ UNCHANGED <<corpora, grants, role, content, touched, gone, disturbed, clients, served>>

\* A transaction that fails, a client that disconnects, a process that dies:
\* what was committed stays.
Abandon(r) ==
    /\ run[r].step # "idle"
    /\ End(r)
    /\ UNCHANGED <<Rows, touched, gone, disturbed, clients, served>>

Step(r) ==
    \/ Refuse(r) \/ Resolve(r) \/ ResolveFree(r)
    \/ Read(r) \/ Write(r)
    \/ CreateCorpus(r) \/ Count(r) \/ Erase(r) \/ Regrant(r)
    \/ Issue(r) \/ Grant(r) \/ Ungrant(r) \/ Revoke(r) \/ Abandon(r)

Next == Open \/ \E r \in Requests : Authenticate(r) \/ Operate(r) \/ Step(r)

Spec == Init /\ [][Next]_vars

-----------------------------------------------------------------------------

\* A customer's corpora are reached, and written to, by the customer's own
\* credentials and by the operator only, whoever issues, grants, erases and
\* creates meanwhile; and what a corpus holds was written by credentials whose
\* role writes.
CustomersAreIsolated ==
    /\ \A g \in grants \cup touched : g[2] \in Owned[Tenant[g[1]]]
    /\ \A c \in Corpora : \A p \in content[c] \ {Operator} :
         c \in Owned[Tenant[p]] /\ "write" \in PERMISSIONS[role[p]]

\* No grant and no row outlives the corpus it names, so that a name used again
\* starts empty and closed to those who held the erased corpus.
NothingOutlivesItsCorpus ==
    /\ \A g \in grants : g[2] \in corpora
    /\ \A c \in Corpora \ corpora : content[c] = {}

\* Erasure reports that it deleted a corpus only if the corpus disappeared
\* while it ran (two erasures that overlap may both say so of one corpus).
DeletedMeansItWentAway ==
    \A r \in Requests : run[r].report = "deleted" => r \in gone

\* A reset that finishes, nobody else having changed the corpus or its grants
\* since it read them, leaves exactly the access there was: nobody who had it is
\* shut out, and nobody else is let in.
ResetKeepsGrants ==
    [][\A r \in Requests :
         run'[r].report = "reset" /\ run[r].report = "none" /\ r \notin disturbed
           => \A c \in run[r].what : Holders(c)' = run[r].before]_vars

\* A revoked credential opens nothing any more, whatever is granted to it
\* afterwards: no request to the service and no client begins with it.  What it
\* still begins are reads and writes of clients constructed before, within the
\* scope it had then.
RevocationTakesHold ==
    [][\A p \in Credentials : standing[p] = "revoked" =>
         /\ {k \in clients' : k.cred = p} \subseteq clients
         /\ \A r \in Requests : run'[r].cred = p /\ run[r].cred # p =>
              /\ run'[r].op \in {"read", "write"}
              /\ [cred |-> p, scope |-> run'[r].scope] \in clients]_vars

=============================================================================

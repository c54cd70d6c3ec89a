--------------------------- MODULE MCArchivePacks ---------------------------
(* Questions about the small instances of MCMemoryArchive. *)
EXTENDS MCMemoryArchive, ArchiveReceipts

Anything == [op |-> "pack", paths |-> Docs, scope |-> Docs, about |-> Keys,
             past |-> TRUE, drafts |-> TRUE, budget |-> 100]

Pairs(S) == {{x, y} : x, y \in S} \ {{x} : x \in S}

\* With a budget for everything: each operation about one key, which only some
\* operations ask with the withheld states left out.
AboutOneKey ==
    {[Anything EXCEPT !.op = o, !.about = {k1}] : o \in {"current", "history", "pack", "query"}}
    \cup {[Anything EXCEPT !.op = o, !.about = {k1}, !.drafts = FALSE] : o \in {"current", "pack"}}

AboutEverything == {[q EXCEPT !.about = Keys] : q \in AboutOneKey}

Selected(qs) ==
    qs \cup {[q EXCEPT !.paths = {d}] : q \in qs, d \in Docs}
       \cup {[q EXCEPT !.scope = p] : q \in qs, p \in Pairs(Docs)}

\* Budgets that cut.
Bounded ==
    {[Anything EXCEPT !.op = o, !.about = {k1}, !.budget = n] :
        o \in {"pack", "query"}, n \in {0, 3, 4, 7, 8}}

Questions == Selected(AboutOneKey) \cup AboutEverything \cup Bounded

=============================================================================

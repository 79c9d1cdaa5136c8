------------------------------ MODULE MCConsole ------------------------------
(***************************************************************************)
(* The instance of Console for TLC: one plan after the other, most of them  *)
(* for one part of it and one of its hazards.  A quarter of a day passes at *)
(* a tick.                                                                 *)
(***************************************************************************)
EXTENDS Console

CONSTANTS d1, d2, alice, bob, me

NoAsks == [uploads |-> {}, sources |-> {}, reembeds |-> 0, deletes |-> 0, stalls |-> 0]
NoWants == [requests |-> 0, errors |-> 0, lost |-> 0, expiries |-> 0]
NoDemands == [connects |-> 0, questions |-> 0, changes |-> 0, lapses |-> 0, errors |-> 0]
NoChores == [aliases |-> 0, messages |-> 0, opens |-> 0, syncs |-> 0, adds |-> 0,
             removals |-> 0, renames |-> 0, errors |-> 0]
NoAgenda == [messages |-> {}, contents |-> {"string"}, reactions |-> 0, recalls |-> 0,
             requests |-> 0, listings |-> 0, rewrites |-> 0, ticks |-> 0]
Idleness == [asks |-> NoAsks, wants |-> NoWants, demands |-> NoDemands,
             chores |-> NoChores, agenda |-> NoAgenda, ranges |-> {}, crashes |-> 0]

\* An upload or a link of every kind.
AFile == [ext |-> "text", mime |-> "none", params |-> FALSE, holds |-> "text", size |-> "fits"]
Everything ==
    {Upload(f) : f \in Files} \cup {Url(r, AFile) : r \in Responses}
        \cup {Google(p, a, e) : p \in Paths, a \in Pages, e \in Exports}

Asking(uploads, reembeds, deletes, stalls) ==
    [uploads |-> uploads, sources |-> {Raw}, reembeds |-> reembeds, deletes |-> deletes,
     stalls |-> stalls]

DocumentPlans ==
    {[Idleness EXCEPT !.asks = a] :
        a \in {Asking({d1, d2}, 0, 1, 0), Asking({d1}, 1, 1, 0),
               [Asking({d1}, 0, 0, 0) EXCEPT !.sources = Everything]}}
    \cup {[Idleness EXCEPT !.asks = Asking({d1}, 1, 0, 1), !.crashes = 1]}

SignInPlans ==
    {[Idleness EXCEPT !.crashes = 1,
        !.wants = [requests |-> 4, errors |-> 1, lost |-> 1, expiries |-> 1]]}

PresencePlans ==
    {[Idleness EXCEPT !.crashes = 1,
        !.demands = [connects |-> 2, questions |-> 3, changes |-> 2, lapses |-> 1, errors |-> 1]]}

\* Aliases beside syncs, messages and opens; friends who come and go; a crash.
NamePlans ==
    {[Idleness EXCEPT !.chores = c] :
        c \in {[NoChores EXCEPT !.aliases = 2, !.syncs = 2, !.renames = 1],
               [NoChores EXCEPT !.aliases = 1, !.syncs = 1, !.messages = 1],
               [NoChores EXCEPT !.aliases = 2, !.syncs = 1, !.opens = 1],
               [NoChores EXCEPT !.aliases = 1, !.syncs = 1, !.adds = 1, !.removals = 1],
               [NoChores EXCEPT !.messages = 1, !.adds = 1, !.removals = 1]}}
    \cup {[Idleness EXCEPT !.crashes = 1,
             !.chores = [NoChores EXCEPT !.aliases = 1, !.messages = 1, !.errors = 1]]}

\* Contents of every kind; reactions to two messages; several to one; a crash; a
\* log that grows while it is read; and requests to Zalo.
MessagePlans ==
    {[Idleness EXCEPT !.agenda = a] :
        a \in {[NoAgenda EXCEPT !.messages = {1}, !.contents = RawKinds, !.recalls = 1,
                                !.listings = 1, !.rewrites = 1],
               [NoAgenda EXCEPT !.messages = {1, 2}, !.reactions = 1, !.ticks = 1],
               [NoAgenda EXCEPT !.messages = {1}, !.reactions = 3],
               [NoAgenda EXCEPT !.messages = {1, 2, 3}, !.listings = 1],
               [NoAgenda EXCEPT !.messages = {1, 2}, !.requests = 1, !.listings = 1, !.ticks = 1]}}
    \cup {[Idleness EXCEPT !.crashes = 1,
             !.agenda = [NoAgenda EXCEPT !.messages = {1}, !.reactions = 1, !.recalls = 1]]}

Between(from, to, zone) == [from |-> from, to |-> to, zone |-> zone]

\* Of all time and all rows, of more rows than the chart takes, of 32 days and of
\* more, and by a clock that is ahead of UTC.
ReportPlans ==
    {[Idleness EXCEPT !.agenda = [NoAgenda EXCEPT !.messages = {1, 2, 3}, !.rewrites = 1],
                      !.ranges = {Between(Nil, Nil, 0)}]}
    \cup {[Idleness EXCEPT !.agenda = [NoAgenda EXCEPT !.messages = {1, 2}, !.ticks = 1],
                           !.ranges = {range}] :
            range \in {Between(-124, 3, 0), Between(-128, 3, 0), Between(Nil, 0, 1), Between(1, 1, 0)}}

MCPlans ==
    DocumentPlans \cup SignInPlans \cup PresencePlans \cup NamePlans \cup MessagePlans
        \cup ReportPlans

=============================================================================

----------------------------- MODULE MCPlanning ------------------------------
(* Tickets for a small PHP site: which agents they need, and which files.    *)
(* Or two tickets for the same files and what is remembered of their         *)
(* failures.  One run takes one side.                                        *)
EXTENDS Planning, FailureMemory

CONSTANTS index, api, schema, style, env, blob, home, entry, notes, prices, late,
          one, another, owners, before, edited, broken, offline, again

MCFile == {index, api, schema, style, env, blob, home, entry, notes, prices, late}

MCEditable ==
  [f \in MCFile |->
     CASE f \in {index, api, schema, entry, prices, late} -> {"backend"} \cup
                                             (IF f = index THEN {"frontend"} ELSE {})
       [] f \in {style, blob, home} -> {"frontend"}
       [] OTHER -> {}]

MCPattern ==
  [f \in MCFile |-> [r \in Writers |->
     CASE r = "frontend" -> (IF f \in {index, style, home, blob} THEN 2 ELSE 0)
       [] r = "backend"  -> (IF f \in {index, api, prices} THEN 1 ELSE IF f = schema THEN 2 ELSE 0)
       [] OTHER -> 0]]

MCFits ==
  [f \in MCFile |->
     {"coordinator", "release"} \cup
       (CASE f \in {style, home} -> {"frontend"}
          [] f = index -> {"frontend", "backend"}
          [] OTHER -> {"backend"})]

MCTarget ==
  [r \in Writers |->
     CASE r = "frontend" -> home [] r = "release" -> notes [] OTHER -> entry]

\* What is listed first for a backend step, and for every other step.
Ranked(back, other) ==
  [r \in RoleSet |-> IF r = "backend" THEN back ELSE other]

MCScorings ==
  {Ranked(<<api, schema, index>>, <<index, style, api>>),
   Ranked(<<schema, api, index, style>>, <<style, blob, api, index>>),
   Ranked(<<index, style, env>>, <<blob, schema, index>>),
   Ranked(<<>>, <<api, schema>>)}

\* Every sequence of domains classify_intent returns.
DomainLists ==
  {<<>>, <<"frontend">>, <<"backend">>, <<"frontend", "backend">>,
   <<"backend", "security">>, <<"frontend", "backend", "security">>, <<"release">>,
   <<"frontend", "release">>, <<"backend", "release">>, <<"frontend", "backend", "release">>,
   <<"backend", "security", "release">>, <<"frontend", "backend", "security", "release">>,
   <<"frontend", "security">>, <<"frontend", "security", "release">>}

Ticket(kind, asks, domains, risk, separate, study, handoff, named, data, live, page) ==
  [kind |-> kind, asks |-> asks, domains |-> domains, risk |-> risk, separate |-> separate,
   study |-> study, handoff |-> handoff, named |-> named, data |-> data, live |-> live,
   page |-> page]

Site(files, nested, verifiable, related) ==
  [files |-> files, nested |-> nested, verifiable |-> verifiable, related |-> related]

Shop == {index, api, schema, style}

\* Which steps: everything the plan depends on, on one site.
ShapeCases ==
  {[ticket  |-> Ticket(k[1], k[2], d, w[1], w[2], h[1], h[2], w[3], FALSE, FALSE, "none"),
    project |-> Site(Shop, TRUE, verifiable, {{schema, api}})] :
      k \in {<<"feature", FALSE>>, <<"custom", FALSE>>, <<"audit", TRUE>>, <<"audit", FALSE>>,
             <<"release", FALSE>>},
      h \in {<<FALSE, FALSE>>, <<TRUE, FALSE>>, <<FALSE, TRUE>>},
      w \in {<<"low", FALSE, {}>>, <<"low", FALSE, {index}>>, <<"low", TRUE, {index}>>,
             <<"high", FALSE, {}>>},
      d \in DomainLists, verifiable \in BOOLEAN}

\* Which files: everything the packs depend on, for some plans.
ContentCases ==
  {[ticket  |-> Ticket("feature", FALSE, d, "low", TRUE, FALSE, FALSE, named, data, x[1], x[2]),
    project |-> Site(site, nested, TRUE, rel)] :
      d \in {<<>>, <<"frontend">>, <<"frontend", "backend">>,
             <<"frontend", "backend", "release">>},
      named \in {{}, {index}, {schema}, {late}},
      data \in BOOLEAN,
      x \in (BOOLEAN \X {"none", "new"}) \cup {<<FALSE, "home">>},
      site \in {Shop, {schema, api}, {blob, schema}, {index, env}, {index, api, schema, blob, env},
                {index, api, schema, entry}},
      nested \in BOOLEAN,
      rel \in {{}, {{schema, api}, {schema, index}}, {{index, api}, {index, style}}}}

MCCases == ShapeCases \cup ContentCases

-----------------------------------------------------------------------------
FirstCase == CHOOSE c \in MCCases : TRUE

MCTargetOf == [t \in {one, another} |-> owners]

Symmetry == Permutations({one, another})

VARIABLE side

MCInit ==
  /\ side \in {"planning", "memory"}
  /\ IF side = "memory" THEN case = FirstCase ELSE content = before
  /\ Init /\ MemoryInit

MCNext ==
  \/ side = "planning" /\ Next /\ UNCHANGED <<side, memoryVars>>
  \/ side = "memory" /\ MemoryNext /\ UNCHANGED <<side, vars>>

MCSpec == MCInit /\ [][MCNext]_<<side, vars, memoryVars>>
=============================================================================

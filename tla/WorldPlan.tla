------------------------------ MODULE WorldPlan ------------------------------
(***************************************************************************)
(* WorldPlanValidator: the loops of Validate over a plan that parsed, one  *)
(* action per iteration, and the wave-by-wave Sort.  Names are numbers in  *)
(* their ordinal order, Malformed one that the patterns refuse.  Whether   *)
(* a digest is well formed and whether the recovery budgets fit the        *)
(* profile are fields of the plan; diagnostics are a set.                  *)
(***************************************************************************)
EXTENDS Integers, FiniteSets, Sequences

CONSTANTS
  Plans,            \* the documents that Validate may be given
  MaxResources, MaxAssets, MaxCapabilities, MaxNames, MaxAssetNames

\* What the document holds once it is read: names are numbers in their order.
Names == Seq(Nat)
ResourceInput ==
  [id : Nat, digest : BOOLEAN,
   dependencies : Names, provides : Names, requires : Names, mutates : Names]
AssetInput ==
  [id : Nat, digest : BOOLEAN, dependencies : Names, critical : BOOLEAN, optional : BOOLEAN]

ASSUME PlanAssumption ==
  \A p \in Plans :
    /\ p.resources \in Seq(ResourceInput) /\ p.assets \in Seq(AssetInput)
    /\ p.required \in Names /\ p.available \in Names

VARIABLES
  plan,
  at,       \* the loop that runs, and the index of its next iteration
  found,    \* the dictionaries of resources, services, mutators and assets
  edges,    \* of the resources and of the assets: what each one waits for
  closure,  \* the critical assets and the queue of pending ones
  issues,   \* the diagnostics, as code and subject
  order     \* of the resources and of the assets

planVars == <<plan, at, found, edges, closure, issues, order>>

Malformed == 0
Identifier(name) == name # Malformed
NamesOf(list) == {list[i] : i \in DOMAIN list}
Valid(list) == {n \in NamesOf(list) : Identifier(n)}
Repeats(list) == Cardinality(NamesOf(list)) # Len(list)

\* A set of names in their order.
Ascending(S) ==
  CHOOSE s \in [1 .. Cardinality(S) -> S] : \A i, j \in DOMAIN s : i < j => s[i] < s[j]

Report(condition, code, subject) == IF condition THEN {<<code, subject>>} ELSE {}

CheckNames(list, subject) ==
  Report(Len(list) > MaxNames \/ Malformed \in NamesOf(list), "invalid_names", subject)
  \cup Report(Repeats(list), "duplicate_name", subject)

PlanInit ==
  /\ plan \in Plans
  /\ at = [loop |-> "header", index |-> 1]
  /\ found = [resources |-> << >>, services |-> << >>, mutators |-> << >>, assets |-> << >>]
  /\ edges = [resources |-> << >>, assets |-> << >>]
  /\ closure = [critical |-> {}, pending |-> << >>]
  /\ issues = {}
  /\ order = [resources |-> << >>, assets |-> << >>]

\* Body runs for one index of a loop with n iterations; Leave ends the loop.
Iterate(loop, n) ==
  /\ at.loop = loop /\ at.index <= n
  /\ at' = [at EXCEPT !.index = @ + 1]
  /\ UNCHANGED plan

Leave(loop, n, next) ==
  /\ at.loop = loop /\ at.index > n
  /\ at' = [loop |-> next, index |-> 1]
  /\ UNCHANGED <<plan, found, edges, issues, order>>

Header ==
  /\ at.loop = "header"
  /\ IF \/ Len(plan.resources) > MaxResources \/ Len(plan.assets) > MaxAssets
        \/ Len(plan.required) > MaxCapabilities \/ Len(plan.available) > MaxCapabilities
     THEN issues' = {<<"collection_limit", 0>>} /\ at' = [at EXCEPT !.loop = "done"]
     ELSE /\ issues' = Report(plan.schema # 1, "unsupported_schema", 0)
                       \cup Report(~ Identifier(plan.world), "invalid_identifier", 0)
          /\ at' = [at EXCEPT !.loop = "resources"]
  /\ UNCHANGED <<plan, found, edges, closure, order>>

\* A dictionary with value under each of names that is new to it.
Added(dictionary, names, value) ==
  [n \in DOMAIN dictionary \cup names |->
     IF n \in DOMAIN dictionary THEN dictionary[n] ELSE value]

\* TryAdd is called once per occurrence of a name in the list.
Conflicts(dictionary, list, code) ==
  {<<code, n>> : n \in {m \in Valid(list) :
     m \in DOMAIN dictionary \/ Cardinality({i \in DOMAIN list : list[i] = m}) > 1}}

TakeResource ==
  /\ Iterate("resources", Len(plan.resources))
  /\ LET r == plan.resources[at.index]
     IN IF ~ Identifier(r.id)
        THEN issues' = issues \cup {<<"invalid_identifier", r.id>>} /\ UNCHANGED found
        ELSE /\ found' = [found EXCEPT !.resources = Added(@, {r.id}, r),
                                       !.services = Added(@, Valid(r.provides), r.id),
                                       !.mutators = Added(@, Valid(r.mutates), r.id)]
             /\ issues' = issues
                  \cup Report(r.id \in DOMAIN found.resources, "duplicate_resource", r.id)
                  \cup Report(~ r.digest, "invalid_digest", r.id)
                  \cup CheckNames(r.dependencies, r.id) \cup CheckNames(r.requires, r.id)
                  \cup CheckNames(r.provides, r.id) \cup CheckNames(r.mutates, r.id)
                  \cup Conflicts(found.services, r.provides, "provider_conflict")
                  \cup Conflicts(found.mutators, r.mutates, "mutator_conflict")
  /\ UNCHANGED <<edges, closure, order>>

Ids(kind) == Ascending(DOMAIN found[kind])

\* Mutant of Providers: the resources that provide what r requires are not
\* waited for.
ProvidersIgnored(r) == {}

Providers(r) == {found.services[s] : s \in Valid(r.requires) \cap DOMAIN found.services} \ {r.id}

LinkResource ==
  /\ Iterate("resource_edges", Cardinality(DOMAIN found.resources))
  /\ LET id == Ids("resources")[at.index]
         r == found.resources[id]
         known == DOMAIN found.resources
     IN /\ edges' = [edges EXCEPT !.resources =
                       Added(@, {id}, (Valid(r.dependencies) \cap known) \cup Providers(r))]
        /\ issues' = issues
             \cup {<<"missing_dependency", d>> : d \in Valid(r.dependencies) \ known}
             \cup {<<"missing_provider", s>> : s \in Valid(r.requires) \ DOMAIN found.services}
  /\ UNCHANGED <<found, closure, order>>

TakeAsset ==
  /\ Iterate("assets", Len(plan.assets))
  /\ LET a == plan.assets[at.index]
     IN IF ~ Identifier(a.id)
        THEN issues' = issues \cup {<<"invalid_asset_id", a.id>>} /\ UNCHANGED found
        ELSE /\ found' = [found EXCEPT !.assets = Added(@, {a.id}, a)]
             /\ issues' = issues
                  \cup Report(a.id \in DOMAIN found.assets, "duplicate_asset", a.id)
                  \cup Report(~ a.digest, "invalid_digest", a.id)
                  \cup Report(a.critical /\ a.optional, "critical_optional_asset", a.id)
                  \cup Report(Len(a.dependencies) > MaxAssetNames \/ Malformed \in NamesOf(a.dependencies),
                              "invalid_dependencies", a.id)
                  \cup Report(Repeats(a.dependencies), "duplicate_dependency", a.id)
  /\ UNCHANGED <<edges, closure, order>>

LinkAsset ==
  /\ Iterate("asset_edges", Cardinality(DOMAIN found.assets))
  /\ LET id == Ids("assets")[at.index]
         dependencies == Valid(found.assets[id].dependencies)
     IN /\ edges' = [edges EXCEPT !.assets = Added(@, {id}, dependencies \cap DOMAIN found.assets)]
        /\ issues' = issues \cup {<<"missing_asset", d>> : d \in dependencies \ DOMAIN found.assets}
  /\ UNCHANGED <<found, closure, order>>

\* The loops that are over hand on to the next; the queue of critical assets is
\* filled when the edges are complete.
LeaveLoop ==
  \/ Leave("resources", Len(plan.resources), "resource_edges") /\ UNCHANGED closure
  \/ Leave("resource_edges", Cardinality(DOMAIN found.resources), "assets") /\ UNCHANGED closure
  \/ Leave("assets", Len(plan.assets), "asset_edges") /\ UNCHANGED closure
  \/ /\ Leave("asset_edges", Cardinality(DOMAIN found.assets), "closure")
     /\ closure' = [closure EXCEPT
          !.pending = Ascending({id \in DOMAIN found.assets : found.assets[id].critical})]

\* One pass of the while loop: requiredness goes on to the dependencies.
CloseAsset ==
  /\ at.loop = "closure" /\ closure.pending # << >>
  /\ LET id == Head(closure.pending)
     IN IF id \notin closure.critical
        THEN /\ closure' = [critical |-> closure.critical \cup {id},
                            pending |-> Tail(closure.pending) \o Ascending(edges.assets[id])]
             /\ issues' = issues \cup Report(found.assets[id].optional, "critical_optional_asset", id)
        ELSE closure' = [closure EXCEPT !.pending = Tail(@)] /\ UNCHANGED issues
  /\ UNCHANGED <<plan, at, found, edges, order>>

SortLoop == [resources |-> "sort_resources", assets |-> "sort_assets"]

CheckCapabilities ==
  /\ at.loop = "closure" /\ closure.pending = << >>
  /\ issues' = issues
       \cup CheckNames(plan.required, 0) \cup CheckNames(plan.available, 0)
       \cup {<<"missing_capability", c>> : c \in Valid(plan.required) \ Valid(plan.available)}
       \cup Report(~ plan.budget_fits, "invalid_recovery_budget", 0)
  /\ at' = [at EXCEPT !.loop = SortLoop.resources]
  /\ UNCHANGED <<plan, found, edges, closure, order>>

\* Mutant of Ready: one dependency done is enough.
ReadyOnce(E, done) == {id \in DOMAIN E \ done : E[id] = {} \/ E[id] \cap done # {}}

Ready(E, done) == {id \in DOMAIN E \ done : E[id] \subseteq done}

\* Mutant of GoesOn: a wave in which nothing is ready does not end the loop.
GoesOnRegardless(E, done, ready) == done # DOMAIN E

GoesOn(E, done, ready) == done # DOMAIN E /\ ready # {}

\* One wave of Sort: all that is ready goes out in the order of its name; when
\* nothing is, what is left is reported and the loop is left.
Sort(kind, next) ==
  LET E == edges[kind]
      done == NamesOf(order[kind])
      ready == Ready(E, done)
  IN /\ at.loop = SortLoop[kind]
     /\ IF GoesOn(E, done, ready)
        THEN order' = [order EXCEPT ![kind] = @ \o Ascending(ready)] /\ UNCHANGED <<at, issues>>
        ELSE /\ issues' = issues \cup Report(done # DOMAIN E, "dependency_cycle", kind)
             /\ at' = [at EXCEPT !.loop = next]
             /\ UNCHANGED order
     /\ UNCHANGED <<plan, found, edges, closure>>

Validate ==
  \/ Header \/ TakeResource \/ LinkResource \/ TakeAsset \/ LinkAsset \/ LeaveLoop
  \/ CloseAsset \/ CheckCapabilities
  \/ Sort("resources", SortLoop.assets) \/ Sort("assets", "done")

PlanNext == Validate \/ (at.loop = "done" /\ UNCHANGED planVars)

\* The validator runs until it answers.
PlanSpec == PlanInit /\ [][PlanNext]_planVars /\ WF_planVars(Validate)

-----------------------------------------------------------------------------
\* What a plan must be, said of the document alone.
Positions(list) == {i \in DOMAIN list : Identifier(list[i].id)}
With(list, id) == list[CHOOSE i \in DOMAIN list : list[i].id = id]
Present(list) == {list[i].id : i \in Positions(list)}

\* Every definition has a name of its own.
Regular(list) ==
  Positions(list) = DOMAIN list /\ Cardinality(Present(list)) = Len(list)

\* The graph of a plan: declared dependencies that are there, and for a
\* resource the others that provide what it requires.
WaitsFor(kind, id) ==
  LET list == plan[kind]
      named == Valid(With(list, id).dependencies) \cap Present(list)
  IN IF kind = "assets" THEN named
     ELSE named \cup {p \in Present(list) \ {id} :
            Valid(With(list, p).provides) \cap Valid(With(list, id).requires) # {}}

\* A walk of n steps from id.
Walks(kind, id, n) ==
  {w \in [0 .. n -> Present(plan[kind])] : w[0] = id /\ \A k \in 1 .. n : w[k] \in WaitsFor(kind, w[k - 1])}
Size(kind) == Cardinality(Present(plan[kind]))
Reached(kind, id) == UNION {{w[n] : w \in Walks(kind, id, n)} : n \in 0 .. Size(kind)}
OnCycle(kind, id) == \E n \in 1 .. Size(kind) : \E w \in Walks(kind, id, n) : w[n] = id
\* What never becomes ready, and how long the longest walk is from what does.
Stuck(kind) == {id \in Present(plan[kind]) : \E other \in Reached(kind, id) : OnCycle(kind, other)}
Depth(kind, id) ==
  CHOOSE n \in 0 .. Size(kind) : Walks(kind, id, n) # {} /\ Walks(kind, id, n + 1) = {}

RequiredOptional(id) ==
  /\ With(plan.assets, id).optional
  /\ \E root \in Present(plan.assets) : With(plan.assets, root).critical /\ id \in Reached("assets", root)

Values(kind, field) == {plan[kind][i][field] : i \in DOMAIN plan[kind]}
Brought(field) == UNION {Valid(list) : list \in Values("resources", field)}
Lacking(kind, field, known) == \E list \in Values(kind, field) : ~ Valid(list) \subseteq known
Shared(field) ==
  \E i, j \in DOMAIN plan.resources : i # j /\ Valid(plan.resources[i][field]) \cap Valid(plan.resources[j][field]) # {}
Repeating(field) ==
  \E list \in Values("resources", field) : \E i, j \in DOMAIN list : i < j /\ list[i] = list[j] /\ Identifier(list[i])

\* The relations between definitions, and those that the plan breaks.
Relations ==
  {"provider_conflict", "mutator_conflict", "missing_dependency", "missing_provider",
   "missing_asset", "missing_capability", "critical_optional_asset", "dependency_cycle"}
Broken ==
  {code \in Relations :
     \/ code = "provider_conflict" /\ (Shared("provides") \/ Repeating("provides"))
     \/ code = "mutator_conflict" /\ (Shared("mutates") \/ Repeating("mutates"))
     \/ code = "missing_dependency" /\ Lacking("resources", "dependencies", Present(plan.resources))
     \/ code = "missing_provider" /\ Lacking("resources", "requires", Brought("provides"))
     \/ code = "missing_asset" /\ Lacking("assets", "dependencies", Present(plan.assets))
     \/ code = "missing_capability" /\ ~ Valid(plan.required) \subseteq Valid(plan.available)
     \/ code = "critical_optional_asset" /\ \E id \in Present(plan.assets) : RequiredOptional(id)
     \/ code = "dependency_cycle" /\ (Stuck("resources") # {} \/ Stuck("assets") # {})}

Limited == issues = {<<"collection_limit", 0>>}
Done == at.loop = "done" /\ ~ Limited
Codes == {issue[1] : issue \in issues}

\* Of two providers the first is waited for: the graph is not the plan's.
Compared == IF Shared("provides") THEN Relations \ {"dependency_cycle"} ELSE Relations

\* Validate reports exactly the relations that the plan breaks, whatever else is
\* wrong with it and whichever loop met what first, and an optional asset for
\* exactly those that a critical one needs, however far away; a plan that
\* repeats a name is refused.
DiagnosticsExact ==
  Done =>
    IF Regular(plan.resources) /\ Regular(plan.assets)
    THEN /\ Codes \cap Compared = Broken \cap Compared
         /\ {issue[2] : issue \in {x \in issues : x[1] = "critical_optional_asset"}}
              = {id \in Present(plan.assets) : RequiredOptional(id)}
    ELSE issues # {}

\* The orders hold what does not wait, however far away, for a cycle; each after
\* all it waits for, by the length of the longest wait and then by name, so the
\* order of the document shows nowhere.
OrderByLongestWait ==
  Done /\ Regular(plan.resources) /\ Regular(plan.assets) /\ ~ Shared("provides") =>
    \A kind \in {"resources", "assets"} :
      /\ NamesOf(order[kind]) = Present(plan[kind]) \ Stuck(kind)
      /\ \A i, j \in DOMAIN order[kind] : i < j =>
           LET a == order[kind][i]
               b == order[kind][j]
           IN \/ Depth(kind, a) < Depth(kind, b)
              \/ Depth(kind, a) = Depth(kind, b) /\ a < b
=============================================================================

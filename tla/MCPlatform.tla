----------------------------- MODULE MCPlatform -----------------------------
\* Two parts of the platform core that share no state.  The inbox: a four-bit
\* size_t, a budget of thirteen bytes and three items: payloads that just fit,
\* just do not, and whose charged size wraps.  The plan validator: the plans
\* below.  In one behaviour one of them runs.
EXTENDS BoundedInbox, WorldPlan, SequencesExt

VARIABLE part

Resource(id, dependencies, provides, requires, mutates) ==
  [id |-> id, digest |-> TRUE, dependencies |-> dependencies, provides |-> provides,
   requires |-> requires, mutates |-> mutates]
Asset(id, dependencies, flag) ==
  [id |-> id, digest |-> TRUE, dependencies |-> dependencies,
   critical |-> flag \in {"critical", "both"}, optional |-> flag \in {"optional", "both"}]
PlanOf(resources, assets) ==
  [schema |-> 1, world |-> 1, resources |-> resources, assets |-> assets,
   required |-> << >>, available |-> << >>, budget_fits |-> TRUE]
Subsets(S) == {SetToSortSeq(T, <) : T \in SUBSET S}
\* Every graph of three resources, and of three assets with every flag.
ResourceGraphs ==
  {PlanOf([i \in 1 .. 3 |-> Resource(4 - i, w[i], << >>, << >>, << >>)], << >>) : w \in [1 .. 3 -> Subsets(1 .. 3)]}
AssetGraphs ==
  {PlanOf(<< >>, [i \in 1 .. 3 |-> Asset(4 - i, w[i], f[i])]) :
     w \in [1 .. 3 -> Subsets(1 .. 3)], f \in [1 .. 3 -> {"none", "critical", "optional"}]}
\* Two definitions with repeated, malformed and missing names and services.
NameLists == {<< >>, <<1>>, <<2, 3>>, <<1, 1>>, <<0, 2>>}
ResourcePairs ==
  {PlanOf(<<Resource(1, w[1], p[1], q[1], m), Resource(i, w[2], p[2], q[2], <<1>>)>>, << >>) :
     i \in 0 .. 2, w \in [1 .. 2 -> NameLists], p \in [1 .. 2 -> {<< >>, <<1>>, <<1, 1>>}],
     q \in [1 .. 2 -> {<< >>, <<1>>}], m \in {<< >>, <<1>>}}
AssetPairs ==
  {PlanOf(<< >>, <<Asset(1, w[1], f[1]), Asset(i, w[2], f[2])>>) :
     i \in 0 .. 2, w \in [1 .. 2 -> NameLists], f \in [1 .. 2 -> {"none", "critical", "optional", "both"}]}
\* A chain through services, both kinds at once, and the plan's own fields.
Chain ==
  {PlanOf([i \in 1 .. 3 |-> Resource(i, << >>, <<i>>, q[i], << >>)], [i \in 1 .. 2 |-> Asset(i, <<3 - i>>, "critical")]) :
     q \in [1 .. 3 -> Subsets(1 .. 3)]}
Fields ==
  {[PlanOf([i \in 1 .. n |-> Resource(i, << >>, << >>, << >>, << >>)], << >>) EXCEPT
      !.schema = s, !.world = w, !.required = q, !.available = a, !.budget_fits = b] :
     n \in {3, 4}, s \in 1 .. 2, w \in 0 .. 1, q \in NameLists, a \in NameLists, b \in BOOLEAN}
MCPlans == ResourceGraphs \cup AssetGraphs \cup ResourcePairs \cup AssetPairs \cup Chain \cup Fields

allVars == <<part, vars, planVars>>

\* While the inbox runs, any one plan lies beside it.
Independent == PlanOf([i \in 1 .. 3 |-> Resource(4 - i, << >>, << >>, << >>, << >>)], << >>)

MCInit ==
  /\ Init
  /\ \/ part = "plan" /\ PlanInit
     \/ part = "inbox" /\ plan = Independent /\ PlanInit
MCNext ==
  \/ Next /\ part = "inbox" /\ UNCHANGED <<part, planVars>>
  \/ PlanNext /\ part = "plan" /\ UNCHANGED <<part, vars>>
\* The validator's fairness: it runs until it answers.
MCSpec ==
  /\ MCInit /\ [][MCNext]_allVars
  /\ WF_allVars(part = "plan" /\ Validate /\ UNCHANGED <<part, vars>>)

\* The validator answers on every plan it is given, cycles of critical assets
\* included (WorldPlanValidator.cs, Validate).
Answers == part = "plan" => <>(at.loop = "done")
=============================================================================

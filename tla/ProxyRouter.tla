----------------------------- MODULE ProxyRouter -----------------------------
(***************************************************************************)
(* The rules of the Frontier proxy's Router (frontier/proxy/src/router.rs),*)
(* which build_router (listener.rs) adds one by one, in the order a hash   *)
(* map of the configuration gives them.                                    *)
(***************************************************************************)
EXTENDS Integers, Sequences, FiniteSets, SequencesExt

CONSTANT Rules     \* the configured rules: a set of [prefix, header, priority, cluster]

ASSUME RulesAssumption == \A r \in Rules : r.priority \in Nat

VARIABLES
    tRules,        \* rules
    tAdded         \* history: the rules as they were added

tVars == <<tRules, tAdded>>

TTypeOK == tRules \in Seq(Rules) /\ tAdded \in Seq(Rules) /\ Len(tRules) = Len(tAdded)

TInit == tRules = <<>> /\ tAdded = <<>>
-----------------------------------------------------------------------------
(* sort_by_key, which is stable, on Reverse(priority)                      *)

Before(rules, i, j) ==
    \/ rules[i].priority > rules[j].priority
    \/ rules[i].priority = rules[j].priority /\ i < j
\* A sort that does not keep the order of equals.
BeforeUnstable(rules, i, j) ==
    \/ rules[i].priority > rules[j].priority
    \/ rules[i].priority = rules[j].priority /\ i > j

PlaceOfRule(rules, i) == Cardinality({j \in DOMAIN rules : Before(rules, j, i)}) + 1
Sorted(rules) == [k \in DOMAIN rules |-> rules[CHOOSE i \in DOMAIN rules : PlaceOfRule(rules, i) = k]]

AddRule(r) ==
    /\ r \notin Range(tAdded)
    /\ tRules' = Sorted(Append(tRules, r))
    /\ tAdded' = Append(tAdded, r)

TNext == \E r \in Rules : AddRule(r)

TSpec == TInit /\ [][TNext]_tVars
-----------------------------------------------------------------------------
(* find_rule: of a request it matters whether it has the prefix and the    *)
(* header that rules may ask for.                                          *)

Reqs == [prefix : BOOLEAN, header : BOOLEAN]
Fits(rule, req) == (rule.prefix => req.prefix) /\ (rule.header => req.header)

\* The place of the first rule that fits.
FirstFit(req) ==
    CHOOSE i \in DOMAIN tRules : Fits(tRules[i], req) /\ \A j \in 1 .. i - 1 : ~Fits(tRules[j], req)
FindRule(req) ==
    IF \E i \in DOMAIN tRules : Fits(tRules[i], req) THEN tRules[FirstFit(req)].cluster ELSE "none"
-----------------------------------------------------------------------------
\* A request goes by the rule of the highest priority that fits it, and of
\* those of one priority by the one that was added first; nothing else of the
\* order in which the hash map gave the rules matters (router.rs, add_rule and
\* find_rule).
RouteSound ==
    \A req \in Reqs :
       LET fit == {i \in DOMAIN tAdded : Fits(tAdded[i], req)}
       IN  IF fit = {} THEN FindRule(req) = "none"
           ELSE \E i \in fit : /\ FindRule(req) = tAdded[i].cluster
                               /\ \A j \in fit \ {i} : Before(tAdded, i, j)
=============================================================================

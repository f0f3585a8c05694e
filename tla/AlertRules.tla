----------------------------- MODULE AlertRules -----------------------------
(***************************************************************************)
(* The alert rules and the nodes they cover (internal/model/alert.go,      *)
(* internal/storage/alerts.go, the writes of nodes.go that move or delete  *)
(* nodes).  A rule covers all nodes, groups or listed nodes; a node follows *)
(* for each kind the narrowest rule that covers it.  Every operation is one *)
(* transaction under the write lock.                                       *)
(***************************************************************************)
EXTENDS Integers, FiniteSets

CONSTANTS Nodes,    \* node ids; a deleted one is never given out again
          Groups,   \* names of groups
          RuleIds,  \* as many as there may be rules
          Kinds,    \* kinds of rules
          Resource, \* those about CPU and memory
          Holds,    \* waiting times, in ticks of the engine
          Repeats,  \* intervals between reminders, in ticks; 0: never
          Drafts    \* bound: the rules the administrator tries to save

VARIABLES group, \* the group of a node, or Deleted
          rules  \* alert_rules: the rule of an id, or NoRule

Deleted == "deleted"
NoRule == [scope |-> "none"]
Scopes == {"all", "group", "nodes"}

RuleType == [kind : Kinds, scope : Scopes, groups : SUBSET Groups, nodes : SUBSET Nodes,
             exclude : SUBSET Nodes, hold : Holds, repeat : Repeats]

Known == {n \in Nodes : group[n] # Deleted}
Existing == {id \in RuleIds : rules[id] # NoRule}

\* validateParams; the thresholds are not modelled.
ValidParams(r) == IF r.kind \in Resource THEN r.hold > 0 ELSE r.kind = "offline" \/ r.hold = 0

\* AlertRule.Validate: each scope takes lists of its own.
Valid(r) ==
    /\ ValidParams(r)
    /\ r.scope = "all" => r.groups = {} /\ r.nodes = {}
    /\ r.scope = "group" => r.groups # {} /\ r.nodes = {}
    /\ r.scope = "nodes" => r.nodes # {} /\ r.groups = {} /\ r.exclude = {}

\* How narrowly the rule covers the node: 0 not at all.
Rank(r, n) ==
    CASE r.scope = "nodes" /\ n \in r.nodes -> 3
      [] r.scope = "group" /\ group[n] \in r.groups /\ n \notin r.exclude -> 2
      [] r.scope = "all" /\ n \notin r.exclude -> 1
      [] OTHER -> 0

\* EffectiveAlerts: the narrowest rule of a kind, or none.
Covering(table, n, k) ==
    {id \in RuleIds : table[id] # NoRule /\ table[id].kind = k /\ Rank(table[id], n) > 0}

Effective(table, n, k) ==
    IF Covering(table, n, k) = {} THEN NoRule
    ELSE table[CHOOSE id \in Covering(table, n, k) :
                 \A other \in Covering(table, n, k) : Rank(table[other], n) <= Rank(table[id], n)]

\* Mutant: groups are not compared.
SharesNodesOnly(r, o) ==
    /\ o.kind = r.kind /\ o.scope = r.scope
    /\ r.scope = "all" \/ r.nodes \cap o.nodes # {}

\* Rules of one kind and scope that compete on a node.
Shares(r, o) ==
    /\ o.kind = r.kind /\ o.scope = r.scope
    /\ r.scope = "all" \/ r.groups \cap o.groups # {} \/ r.nodes \cap o.nodes # {}

Overlaps(table, id) ==
    \E other \in RuleIds \ {id} : table[other] # NoRule /\ Shares(table[id], table[other])

RulesInit ==
    /\ group \in [Nodes -> Groups]
    /\ rules = [id \in RuleIds |-> NoRule]

\* SaveAlertRule, for a new rule and an existing one.
SaveAlertRule(id, r) ==
    LET table == [rules EXCEPT ![id] = r]
    IN /\ Valid(r) /\ r.nodes \cup r.exclude \subseteq Known
       /\ ~Overlaps(table, id)
       /\ rules' = table
       /\ UNCHANGED group

DeleteAlertRule(id) ==
    /\ rules[id] # NoRule
    /\ rules' = [rules EXCEPT ![id] = NoRule]
    /\ UNCHANGED group

\* forgetNodeInRules
Forgets(r, n) ==
    IF r = NoRule \/ n \notin r.nodes \cup r.exclude THEN r
    ELSE IF r.scope = "nodes" /\ r.nodes = {n} THEN NoRule
    ELSE [kind |-> r.kind, scope |-> r.scope, groups |-> r.groups, nodes |-> r.nodes \ {n},
          exclude |-> r.exclude \ {n}, hold |-> r.hold, repeat |-> r.repeat]

\* DeleteNode; what it does to the alert states is up to the caller.
DropNode(n) ==
    /\ n \in Known
    /\ group' = [group EXCEPT ![n] = Deleted]
    /\ rules' = [id \in RuleIds |-> Forgets(rules[id], n)]

\* SaveNode, or SaveNodes on a selection
SaveNodes(ns, g) ==
    /\ ns # {} /\ ns \subseteq Known
    /\ group' = [n \in Nodes |-> IF n \in ns THEN g ELSE group[n]]
    /\ UNCHANGED rules

Renamed(r, from, to) ==
    IF r = NoRule \/ r.scope # "group" \/ from \notin r.groups THEN r
    ELSE [r EXCEPT !.groups = (@ \ {from}) \cup {to}]

\* A merge after which two rules would compete is refused as a whole.
RenameGroup(from, to) ==
    LET table == [id \in RuleIds |-> Renamed(rules[id], from, to)]
    IN /\ \A id \in RuleIds : table[id] # rules[id] => ~Overlaps(table, id)
       /\ group' = [n \in Nodes |-> IF group[n] = from THEN to ELSE group[n]]
       /\ rules' = table

\* No two rules compete for a node, so which one counts does not depend on the
\* order they were saved in; a rule lists nodes that exist and covers something
\* (alert.go:123-126, alerts.go:44-47 and 110-111), whatever renames, merges,
\* moves and deletions come in between.
RulesClear ==
    /\ \A n \in Known, k \in Kinds :
         \A one, other \in Covering(rules, n, k) :
            one # other => Rank(rules[one], n) # Rank(rules[other], n)
    /\ \A id \in Existing :
         /\ rules[id].nodes \cup rules[id].exclude \subseteq Known
         /\ rules[id].scope = "nodes" => rules[id].nodes # {}

=============================================================================

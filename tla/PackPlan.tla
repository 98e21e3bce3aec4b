------------------------------- MODULE PackPlan -------------------------------
(***************************************************************************)
(* What a plan of a pack says of it, and what applying or removing it does *)
(* (core/catalog packs.ts).  The tenant has two packs: Base, whose levels  *)
(* and defaults vary, and Extra, whose policies, rules and tests do.  The  *)
(* levels are one dimension (visibility and exposure are looked at alike), *)
(* a pack lists one of two tags, and its policies permit or forbid one     *)
(* decision.  Labels, facets' own flags and version numbers are left out.  *)
(***************************************************************************)
EXTENDS Integers, SequencesExt

CONSTANTS
    Reorders,    \* whether a pack may come with its rules in another order
    MaxEvents    \* BOUND: applied, removed, reviewed, proposed, upgraded

VARIABLES
    tenant,   \* its default level, and its approved and proposed values
    stored,   \* tenant_packs
    hand,     \* the plan an admin was shown
    events

vars == <<tenant, stored, hand, events>>

None == "none"
Base == "base"
Extra == "extra"
Names == {Base, Extra}

\* The tag packs list, and one whose value is approved and open.
Tags == {1, 2}
Ranks == {0, 1}     \* 0 is the stricter
Unset == 2          \* a value that sets no level lets most through
Unlisted == 3

\* policy: the effect of the text under its one id; rules: the tags its rules
\* give, in their order; test: a decision denied, or a level of its tag.
Nothing == [defaults |-> Unset, value |-> Unlisted, policy |-> None,
            rules |-> <<>>, test |-> None]
Policed == {[Nothing EXCEPT !.policy = p] : p \in {"permit", "forbid"}}
Ruled == {[Nothing EXCEPT !.rules = r] :
              r \in {<<1>>, <<1, 2>>}
                        \cup IF Reorders THEN {<<2, 1>>} ELSE {}}

Contents(name) ==
    IF name = Base
    THEN {[Nothing EXCEPT !.policy = "forbid"]}
             \cup {[Nothing EXCEPT !.defaults = d, !.value = v] :
                       d \in Ranks \cup {Unset},
                       v \in Ranks \cup {Unset, Unlisted}}
    ELSE {[c EXCEPT !.test = t] :
              c \in {Nothing} \cup Policed \cup Ruled,
              t \in {None, "denied", "strict"}}

Kept(name) == [policy : {c.policy : c \in Contents(name)},
               rules : {c.rules : c \in Contents(name)},
               test : {c.test : c \in Contents(name)},
               valid : BOOLEAN, there : BOOLEAN]
NotThere == [policy |-> None, rules |-> <<>>, test |-> None,
             valid |-> TRUE, there |-> FALSE]

Values == [at : {"absent", "proposed", "approved"}, level : Ranks \cup {Unset}]
Absent == [at |-> "absent", level |-> Unset]
Tenants == [default : Ranks, value : Values]

\* shown: what the plan says changes, each from what it was ("same": nothing).
Hands == [action : {"apply", "remove", None}, name : Names,
          content : UNION {Contents(n) : n \in Names},
          shown : [default : BOOLEAN, from : Values, value : BOOLEAN,
                   policy : {"same", None, "permit", "forbid"},
                   rules : BOOLEAN, broken : BOOLEAN],
          loosens : BOOLEAN, passes : BOOLEAN]
Same == [default |-> FALSE, from |-> Absent, value |-> FALSE,
         policy |-> "same", rules |-> FALSE, broken |-> FALSE]
Empty == [action |-> None, name |-> Base, content |-> Nothing,
          shown |-> Same, loosens |-> FALSE, passes |-> FALSE]

TypeOK ==
    /\ tenant \in Tenants /\ hand \in Hands /\ events \in 0..MaxEvents
    /\ DOMAIN stored = Names /\ \A n \in Names : stored[n] \in Kept(n)

(***************************************************************************)
(* Levels, and what the policies come to.                                  *)
(***************************************************************************)

\* The strictest of the levels set, or the default where none is.
Strictest(levels, default) ==
    IF levels \ {Unset} = {} THEN default ELSE Min(levels \ {Unset})

LevelOf(t, value) ==
    CASE t = 2 -> 1
      [] t = 1 /\ value.at = "approved" -> value.level
      [] OTHER -> Unset

Level(tags, value, default) ==
    Strictest({LevelOf(t, value) : t \in tags}, default)

\* A forbid takes precedence; policies are those of every pack applied.
Allowed(policies) == "permit" \in policies /\ "forbid" \notin policies

Valid(name) == stored[name].valid
Others(name) == {n \in Names \ {name} : stored[n].there /\ Valid(n)}
OthersPolicies(name) == {stored[n].policy : n \in Others(name)}

\* A test's decision, or level, in the tenant as the plan would leave it.
Passed(test, policies, value, default) ==
    CASE test = "denied" -> ~Allowed(policies)
      [] test = "strict" -> /\ value.at = "approved"
                            /\ Level({1}, value, default) = 0
      [] OTHER -> TRUE

\* Mutant: only the planned pack's own tests are run.
TestsOf_Own(name, own) == {own}
TestsOf(name, own) == {own} \cup {stored[n].test : n \in Others(name)}

(***************************************************************************)
(* The plan of an apply.                                                   *)
(***************************************************************************)
Looser(from, to) == to > from
Effective(level, default) == IF level = Unset THEN default ELSE level

After(content) ==
    IF content.defaults = Unset THEN tenant.default ELSE content.defaults

ValueAfter(content) ==
    IF content.value = Unlisted THEN tenant.value
    ELSE [at |-> "approved", level |-> content.value]

\* Mutant: a level taken off is as loose as the default it falls back to.
LevelLoosens_Effective(content) ==
    Looser(Effective(tenant.value.level, tenant.default),
           Effective(content.value, After(content)))

\* Both as set and with the default filling in.
LevelLoosens(content) ==
    \/ Looser(tenant.value.level, content.value)
    \/ Looser(Effective(tenant.value.level, tenant.default),
              Effective(content.value, After(content)))

\* Mutant: a proposed value is as one the tenant doesn't have.
ValueLoosens_New(content) ==
    /\ content.value \in Ranks
    /\ Looser(After(content), content.value)

ValueLoosens(content) ==
    CASE tenant.value.at = "absent" ->
           content.value \in Ranks /\ Looser(After(content), content.value)
      [] tenant.value.at = "proposed" -> TRUE
      [] OTHER -> LevelLoosens(content)

\* Mutant: a forbid that is changed or gone isn't told of.
PolicyLoosens_Added(from, to) == to = "permit" /\ from /= to

\* A permit added or changed, or a forbid removed or changed.
PolicyLoosens(from, to) == from /= to /\ (to = "permit" \/ from = "forbid")

\* Mutant: only rules added are told of.
RulesLoosen_Added(from, to) == ToSet(to) \ ToSet(from) /= {}

\* Rules by their ids, in whatever order: any that comes, goes or changes.
RulesLoosen(from, to) == ToSet(from) /= ToSet(to)

\* Shown as gone, and all of this version as new.
Broken(name) == stored[name].there /\ ~Valid(name)

PlanToApply(name, content) ==
    LET s == stored[name]
        broken == Broken(name)
        default == After(content) /= tenant.default
        value == ValueAfter(content) /= tenant.value
        policy == s.policy /= content.policy
                      \/ (broken /\ {s.policy, content.policy} /= {None})
        rules == RulesLoosen(s.rules, content.rules)
                     \/ (broken /\ (s.rules /= <<>> \/ content.rules /= <<>>))
        policies == OthersPolicies(name) \cup {content.policy}
    IN [action |-> "apply", name |-> name, content |-> content,
        shown |-> [default |-> default, value |-> value,
                   from |-> IF value THEN tenant.value ELSE Absent,
                   policy |-> IF policy THEN s.policy ELSE "same",
                   rules |-> rules, broken |-> broken],
        loosens |-> \/ default /\ Looser(tenant.default, After(content))
                    \/ value /\ ValueLoosens(content)
                    \/ policy /\ (broken \/ PolicyLoosens(s.policy,
                                                          content.policy))
                    \/ rules,
        passes |-> \A t \in TestsOf(name, content.test) :
                       Passed(t, policies, ValueAfter(content),
                              After(content))]

\* Mutant: nothing is tested when a pack goes.
TestedWithout_Not(name) == {}
TestedWithout(name) == {stored[n].test : n \in Others(name)}

\* Its rules and policies go, its vocabulary stays; the tests of another that
\* no longer validates aren't run.
PlanToRemove(name) ==
    LET s == stored[name]
    IN [action |-> "remove", name |-> name, content |-> Nothing,
        shown |-> [Same EXCEPT
            !.policy = IF s.policy /= None THEN s.policy ELSE "same",
            !.rules = RulesLoosen(s.rules, <<>>), !.broken = Broken(name)],
        loosens |-> \/ PolicyLoosens(s.policy, None)
                    \/ RulesLoosen(s.rules, <<>>),
        passes |-> \A t \in TestedWithout(name) :
                       Passed(t, OthersPolicies(name), tenant.value,
                              tenant.default)]

\* Another pack that no longer validates stops every plan but a removal's.
Plannable(name) ==
    \A n \in Names \ {name} : stored[n].there => Valid(n)

\* A plan only reads: one that is never applied may as well not be made.
Plan ==
    /\ hand = Empty /\ events < MaxEvents
    /\ \/ \E n \in Names : \E c \in Contents(n) :
            Plannable(n) /\ hand' = PlanToApply(n, c)
       \/ \E n \in Names : stored[n].there /\ hand' = PlanToRemove(n)
    /\ UNCHANGED <<tenant, stored, events>>

(***************************************************************************)
(* Applied, or removed, in a serializable transaction: planned again.      *)
(***************************************************************************)
Counted == events < MaxEvents /\ events' = events + 1

\* Mutant: any plan of that pack will do.
AsShown_Any(plan) == TRUE

\* checkPlan(): the very plan, and no test failed.
AsShown(plan) == plan = hand

Applied(name, content) ==
    /\ tenant' = [default |-> After(content), value |-> ValueAfter(content)]
    /\ stored' = [stored EXCEPT ![name] =
           [policy |-> content.policy, rules |-> content.rules,
            test |-> content.test, valid |-> TRUE, there |-> TRUE]]

applyPack ==
    /\ hand.action = "apply" /\ Plannable(hand.name)
    /\ LET plan == PlanToApply(hand.name, hand.content)
       IN AsShown(plan) /\ plan.passes
    /\ Applied(hand.name, hand.content)
    /\ hand' = Empty /\ Counted

removePack ==
    /\ hand.action = "remove" /\ stored[hand.name].there
    /\ LET plan == PlanToRemove(hand.name)
       IN AsShown(plan) /\ plan.passes
    /\ stored' = [stored EXCEPT ![hand.name] = NotThere]
    /\ hand' = Empty /\ Counted
    /\ UNCHANGED tenant

(***************************************************************************)
(* Meanwhile.                                                              *)
(***************************************************************************)

\* Another admin's, planned and applied at once.
OtherApplies ==
    /\ hand /= Empty
    /\ \E n \in Names : \E c \in Contents(n) :
         /\ Plannable(n) /\ PlanToApply(n, c).passes
         /\ Applied(n, c)
    /\ UNCHANGED hand /\ Counted

\* A model or a rule proposes the value, and a reviewer approves it.
Propose ==
    /\ tenant.value.at = "absent"
    /\ tenant' = [tenant EXCEPT !.value.at = "proposed"]
    /\ UNCHANGED <<stored, hand>> /\ Counted
Approve ==
    /\ tenant.value.at = "proposed"
    /\ tenant' = [tenant EXCEPT !.value.at = "approved"]
    /\ UNCHANGED <<stored, hand>> /\ Counted

\* The server is upgraded: stored packs no longer pass today's checks.
Upgrade ==
    /\ \E broken \in SUBSET {n \in Names : stored[n].there} \ {{}} :
         stored' = [n \in Names |->
             IF n \in broken THEN [stored[n] EXCEPT !.valid = FALSE]
             ELSE stored[n]]
    /\ UNCHANGED <<tenant, hand>> /\ Counted

Init ==
    /\ tenant \in [default : Ranks, value : {Absent}]
    /\ stored = [n \in Names |-> NotThere]
    /\ hand = Empty /\ events = 0

Next ==
    \/ Plan \/ applyPack \/ removePack
    \/ OtherApplies \/ Propose \/ Approve \/ Upgrade

Spec == Init /\ [][Next]_vars

(***************************************************************************)
(* What it is for.                                                         *)
(***************************************************************************)

\* What the packs applied let through, those that no longer validate too.
Policies(packs) == {packs[n].policy : n \in Names}

\* Of the rules that match a file, the first gives the facet its value.
Given(packs) ==
    LET rules == packs[Extra].rules
    IN IF rules = <<>> THEN {} ELSE {Head(rules)}

\* Some file, with tags of its own, is let through more.
Opened ==
    \/ \E own \in SUBSET Tags, ruled \in BOOLEAN :
         LET By(packs) == own \cup IF ruled THEN Given(packs) ELSE {}
         IN Level(By(stored'), tenant'.value, tenant'.default)
                > Level(By(stored), tenant.value, tenant.default)
    \/ Allowed(Policies(stored')) /\ ~Allowed(Policies(stored))

\* Whatever became of the tenant since, an admin who applies or removes a pack
\* was told that it lets something through which was not.
ToldOfLoosening ==
    (hand /= Empty /\ hand' = Empty) => (Opened => hand.loosens)

\* While all packs validate, the tests of each hold.
GuaranteesHold ==
    (\A n \in Names : Valid(n)) =>
        \A n \in Names :
            Passed(stored[n].test, Policies(stored), tenant.value,
                   tenant.default)

\* A pack that no longer validates, which stops everything, can be fixed.
CanBeFixed ==
    \A n \in Names : Broken(n) /\ Plannable(n) =>
        \E c \in Contents(n) : PlanToApply(n, c).passes

\* Every step, and the state it leaves.
PlansHold == ToldOfLoosening /\ (GuaranteesHold /\ CanBeFixed)'
=============================================================================

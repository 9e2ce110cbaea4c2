-------------------------------- MODULE Router --------------------------------
(***************************************************************************)
(* How a Crow application finds the handler of a request (crow_all.h): the *)
(* rules an application registers, their validation when it is run, one    *)
(* trie of URLs per method, its optimisation, and the search of a request  *)
(* in it (Trie, Router, BaseRule and WebSocketRule).                       *)
(*                                                                         *)
(* A path is a sequence of characters and of parameters ("<int>" ...), an  *)
(* URL one of characters. Nodes and rules are numbered from 0 as in the    *)
(* code: node n is trie[method][n + 1].                                    *)
(***************************************************************************)
EXTENDS Naturals, Sequences, FiniteSets
LOCAL INSTANCE SequencesExt
LOCAL INSTANCE FiniteSetsExt

CONSTANTS
    Declared,    \* the rules an application may declare: [path, methods, kind]
    MaxRules,    \* how many it declares
    Urls,        \* the URLs that are asked for
    Asked,       \* the methods they are asked for with
    LongDigits   \* how many digits strtoll can hold

Methods == {"GET", "POST"}  \* the methods the router knows (InternalMethodCount)

(* The ParamTypes in the order they are tried in.                          *)
ParamTypes == <<"<int>", "<uint>", "<double>", "<str>", "<path>">>
Params == ToSet(ParamTypes)
Digits == {"0", "1"}

RULE_SPECIAL_REDIRECT_SLASH == 1

VARIABLES
    all_rules,  \* the rules, in the order of their declaration
    added,      \* how many of them are in the tries
    trie,       \* per method, the nodes: [rule_index, params, children]
    rules,      \* per method, the rules by index (0 and 1 are taken)
    phase,      \* "declare", "add", "optimize", "run" or "failed"
    answer      \* the last request and what became of it

vars == <<all_rules, added, trie, rules, phase, answer>>

Node == [rule_index |-> 0, params |-> [t \in Params |-> 0], children |-> {}]
IsSimpleNode(n) == n.rule_index = 0 /\ \A t \in Params : n.params[t] = 0

Init ==
    /\ all_rules = <<>> /\ added = 0
    /\ trie = [m \in Methods |-> <<Node>>]
    /\ rules = [m \in Methods |-> <<0, 0>>]
    /\ phase = "declare" /\ answer = <<>>

----------------------------------------------------------------------------
(* Trie::add: one node for each character or parameter that is not there   *)
(* yet. 0 stands for the exception "handler already exists".               *)
Walk(nodes, path) ==
    LET Step(a, p) ==
            LET here == a.nodes[a.at + 1]
                next == Len(a.nodes)
                kids == {k \in here.children : k[1] = <<p>>}
            IN  CASE p \in Params /\ here.params[p] # 0 -> [a EXCEPT !.at = here.params[p]]
                  [] p \in Params /\ here.params[p] = 0 ->
                        [nodes |-> Append([a.nodes EXCEPT ![a.at + 1].params[p] = next], Node), at |-> next]
                  [] p \notin Params /\ kids # {} -> [a EXCEPT !.at = (CHOOSE k \in kids : TRUE)[2]]
                  [] OTHER -> [nodes |-> Append([a.nodes EXCEPT ![a.at + 1].children = @ \cup {<<<<p>>, next>>}], Node),
                               at |-> next]
    IN  FoldLeft(Step, [nodes |-> nodes, at |-> 0], path)

Add(nodes, path, rule_index) ==
    LET w == Walk(nodes, path) IN
    IF w.nodes[w.at + 1].rule_index # 0 THEN <<>> ELSE [w.nodes EXCEPT ![w.at + 1].rule_index = rule_index]

(* Trie::optimizeNode: while all the children of a node by characters are  *)
(* simple, the node takes over theirs.                                     *)
Child(nodes, k) == nodes[k[2] + 1]

RECURSIVE OptimizeNode(_, _)
OptimizeNode(nodes, n) ==
    LET here == nodes[n + 1]
        In(acc, c) == OptimizeNode(acc, c)
        below == FoldLeft(In, nodes, SetToSeq({here.params[t] : t \in Params} \ {0}))
        merge == \A k \in here.children : IsSimpleNode(Child(nodes, k))
        merged == UNION {{<<k[1] \o c[1], c[2]>> : c \in Child(below, k).children} : k \in here.children}
    IN  IF here.children = {} THEN below
        ELSE IF merge THEN OptimizeNode([below EXCEPT ![n + 1].children = merged], n)
        ELSE FoldLeft(In, below, SetToSeq({k[2] : k \in here.children}))

----------------------------------------------------------------------------
(* Where a parameter that starts at position p of an URL ends; 0 if it is  *)
(* none. strtoll and its like take as much as they can and refuse what     *)
(* does not fit.                                                           *)
Run(url, p) == Max({n \in 0..(Len(url) - p + 1) : \A i \in p..(p + n - 1) : url[i] \in Digits})
Signed(url, p, signs) == IF p <= Len(url) /\ url[p] \in signs THEN p + 1 ELSE p

WholeEnd(url, p, signs) ==
    LET q == Signed(url, p, signs)
        n == Run(url, q)
    IN  IF n \in 1..LongDigits THEN q + n ELSE 0

DoubleEnd(url, p) ==
    LET q == Signed(url, p, {"+", "-"})
        n == Run(url, q)
        point == q + n <= Len(url) /\ url[q + n] = "."
        f == IF point THEN Run(url, q + n + 1) ELSE 0
    IN  IF n + f = 0 THEN 0 ELSE IF point THEN q + n + 1 + f ELSE q + n

ParamEnd(t, url, p) ==
    CASE t = "<int>"    -> WholeEnd(url, p, {"+", "-"})
      [] t = "<uint>"   -> WholeEnd(url, p, {"+"})
      [] t = "<double>" -> DoubleEnd(url, p)
      [] t = "<str>"    -> IF url[p] = "/" THEN 0
                           ELSE Max({q \in p..(Len(url) + 1) : \A i \in p..(q - 1) : url[i] # "/"})
      [] t = "<path>"   -> Len(url) + 1

(* update_found: of two finds the one with the lower index.                *)
BetterMutant(best, ret) == IF ret[1] # 0 /\ (best[1] = 0 \/ best[1] < ret[1]) THEN ret ELSE best

Better(best, ret) == IF ret[1] # 0 /\ (best[1] = 0 \/ best[1] > ret[1]) THEN ret ELSE best

(* Trie::find, from a node and a position on: the rule with the lowest     *)
(* index of all that match, and the parameters on the way to it.           *)
RECURSIVE Find(_, _, _, _, _)
Find(nodes, n, url, p, params) ==
    LET here == nodes[n + 1]
        ends == [t \in Params |-> IF here.params[t] = 0 THEN 0 ELSE ParamEnd(t, url, p)]
        tried == SelectSeq(ParamTypes, LAMBDA t : ends[t] # 0)
        byParam == [i \in 1..Len(tried) |->
                        Find(nodes, here.params[tried[i]], url, ends[tried[i]],
                             Append(params, <<tried[i], SubSeq(url, p, ends[tried[i]] - 1)>>))]
        fit == {k \in here.children : p + Len(k[1]) - 1 <= Len(url)}
        byChild == {Find(nodes, k[2], url, p + Len(k[1]), params) :
                       k \in {c \in fit : SubSeq(url, p, p + Len(c[1]) - 1) = c[1]}}
    IN  IF p > Len(url) THEN <<here.rule_index, params>>
        ELSE FoldLeft(Better, <<0, <<>>>>, byParam \o SetToSeq(byChild))

----------------------------------------------------------------------------
(* new_rule_dynamic, new_rule_tagged: rules are declared one by one.       *)
Declare(r) ==
    /\ phase = "declare" /\ Len(all_rules) < MaxRules
    /\ all_rules' = Append(all_rules, r)
    /\ UNCHANGED <<added, trie, rules, phase, answer>>

(* Router::validate, one rule at a time. A websocket takes the place of    *)
(* the rule it was made from, but answers GET only; a rule without a       *)
(* handler ends the application. A rule with a slash at its end is entered *)
(* a second time without it, as a redirection.                             *)
Effective(r) == IF r.kind = "websocket" THEN [r EXCEPT !.methods = {"GET"}] ELSE r

Enter(m, path) ==
    LET with == Add(trie[m], path, Len(rules[m])) IN
    IF with # <<>> /\ Len(path) > 1 /\ path[Len(path)] = "/"
    THEN Add(with, SubSeq(path, 1, Len(path) - 1), RULE_SPECIAL_REDIRECT_SLASH)
    ELSE with

AddRule ==
    /\ phase \in {"declare", "add"} /\ added < Len(all_rules)
    /\ LET r == Effective(all_rules[added + 1])
           entered == [m \in Methods |-> IF m \in r.methods THEN Enter(m, r.path) ELSE trie[m]]
           fails == r.kind = "bare" \/ \E m \in Methods : entered[m] = <<>>
       IN  /\ phase' = IF fails THEN "failed" ELSE "add"
           /\ trie' = IF fails THEN trie ELSE entered
           /\ rules' = IF fails THEN rules
                       ELSE [m \in Methods |-> IF m \in r.methods THEN Append(rules[m], added + 1) ELSE rules[m]]
    /\ added' = added + 1
    /\ UNCHANGED <<all_rules, answer>>

(* Trie::validate for each method.                                         *)
Optimize ==
    /\ phase \in {"declare", "add"} /\ added = Len(all_rules)
    /\ IF \E m \in Methods : ~IsSimpleNode(trie[m][1])
       THEN phase' = "failed" /\ UNCHANGED trie
       ELSE phase' = "run" /\ trie' = [m \in Methods |-> OptimizeNode(trie[m], 0)]
    /\ UNCHANGED <<all_rules, added, rules, answer>>

(* Router::handle and handle_upgrade. A method the router does not know is *)
(* not answered at all. A request changes nothing in the router: one of    *)
(* them is enough.                                                         *)
Outcome(found, m, upgrade) ==
    CASE found[1] = 0 -> "404"
      [] found[1] # 0 /\ found[1] >= Len(rules[m]) -> "corrupted"
      [] found[1] = RULE_SPECIAL_REDIRECT_SLASH /\ found[1] < Len(rules[m]) -> "301"
      [] OTHER -> IF (all_rules[rules[m][found[1] + 1]].kind = "websocket") = upgrade THEN "handler" ELSE "404"

Handle(m, url, upgrade) ==
    /\ phase = "run" /\ answer = <<>>
    /\ answer' = IF m \notin Methods THEN [method |-> m, url |-> url, outcome |-> "none", rule |-> 0, params |-> <<>>,
                                              upgrade |-> upgrade]
                 ELSE LET found == Find(trie[m], 0, url, 1, <<>>) IN
                      [method |-> m, url |-> url, outcome |-> Outcome(found, m, upgrade),
                       rule |-> IF found[1] \in 2..(Len(rules[m]) - 1) THEN rules[m][found[1] + 1] ELSE 0,
                       params |-> found[2], upgrade |-> upgrade]
    /\ UNCHANGED <<all_rules, added, trie, rules, phase>>

Next ==
    \/ \E r \in Declared : Declare(r)
    \/ AddRule
    \/ Optimize
    \/ \E m \in Asked, url \in Urls, upgrade \in BOOLEAN : Handle(m, url, upgrade)

Spec == Init /\ [][Next]_vars

----------------------------------------------------------------------------
(* What an application means by its rules: a path matches an URL when each *)
(* of its characters does and each parameter takes what it can.            *)
RECURSIVE Values(_, _, _, _)
Values(path, i, url, p) ==
    LET q == IF p <= Len(url) /\ path[i] \in Params THEN ParamEnd(path[i], url, p) ELSE 0 IN
    CASE i > Len(path) -> IF p > Len(url) THEN {<<>>} ELSE {}
      [] i <= Len(path) /\ path[i] \in Params ->
            IF q = 0 THEN {} ELSE {<<<<path[i], SubSeq(url, p, q - 1)>>>> \o v : v \in Values(path, i + 1, url, q)}
      [] OTHER -> IF p <= Len(url) /\ url[p] = path[i] THEN Values(path, i + 1, url, p + 1) ELSE {}

Matches(r, url) == Values(r.path, 1, url, 1) # {}
HasSlash(r) == Len(r.path) > 1 /\ r.path[Len(r.path)] = "/"
WithoutSlash(r) == [r EXCEPT !.path = SubSeq(@, 1, Len(@) - 1)]
For(m) == {i \in 1..Len(all_rules) : m \in Effective(all_rules[i]).methods}
Redirects(m, url) == \E i \in For(m) : HasSlash(all_rules[i]) /\ Matches(WithoutSlash(all_rules[i]), url)
First(m, url) == {i \in For(m) : Matches(all_rules[i], url) /\ \A j \in For(m) : Matches(all_rules[j], url) => i <= j}

(* Type correctness; a trie never names a node or a rule that is not there *)
(* ("Trie internal structure corrupted!", crow_all.h:8500, 8564).          *)
TypeOK ==
    /\ phase \in {"declare", "add", "optimize", "run", "failed"}
    /\ \A m \in Methods : \A n \in ToSet(trie[m]) :
          /\ n.rule_index < Len(rules[m])
          /\ \A t \in Params : n.params[t] < Len(trie[m])
          /\ \A k \in n.children : k[1] # <<>> /\ k[2] \in 1..(Len(trie[m]) - 1)

(* The answer to a request is that of the first rule that was declared     *)
(* among those that match its URL, with the parameters that rule has       *)
(* there; a redirection comes before all of them. Sharing nodes between    *)
(* rules and merging nodes makes no difference (crow_all.h:8106, 8164).    *)
FirstRuleAnswers ==
    answer # <<>> /\ answer.method \in Methods =>
        CASE Redirects(answer.method, answer.url) -> answer.outcome = "301"
          [] ~Redirects(answer.method, answer.url) /\ First(answer.method, answer.url) = {} -> answer.outcome = "404" /\ answer.rule = 0
          [] OTHER -> \E i \in First(answer.method, answer.url) :
                          /\ answer.rule = i
                          /\ answer.params \in Values(all_rules[i].path, 1, answer.url, 1)
                          /\ answer.outcome = IF (all_rules[i].kind = "websocket") = answer.upgrade THEN "handler" ELSE "404"

(* An application runs if and only if no two of its rules have the same    *)
(* path for the same method, a redirection counting as a rule, and every   *)
(* rule has a handler: no rule is silently hidden by its twin              *)
(* (crow_all.h:8340).                                                      *)
Entries(i) == {all_rules[i].path} \cup IF HasSlash(all_rules[i]) THEN {WithoutSlash(all_rules[i]).path} ELSE {}
Twins == \E i, j \in 1..Len(all_rules) :
            /\ i # j /\ Entries(i) \cap Entries(j) # {}
            /\ Effective(all_rules[i]).methods \cap Effective(all_rules[j]).methods # {}

TwinsAreRefused ==
    /\ phase = "run" => ~Twins
    /\ phase = "failed" => Twins \/ \E i \in 1..Len(all_rules) : all_rules[i].kind = "bare"

(* A redirection leads to a page: the URL with a slash at its end is       *)
(* answered by a rule and not redirected again ("request to `/about' url   *)
(* matches `/about/' rule", crow_all.h:8452).                              *)
RedirectionsEnd ==
    answer # <<>> /\ answer.outcome = "301" =>
        Find(trie[answer.method], 0, answer.url \o <<"/">>, 1, <<>>)[1] > RULE_SPECIAL_REDIRECT_SLASH
=============================================================================

----------------------------- MODULE XrayConfig -----------------------------
(***************************************************************************)
(* From an imported document to the configuration of the engine:           *)
(* ConfigParser.parseRawJson picks the main outbound and, round by round,  *)
(* the outbounds it is chained to; RoutingRuleValidator accepts the user's *)
(* routing rules; ConfigBuilder.build puts both together with the routing  *)
(* preset.                                                                 *)
(*                                                                         *)
(* An outbound is reduced to its tag, its references and whether its       *)
(* protocol is a utility; a rule to the kinds of traffic it hits.          *)
(***************************************************************************)
EXTENDS Naturals, Sequences

CONSTANTS
    Tag,             \* tags of outbounds
    None,
    Inputs           \* what is imported, see Input

Outbound == [tag : Tag \cup {None},
             dialer : Tag \cup {None},     \* streamSettings.sockopt.dialerProxy
             legacy : Tag \cup {None},     \* proxySettings.tag
             utility : BOOLEAN]            \* freedom, blackhole or dns

Traffic == {"dns", "private", "region", "ads", "quic", "any"}
Rule == [formed : BOOLEAN,                 \* an object with type and tag
         enabled : BOOLEAN,
         to : Tag,
         hits : SUBSET Traffic,            \* domain, ip and port
         shape : {"plain", "odd", "bad"}]  \* odd: an element is no string,
                                           \* bad: domain or ip is no array
Input == [doc : Seq(Outbound), rules : Seq(Rule),
          preset : {"global", "ru"}, geo : {"loyalsoldier", "v2fly"}]

ASSUME ConfigAssumption ==
    /\ {"proxy", "direct", "block", "dns-out"} \subseteq Tag
    /\ None \notin Tag
    /\ Inputs \subseteq Input

VARIABLES
    input,
    stage,           \* "import", "round", "rules", "build", "done"
    main,            \* the index of the main outbound, 0 if there is none
    deps, frontier,  \* tags seen, tags to be looked up in the next round
    extras,          \* indices of the outbounds that go with the main one
    checked, saved,  \* how many of the routing rules were looked at, and those
                     \* of them that will be stored
    built, routing   \* the configuration: its outbounds and rules

vars ==
    <<input, stage, main, deps, frontier, extras, checked, saved, built, routing>>

doc == input.doc
rules == input.rules
OwnTags == {"proxy", "direct", "block", "dns-out"}

Init ==
    /\ input \in Inputs
    /\ stage = "import"
    /\ main = 0 /\ deps = {} /\ frontier = {} /\ extras = {}
    /\ checked = 0 /\ saved = <<>>
    /\ built = {} /\ routing = <<>>
-----------------------------------------------------------------------------
(* The import of a document. *)

\* arr.firstOrNull { ... }, as a set of at most one index.
First(P(_)) ==
    {i \in DOMAIN doc : P(doc[i]) /\ \A j \in 1 .. i - 1 : ~P(doc[j])}

Tagged(t) == First(LAMBDA o : o.tag = t)

\* collectDialerProxyDeps
Refs(o) == {o.dialer, o.legacy} \ {None}

\* The first tagged "proxy", or the first that is no utility, or the first.
MainOutbound ==
    LET real == First(LAMBDA o : ~o.utility)
    IN  CASE Tagged("proxy") # {} -> Tagged("proxy")
          [] Tagged("proxy") = {} /\ real # {} -> real
          [] Tagged("proxy") = {} /\ real = {} -> {1}

\* Without outbounds the document itself is stored.
PickMain ==
    /\ stage = "import"
    /\ stage' = "round"
    /\ \/ doc = <<>> /\ UNCHANGED <<main, deps, frontier>>
       \/ /\ doc # <<>>
          /\ main' \in MainOutbound
          /\ deps' = Refs(doc[main']) /\ frontier' = deps'
    /\ UNCHANGED <<input, extras, checked, saved, built, routing>>

\* Mutant: tags are looked up again whenever they are met.
Met(found) == UNION {Refs(doc[i]) : i \in found}

\* Mutant: only the references of the main outbound are followed.
NoFurther(found) == {}

\* Tags that no earlier round has looked up.
Unseen(found) == (UNION {Refs(doc[i]) : i \in found}) \ deps

Round ==
    /\ stage = "round" /\ frontier # {}
    /\ LET found == UNION {Tagged(t) : t \in frontier}
       IN  /\ extras' = extras \cup found
           /\ frontier' = Unseen(found)
           /\ deps' = deps \cup Unseen(found)
    /\ UNCHANGED <<input, stage, main, checked, saved, built, routing>>

Imported ==
    /\ stage = "round" /\ frontier = {}
    /\ stage' = "rules"
    /\ UNCHANGED <<input, main, deps, frontier, extras, checked, saved, built,
                   routing>>
-----------------------------------------------------------------------------
(* The routing rules. *)

Accepted(r) ==
    /\ r.formed
    /\ r.enabled => /\ r.to \in {"proxy", "direct", "block"}
                    /\ r.shape # "bad" /\ r.hits # {}

\* The loop of validate: the first rule in question refuses them all, by its
\* error or by an exception that nobody catches; disabled rules are left out.
ValidateRule ==
    /\ stage = "rules" /\ checked < Len(rules)
    /\ LET r == rules[checked + 1]
       IN  \/ /\ Accepted(r)
              /\ checked' = checked + 1
              /\ saved' = IF r.enabled THEN Append(saved, r) ELSE saved
              /\ UNCHANGED stage
           \/ /\ ~Accepted(r)
              /\ stage' = "build" /\ saved' = <<>>
              /\ UNCHANGED checked
    /\ UNCHANGED <<input, main, deps, frontier, extras, built, routing>>

Validated ==
    /\ stage = "rules" /\ checked = Len(rules)
    /\ stage' = "build"
    /\ UNCHANGED <<input, main, deps, frontier, extras, checked, saved, built,
                   routing>>
-----------------------------------------------------------------------------
(* The configuration. *)

\* RoutingPresets.findById for the active geo profile.
Preset ==
    (IF input.preset = "global" THEN <<>>
     ELSE <<[hits |-> {"region"}, to |-> "direct"]>>)
    \o (IF input.preset = "ru" /\ input.geo = "loyalsoldier"
        THEN <<[hits |-> {"ads"}, to |-> "block"]>> ELSE <<>>)

\* A rule whose elements cannot be read ends the loop; those before it stay.
Custom ==
    LET odd == {k \in DOMAIN saved : saved[k].shape = "odd"}
        n == IF odd = {} THEN Len(saved)
             ELSE (CHOOSE k \in odd : \A j \in odd : k <= j) - 1
    IN  [k \in 1 .. n |-> [hits |-> saved[k].hits, to |-> saved[k].to]]

\* Mutant: the preset comes before the user's rules.
PresetFirst == Preset \o Custom

Middle == Custom \o Preset

BuildRouting ==
    <<[hits |-> {"dns"}, to |-> "dns-out"],
      [hits |-> {"private"}, to |-> "direct"]>>
    \o Middle
    \o <<[hits |-> {"quic"}, to |-> "block"], [hits |-> {"any"}, to |-> "proxy"]>>

\* Every outbound of the configuration has a part, which tells it from others.
Out(part, tag, refs) == [part |-> part, tag |-> tag, refs |-> refs]

MainRefs == IF main = 0 THEN {} ELSE Refs(doc[main])

\* Mutant: the main outbound keeps its tag.
MainAsIs == Out(<<"main", main>>, IF main = 0 THEN None ELSE doc[main].tag,
                MainRefs)

MainAsProxy == Out(<<"main", main>>, "proxy", MainRefs)

\* What is stored is read again, so that a main outbound that is also one of
\* the extras is there twice, once with its old tag.
Build ==
    /\ stage = "build"
    /\ stage' = "done"
    /\ built' = {MainAsProxy}
                \cup {Out(<<"extra", i>>, doc[i].tag, Refs(doc[i])) : i \in extras}
                \cup {Out(<<"own", t>>, t, {}) : t \in OwnTags \ {"proxy"}}
    /\ routing' = BuildRouting
    /\ UNCHANGED <<input, main, deps, frontier, extras, checked, saved>>

Done == stage = "done" /\ UNCHANGED vars

Step == PickMain \/ Round \/ Imported \/ ValidateRule \/ Validated \/ Build

Next == Step \/ Done

Spec == Init /\ [][Next]_vars /\ WF_vars(Step)
-----------------------------------------------------------------------------
\* "Without them xray-core would fail to resolve the reference": every
\* reference of an outbound of the configuration that could be resolved in the
\* document can be resolved in the configuration, through any chain.
ReferencesResolve ==
    stage = "done" => \A o \in built : \A t \in o.refs :
        Tagged(t) # {} => \E x \in built : x.tag = t

\* Tags are unique, which the engine insists on, unless the document chains an
\* outbound to the main one or to one with the tag of a utility outbound.
TagsUnique ==
    stage = "done" => \A x, y \in built :
        \/ x.tag = y.tag => x = y
        \/ x.tag \in OwnTags /\ \E i \in extras : doc[i].tag = x.tag

\* The rule the engine applies to traffic p.
Applied(p) ==
    CHOOSE k \in DOMAIN routing :
        /\ routing[k].hits \cap p # {}
        /\ \A j \in 1 .. k - 1 : routing[j].hits \cap p = {}

\* An enabled rule of the user's hits traffic p.
Hits(k, p) == rules[k].enabled /\ rules[k].hits \cap p # {}

\* The user's rules prevail: traffic that an enabled rule hits, and that is no
\* DNS query and not for a private address, goes where the first such rule
\* says, whatever the preset.  (Not if a rule has elements that are no strings.)
UserRulesPrevail ==
    /\ stage = "done"
    /\ \A k \in DOMAIN rules :
          Accepted(rules[k]) /\ (rules[k].enabled => rules[k].shape # "odd")
    => \A p \in SUBSET {"region", "ads", "quic"} : \A k \in DOMAIN rules :
           /\ Hits(k, p \cup {"any"})
           /\ \A j \in 1 .. k - 1 : ~Hits(j, p \cup {"any"})
           => routing[Applied(p \cup {"any"})].to = rules[k].to

\* The rounds come to an end, also when outbounds are chained in a circle.
ImportEnds == <>(stage = "done")
=============================================================================

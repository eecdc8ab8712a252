-------------------------- MODULE XrayConfigProofs ---------------------------
(***************************************************************************)
(* For every document: the outbounds that parseRawJson collects are enough *)
(* and no more than the tags allow.                                        *)
(***************************************************************************)
EXTENDS XrayConfig, TLAPS

\* The loop of parseRawJson: what was collected is the first of its tag, what
\* it refers to was seen, and what was seen and is not on the frontier has been
\* looked up.
Collected ==
    /\ main # 0 => Refs(doc[main]) \subseteq deps
    /\ \A i \in extras : i \in Tagged(doc[i].tag)
    /\ \A i \in extras : Refs(doc[i]) \subseteq deps
    /\ \A t \in deps \ frontier : Tagged(t) \subseteq extras

\* Nothing is left on the frontier once the rounds are over.
Ordered ==
    /\ stage \in {"import", "round", "rules", "build", "done"}
    /\ stage = "import" => main = 0 /\ deps = {} /\ frontier = {} /\ extras = {}
    /\ stage \in {"rules", "build", "done"} => frontier = {}

\* What build puts into the configuration.
Assembled ==
    stage = "done" =>
        built = {MainAsProxy}
                \cup {Out(<<"extra", i>>, doc[i].tag, Refs(doc[i])) : i \in extras}
                \cup {Out(<<"own", t>>, t, {}) : t \in OwnTags \ {"proxy"}}

ImportInv == Collected /\ Ordered /\ Assembled

-----------------------------------------------------------------------------
\* arr.firstOrNull finds an outbound with the tag, and one only.
LEMMA TaggedHas ==
    ASSUME NEW t, NEW i \in Tagged(t) PROVE i \in DOMAIN doc /\ doc[i].tag = t
BY DEF Tagged, First

LEMMA TaggedOne ==
    ASSUME input \in Input, NEW t, NEW i \in Tagged(t), NEW j \in Tagged(t)
    PROVE  i = j
<1>1. DOMAIN doc = 1..Len(doc) /\ Len(doc) \in Nat
  BY DEF Input, doc
<1>2. i \in 1..Len(doc) /\ j \in 1..Len(doc) /\ doc[i].tag = t /\ doc[j].tag = t
  BY <1>1, TaggedHas
<1>3. \A k \in 1..(i - 1) : ~(doc[k].tag = t)
  BY DEF Tagged, First
<1>4. \A k \in 1..(j - 1) : ~(doc[k].tag = t)
  BY DEF Tagged, First
<1> QED BY <1>1, <1>2, <1>3, <1>4

LEMMA PickMainInv == ASSUME ImportInv, PickMain PROVE ImportInv'
<1>1. extras = {} /\ extras' = {} /\ input' = input /\ stage' = "round" /\ deps = {}
      /\ main = 0
  BY DEF ImportInv, Ordered, PickMain
<1>2. Collected'
  <2>1. CASE doc = <<>> /\ UNCHANGED <<main, deps, frontier>>
    BY <1>1, <2>1 DEF Collected
  <2>2. CASE deps' = Refs(doc[main']) /\ frontier' = deps'
    <3>1. deps' = Refs(doc'[main'])
      BY <1>1, <2>2 DEF doc
    <3> QED BY <1>1, <2>2, <3>1 DEF Collected, Refs
  <2> QED BY <2>1, <2>2 DEF PickMain
<1> QED BY <1>1, <1>2 DEF ImportInv, Ordered, Assembled

LEMMA RoundInv == ASSUME ImportInv, Round PROVE ImportInv'
<1> DEFINE found == UNION {Tagged(t) : t \in frontier}
<1>1. extras' = extras \cup found /\ frontier' = Unseen(found)
      /\ deps' = deps \cup Unseen(found)
      /\ input' = input /\ main' = main /\ stage = "round" /\ stage' = "round"
  BY DEF Round
<1>2. doc' = doc /\ \A t : Tagged(t)' = Tagged(t)
  BY <1>1 DEF doc, Tagged, First
<1>3. \A i \in found : i \in Tagged(doc[i].tag)
  BY TaggedHas
<1>4. \A i \in found : Refs(doc[i]) \subseteq deps \cup Unseen(found)
  BY DEF Unseen
<1>5. \A t \in frontier : Tagged(t) \subseteq found
  OBVIOUS
<1> HIDE DEF found
<1>6. \A i \in extras' : i \in Tagged(doc[i].tag)'
  BY <1>1, <1>2, <1>3 DEF ImportInv, Collected
<1>7. \A i \in extras' : Refs(doc'[i]) \subseteq deps'
  BY <1>1, <1>2, <1>4 DEF ImportInv, Collected
<1>8. \A t \in deps' \ frontier' : Tagged(t)' \subseteq extras'
  <2> SUFFICES ASSUME NEW t \in deps' \ frontier' PROVE Tagged(t) \subseteq extras'
    BY <1>2
  <2>1. t \in deps
    BY <1>1
  <2>2. CASE t \in frontier
    BY <1>1, <1>5, <2>2
  <2>3. CASE t \notin frontier
    BY <1>1, <2>1, <2>3 DEF ImportInv, Collected
  <2> QED BY <2>2, <2>3
<1>9. main' # 0 => Refs(doc'[main']) \subseteq deps'
  BY <1>1, <1>2 DEF ImportInv, Collected
<1>10. Collected'
  BY <1>2, <1>6, <1>7, <1>8, <1>9 DEF Collected, Refs
<1> QED BY <1>1, <1>10 DEF ImportInv, Ordered, Assembled

\* Steps that leave the import's variables alone.
LEMMA CollectedStays ==
    ASSUME Collected, UNCHANGED <<input, main, deps, frontier, extras>>
    PROVE  Collected'
BY DEF Collected, Refs, Tagged, First, doc

LEMMA NextInv == ASSUME ImportInv, [Next]_vars PROVE ImportInv'
<1>1. CASE PickMain
  BY <1>1, PickMainInv
<1>2. CASE Round
  BY <1>2, RoundInv
<1>3. CASE Imported
  BY <1>3, CollectedStays DEF Imported, ImportInv, Ordered, Assembled
<1>4. CASE ValidateRule \/ Validated
  BY <1>4, CollectedStays DEF ValidateRule, Validated, ImportInv, Ordered,
     Assembled
<1>5. CASE Build
  <2>1. Collected' /\ Ordered'
    BY <1>5, CollectedStays DEF Build, ImportInv, Ordered
  <2>2. Assembled'
    BY <1>5 DEF Build, Assembled, MainAsProxy, MainRefs, Out, Refs, doc, OwnTags
  <2> QED BY <2>1, <2>2 DEF ImportInv
<1>6. CASE UNCHANGED vars
  <2>1. Collected' /\ Ordered'
    BY <1>6, CollectedStays DEF vars, ImportInv, Ordered
  <2>2. Assembled'
    BY <1>6 DEF vars, ImportInv, Assembled, MainAsProxy, MainRefs, Out, Refs, doc, OwnTags
  <2> QED BY <2>1, <2>2 DEF ImportInv
<1> QED BY <1>1, <1>2, <1>3, <1>4, <1>5, <1>6 DEF Next, Step, Done

LEMMA InputType == Spec => [](input \in Input)
<1>1. Init => input \in Input
  BY ConfigAssumption DEF Init
<1>2. input \in Input /\ [Next]_vars => (input \in Input)'
  BY DEF Next, Step, PickMain, Round, Imported, ValidateRule, Validated, Build,
     Done, vars
<1> QED BY <1>1, <1>2, PTL DEF Spec

\* The invariant of the import, for every set of documents.
THEOREM ImportInvariant == Spec => []ImportInv
<1>1. Init => ImportInv
  BY DEF Init, ImportInv, Collected, Ordered, Assembled
<1>2. ImportInv /\ [Next]_vars => ImportInv'
  BY NextInv
<1> QED BY <1>1, <1>2, PTL DEF Spec

\* Whatever the document, chained and circular references included, nothing
\* the configuration refers to was left behind if the document has it
\* (ConfigParser.parseRawJson, "Without them xray-core would fail to resolve").
THEOREM ChainsResolve == Spec => []ReferencesResolve
<1>1. ASSUME ImportInv PROVE ReferencesResolve
  <2> SUFFICES ASSUME stage = "done", NEW o \in built, NEW t \in o.refs, Tagged(t) # {}
               PROVE  \E x \in built : x.tag = t
    BY DEF ReferencesResolve
  <2>1. t \in deps
    <3>1. CASE o = MainAsProxy
      BY <1>1, <3>1 DEF ImportInv, Collected, MainAsProxy, MainRefs, Out
    <3>2. ASSUME NEW i \in extras, o = Out(<<"extra", i>>, doc[i].tag, Refs(doc[i]))
          PROVE  t \in deps
      BY <1>1, <3>2 DEF ImportInv, Collected, Out
    <3>3. ASSUME NEW u \in OwnTags \ {"proxy"}, o = Out(<<"own", u>>, u, {})
          PROVE  FALSE
      BY <3>3 DEF Out
    <3> QED BY <1>1, <3>1, <3>2, <3>3 DEF ImportInv, Assembled
  <2>2. PICK i \in Tagged(t) : i \in extras
    BY <1>1, <2>1 DEF ImportInv, Collected, Ordered
  <2>3. doc[i].tag = t
    BY TaggedHas
  <2>4. Out(<<"extra", i>>, doc[i].tag, Refs(doc[i])) \in built
    BY <1>1, <2>2 DEF ImportInv, Assembled
  <2>5. Out(<<"extra", i>>, doc[i].tag, Refs(doc[i])).tag = doc[i].tag
    BY DEF Out
  <2> QED BY <2>3, <2>4, <2>5
<1> QED BY <1>1, ImportInvariant, PTL

\* Two outbounds of a configuration have the same tag only if the document has
\* chained one to a tag that build uses for its own.
THEOREM UniqueTags == Spec => []TagsUnique
<1>1. ASSUME ImportInv, input \in Input PROVE TagsUnique
  <2> SUFFICES ASSUME stage = "done", NEW x \in built, NEW y \in built, x.tag = y.tag,
                      x.tag \in OwnTags => \A i \in extras : doc[i].tag # x.tag
               PROVE  x = y
    BY DEF TagsUnique
  <2> DEFINE E(i) == Out(<<"extra", i>>, doc[i].tag, Refs(doc[i]))
             Own(t) == Out(<<"own", t>>, t, {})
  <2>1. \A i : E(i).tag = doc[i].tag
    BY DEF Out
  <2>2. (\A t : Own(t).tag = t) /\ MainAsProxy.tag = "proxy"
    BY DEF Out, MainAsProxy
  <2>3. \A z \in built : \/ z = MainAsProxy \/ (\E i \in extras : z = E(i))
                         \/ \E t \in OwnTags \ {"proxy"} : z = Own(t)
    BY <1>1 DEF ImportInv, Assembled
  <2> HIDE DEF E, Own
  <2>4. "proxy" \in OwnTags
    BY DEF OwnTags
  <2>5. ASSUME NEW i \in extras, NEW j \in extras, x = E(i), y = E(j) PROVE x = y
    <3>1. i \in Tagged(doc[i].tag) /\ j \in Tagged(doc[i].tag)
      BY <1>1, <2>1, <2>5 DEF ImportInv, Collected
    <3> QED BY <1>1, <2>5, <3>1, TaggedOne
  <2> QED BY <2>1, <2>2, <2>3, <2>4, <2>5
<1> QED BY <1>1, InputType, ImportInvariant, PTL
-----------------------------------------------------------------------------
\* The first n rules of the input have left the enabled ones in saved, in order.
Kept(n) ==
    /\ \A m \in DOMAIN saved : \E i \in 1..n :
           rules[i].enabled /\ saved[m] = rules[i]
    /\ \A k \in 1..n : rules[k].enabled => \E m \in DOMAIN saved :
           /\ saved[m] = rules[k]
           /\ \A j \in 1..(m - 1) : \E i \in 1..(k - 1) :
                  rules[i].enabled /\ saved[j] = rules[i]

AllAccepted == \A k \in DOMAIN rules : Accepted(rules[k])

RulesInv ==
    /\ input \in Input
    /\ saved \in Seq(Rule)
    /\ stage \in {"import", "round", "rules", "build", "done"}
    /\ stage \in {"import", "round"} => saved = <<>> /\ checked = 0
    /\ stage = "rules" => checked \in 0..Len(rules) /\ Kept(checked)
    /\ stage \in {"build", "done"} /\ AllAccepted => Kept(Len(rules))
    /\ stage = "done" => routing = BuildRouting

LEMMA RulesSeq ==
    ASSUME input \in Input
    PROVE  /\ rules \in Seq(Rule) /\ Len(rules) \in Nat
           /\ DOMAIN rules = 1..Len(rules)
<1>1. rules \in Seq(Rule)
  BY DEF Input, rules
<1> QED BY <1>1

\* Where the elements of a concatenation are.
LEMMA Concatenation ==
    ASSUME NEW S, NEW a \in Seq(S), NEW b \in Seq(S)
    PROVE  /\ a \o b \in Seq(S) /\ Len(a \o b) = Len(a) + Len(b)
           /\ \A i \in 1..Len(a) : (a \o b)[i] = a[i]
           /\ \A i \in 1..Len(b) : (a \o b)[Len(a) + i] = b[i]
<1>1. Len(a) \in Nat /\ Len(b) \in Nat
  OBVIOUS
<1> QED BY <1>1

LEMMA Front ==
    ASSUME NEW S, NEW a \in Seq(S), NEW b \in Seq(S), NEW c \in Seq(S),
           NEW d \in Seq(S), NEW m, m = b \o c, NEW h, h = a \o m,
           NEW r, r = h \o d
    PROVE  /\ r \in Seq(S) /\ Len(r) >= Len(a) + Len(b)
           /\ \A i \in 1..Len(a) : r[i] = a[i]
           /\ \A i \in 1..Len(b) : r[Len(a) + i] = b[i]
<1>1. /\ m \in Seq(S) /\ Len(m) = Len(b) + Len(c)
      /\ \A i \in 1..Len(b) : m[i] = b[i]
  BY Concatenation
<1>2. /\ h \in Seq(S) /\ Len(h) = Len(a) + Len(m)
      /\ \A i \in 1..Len(a) : h[i] = a[i]
      /\ \A i \in 1..Len(m) : h[Len(a) + i] = m[i]
  BY <1>1, Concatenation
<1>3. /\ r \in Seq(S) /\ Len(r) = Len(h) + Len(d)
      /\ \A i \in 1..Len(h) : r[i] = h[i]
  BY <1>2, Concatenation
<1>4. Len(a) \in Nat /\ Len(b) \in Nat /\ Len(c) \in Nat /\ Len(d) \in Nat
  OBVIOUS
<1>5. /\ \A i \in 1..Len(a) : i \in 1..Len(h)
      /\ \A i \in 1..Len(b) : i \in 1..Len(m) /\ Len(a) + i \in 1..Len(h)
  BY <1>1, <1>2, <1>4
<1>6. Len(r) >= Len(a) + Len(b)
  BY <1>1, <1>2, <1>3, <1>4
<1> QED BY <1>1, <1>2, <1>3, <1>5, <1>6

\* One round of the loop of validate.
LEMMA ValidateRuleInv == ASSUME RulesInv, ValidateRule PROVE RulesInv'
<1>1. /\ input \in Input /\ saved \in Seq(Rule) /\ checked \in 0..Len(rules)
      /\ Kept(checked) /\ checked < Len(rules) /\ input' = input
      /\ rules' = rules
  BY DEF RulesInv, ValidateRule, rules
<1>2. Len(rules) \in Nat /\ DOMAIN rules = 1..Len(rules) /\ checked \in Nat
      /\ checked + 1 \in 1..Len(rules)
  BY <1>1, RulesSeq
<1> DEFINE r == rules[checked + 1]
<1>3. r \in Rule
  BY <1>1, <1>2, RulesSeq
<1>4. CASE /\ Accepted(r) /\ checked' = checked + 1 /\ stage' = stage
           /\ saved' = IF r.enabled THEN Append(saved, r) ELSE saved
  <2>1. stage = "rules"
    BY DEF ValidateRule
  <2>2. Kept(checked)'
    <3>0. checked' = checked + 1
      BY <1>4
    <3>1. CASE ~r.enabled
      <4>1. saved' = saved
        BY <1>4, <3>1
      <4>2. \A k \in 1..(checked + 1) : rules[k].enabled => k \in 1..checked
        BY <1>2, <3>1
      <4>3. 1..checked \subseteq 1..(checked + 1)
        BY <1>2
      <4>4. /\ \A m \in DOMAIN saved' : \E i \in 1..checked' :
                   rules'[i].enabled /\ saved'[m] = rules'[i]
            /\ \A k \in 1..checked' : rules'[k].enabled =>
                   \E m \in DOMAIN saved' :
                      /\ saved'[m] = rules'[k]
                      /\ \A j \in 1..(m - 1) : \E i \in 1..(k - 1) :
                             rules'[i].enabled /\ saved'[j] = rules'[i]
        BY <1>1, <3>0, <4>1, <4>2, <4>3 DEF Kept
      <4> QED BY <4>4 DEF Kept
    <3>2. CASE r.enabled
      <4>1. saved' = Append(saved, r)
        BY <1>4, <3>2
      <4>2. /\ Len(saved) \in Nat /\ DOMAIN saved = 1..Len(saved)
            /\ DOMAIN saved' = 1..(Len(saved) + 1)
            /\ saved'[Len(saved) + 1] = r
            /\ \A m \in 1..Len(saved) : saved'[m] = saved[m]
        BY <1>1, <1>3, <4>1
      <4>3. \A m \in 1..(Len(saved) + 1) :
                m \in 1..Len(saved) \/ m = Len(saved) + 1
        BY <4>2
      <4>4. \A k \in 1..(checked + 1) : k \in 1..checked \/ k = checked + 1
        BY <1>2
      <4>5. \A m \in DOMAIN saved' : \E i \in 1..(checked + 1) :
                rules[i].enabled /\ saved'[m] = rules[i]
        <5>1. \A i \in 1..checked : i \in 1..(checked + 1)
          BY <1>2
        <5>2. checked + 1 \in 1..(checked + 1)
          BY <1>2
        <5> QED BY <1>1, <3>2, <4>2, <4>3, <5>1, <5>2 DEF Kept
      <4>6. ASSUME NEW k \in 1..checked, rules[k].enabled
            PROVE  \E m \in DOMAIN saved' :
                      /\ saved'[m] = rules[k]
                      /\ \A j \in 1..(m - 1) : \E i \in 1..(k - 1) :
                             rules[i].enabled /\ saved'[j] = rules[i]
        <5>1. PICK m \in 1..Len(saved) :
                  /\ saved[m] = rules[k]
                  /\ \A j \in 1..(m - 1) : \E i \in 1..(k - 1) :
                         rules[i].enabled /\ saved[j] = rules[i]
          BY <1>1, <4>2, <4>6 DEF Kept
        <5>2. m \in DOMAIN saved' /\ \A j \in 1..(m - 1) : j \in 1..Len(saved)
          BY <4>2
        <5> QED BY <4>2, <5>1, <5>2
      <4>7. \E m \in DOMAIN saved' :
                /\ saved'[m] = rules[checked + 1]
                /\ \A j \in 1..(m - 1) : \E i \in 1..((checked + 1) - 1) :
                       rules[i].enabled /\ saved'[j] = rules[i]
        <5>1. (checked + 1) - 1 = checked /\ (Len(saved) + 1) - 1 = Len(saved)
          BY <1>2, <4>2
        <5>2. \A j \in 1..Len(saved) : \E i \in 1..checked :
                  rules[i].enabled /\ saved'[j] = rules[i]
          <6>1. \A j \in DOMAIN saved : \E i \in 1..checked :
                    rules[i].enabled /\ saved[j] = rules[i]
            BY <1>1 DEF Kept
          <6> QED BY <4>2, <6>1
        <5>3. Len(saved) + 1 \in DOMAIN saved'
          BY <4>2
        <5> QED BY <4>2, <5>1, <5>2, <5>3
      <4>8. \A k \in 1..(checked + 1) : rules[k].enabled =>
                \E m \in DOMAIN saved' :
                   /\ saved'[m] = rules[k]
                   /\ \A j \in 1..(m - 1) : \E i \in 1..(k - 1) :
                          rules[i].enabled /\ saved'[j] = rules[i]
        BY <4>4, <4>6, <4>7
      <4> QED BY <1>1, <3>0, <4>5, <4>8 DEF Kept
    <3> QED BY <3>1, <3>2
  <2>3. saved' \in Seq(Rule)
    BY <1>1, <1>3, <1>4
  <2>4. checked' \in 0..Len(rules)
    BY <1>2, <1>4
  <2> QED BY <1>1, <1>4, <2>1, <2>2, <2>3, <2>4 DEF RulesInv
<1>5. CASE ~Accepted(r) /\ stage' = "build" /\ saved' = <<>>
  <2>1. ~AllAccepted'
    BY <1>1, <1>2, <1>5 DEF AllAccepted, Accepted
  <2> QED BY <1>1, <1>5, <2>1 DEF RulesInv
<1> QED BY <1>4, <1>5 DEF ValidateRule

LEMMA NextRules == ASSUME RulesInv, [Next]_vars PROVE RulesInv'
<1>1. CASE ValidateRule
  BY <1>1, ValidateRuleInv
<1>2. CASE Imported
  <2>1. checked = 0 /\ saved = <<>> /\ stage' = "rules" /\ input' = input
        /\ checked' = 0 /\ saved' = <<>>
    BY <1>2 DEF Imported, RulesInv
  <2>2. Kept(0)'
    BY <2>1 DEF Kept
  <2>3. 0 \in 0..Len(rules) /\ rules' = rules
    BY <2>1, RulesSeq DEF RulesInv, rules
  <2>4. Kept(checked)'
    BY <2>1, <2>2 DEF Kept
  <2> QED BY <2>1, <2>3, <2>4 DEF RulesInv
<1>3. CASE Validated
  <2>1. Kept(Len(rules))
    BY <1>3 DEF Validated, RulesInv
  <2>2. input' = input /\ saved' = saved /\ rules' = rules /\ stage' = "build"
    BY <1>3 DEF Validated, rules
  <2>3. Kept(Len(rules))'
    BY <2>1, <2>2 DEF Kept
  <2> QED BY <2>2, <2>3 DEF RulesInv
<1>4. CASE Build
  <2>1. /\ input' = input /\ saved' = saved /\ rules' = rules
        /\ stage = "build" /\ stage' = "done" /\ routing' = BuildRouting
    BY <1>4 DEF Build, rules
  <2>2. BuildRouting' = BuildRouting
    BY <2>1 DEF BuildRouting, Middle, Custom, Preset
  <2>3. AllAccepted' => Kept(Len(rules))'
    BY <2>1 DEF RulesInv, AllAccepted, Accepted, Kept
  <2> QED BY <2>1, <2>2, <2>3 DEF RulesInv
<1>5. CASE PickMain \/ Round
  BY <1>5 DEF PickMain, Round, RulesInv
<1>6. CASE UNCHANGED vars
  <2>1. /\ input' = input /\ saved' = saved /\ rules' = rules
        /\ stage' = stage /\ routing' = routing /\ checked' = checked
    BY <1>6 DEF vars, rules
  <2>2. BuildRouting' = BuildRouting
    BY <2>1 DEF BuildRouting, Middle, Custom, Preset
  <2>3. \A n : Kept(n)' = Kept(n)
    BY <2>1 DEF Kept
  <2>4. AllAccepted' = AllAccepted
    BY <2>1 DEF AllAccepted, Accepted
  <2> QED BY <2>1, <2>2, <2>3, <2>4 DEF RulesInv
<1> QED BY <1>1, <1>2, <1>3, <1>4, <1>5, <1>6 DEF Next, Step, Done

\* For every list of rules and either preset, in the configuration that build
\* writes, the first of the user's enabled rules that hits decides, whatever
\* the preset says (validate, buildRouting).
THEOREM RulesPrevail == Spec => []UserRulesPrevail
<1>1. Init => RulesInv
  BY ConfigAssumption DEF Init, RulesInv
<1>2. RulesInv /\ [Next]_vars => RulesInv'
  BY NextRules
<1>3. ASSUME RulesInv PROVE UserRulesPrevail
  <2> SUFFICES ASSUME stage = "done",
                      \A k \in DOMAIN rules :
                          /\ Accepted(rules[k])
                          /\ rules[k].enabled => rules[k].shape # "odd",
                      NEW p \in SUBSET {"region", "ads", "quic"},
                      NEW k \in DOMAIN rules, Hits(k, p \cup {"any"}),
                      \A j \in 1..(k - 1) : ~Hits(j, p \cup {"any"})
               PROVE  routing[Applied(p \cup {"any"})].to = rules[k].to
    BY DEF UserRulesPrevail
  <2> DEFINE q == p \cup {"any"}
             n == Len(saved)
  <2>1. /\ n \in Nat /\ DOMAIN saved = 1..n
        /\ Len(rules) \in Nat /\ DOMAIN rules = 1..Len(rules)
        /\ routing = BuildRouting /\ Kept(Len(rules))
    BY <1>3, RulesSeq DEF RulesInv, AllAccepted
  <2>2. "dns" \notin q /\ "private" \notin q
    OBVIOUS
  <2>3. Custom = [m \in 1..n |-> [hits |-> saved[m].hits, to |-> saved[m].to]]
    <3>1. {m \in DOMAIN saved : saved[m].shape = "odd"} = {}
      BY <2>1 DEF Kept
    <3> QED BY <3>1 DEF Custom
  <2>4. PICK m \in 1..n :
            /\ saved[m] = rules[k]
            /\ \A j \in 1..(m - 1) : \E i \in 1..(k - 1) :
                   rules[i].enabled /\ saved[j] = rules[i]
    BY <2>1 DEF Kept, Hits
  <2>5. /\ saved[m].hits \cap q # {}
        /\ \A j \in 1..(m - 1) : saved[j].hits \cap q = {}
    BY <2>4 DEF Hits
  <2> HIDE DEF q
  <2>6. /\ m + 2 \in DOMAIN routing /\ DOMAIN routing \subseteq Nat \ {0}
        /\ routing[m + 2].hits = saved[m].hits
        /\ routing[m + 2].to = saved[m].to
        /\ \A j \in 1..(m + 1) :
               routing[j].hits \in {{"dns"}, {"private"}}
                  \/ \E i \in 1..(m - 1) : routing[j].hits = saved[i].hits
    <3> DEFINE S == [hits : SUBSET Traffic, to : Tag]
               head == <<[hits |-> {"dns"}, to |-> "dns-out"],
                         [hits |-> {"private"}, to |-> "direct"]>>
               tail == <<[hits |-> {"quic"}, to |-> "block"],
                         [hits |-> {"any"}, to |-> "proxy"]>>
    <3>1. /\ head \in Seq(S) /\ Len(head) = 2
          /\ head[1].hits = {"dns"} /\ head[2].hits = {"private"}
      BY ConfigAssumption DEF Traffic
    <3>2. tail \in Seq(S)
      BY ConfigAssumption DEF Traffic
    <3>3. Preset \in Seq(S)
      <4>1. <<[hits |-> {"region"}, to |-> "direct"]>> \in Seq(S)
        BY ConfigAssumption DEF Traffic
      <4>2. <<[hits |-> {"ads"}, to |-> "block"]>> \in Seq(S)
        BY ConfigAssumption DEF Traffic
      <4>3. <<>> \in Seq(S)
        OBVIOUS
      <4> HIDE DEF S
      <4> QED BY <4>1, <4>2, <4>3 DEF Preset
    <3>4. /\ Custom \in Seq(S) /\ Len(Custom) = n
          /\ \A i \in 1..n : /\ Custom[i].hits = saved[i].hits
                             /\ Custom[i].to = saved[i].to
      <4>1. \A i \in 1..n : saved[i] \in Rule
        BY <1>3, <2>1 DEF RulesInv
      <4>2. \A i \in 1..n : [hits |-> saved[i].hits, to |-> saved[i].to] \in S
        BY <4>1 DEF Rule
      <4> HIDE DEF S
      <4> QED BY <2>1, <2>3, <4>2
    <3>5. routing = (head \o (Custom \o Preset)) \o tail
      BY <2>1 DEF BuildRouting, Middle
    <3> HIDE DEF S, head, tail
    <3>6. \E T, a, b, c, d :
              /\ a \in Seq(T) /\ b \in Seq(T) /\ c \in Seq(T) /\ d \in Seq(T)
              /\ routing = (a \o (b \o c)) \o d
              /\ a = head /\ b = Custom
      BY <3>1, <3>2, <3>3, <3>4, <3>5
    <3>7. PICK T, a, b, c, d :
              /\ a \in Seq(T) /\ b \in Seq(T) /\ c \in Seq(T) /\ d \in Seq(T)
              /\ routing = (a \o (b \o c)) \o d
              /\ a = head /\ b = Custom
      BY <3>6
    <3>8. /\ routing \in Seq(T) /\ Len(routing) >= Len(a) + Len(b)
          /\ \A i \in 1..Len(a) : routing[i] = a[i]
          /\ \A i \in 1..Len(b) : routing[Len(a) + i] = b[i]
      BY <3>7, Front
    <3>9. /\ routing \in Seq(T) /\ Len(routing) >= n + 2
          /\ routing[1] = head[1] /\ routing[2] = head[2]
          /\ \A i \in 1..n : routing[i + 2] = Custom[i]
      <4>1. Len(a) = 2 /\ Len(b) = n
        BY <3>1, <3>4, <3>7
      <4>2. 1 \in 1..2 /\ 2 \in 1..2 /\ \A i \in 1..n : i + 2 = 2 + i
        BY <2>1
      <4>3. Len(routing) >= n + 2
        BY <2>1, <3>8, <4>1
      <4>4. /\ \A i \in 1..2 : routing[i] = head[i]
            /\ \A i \in 1..n : routing[2 + i] = Custom[i]
        BY <3>7, <3>8, <4>1, Zenon
      <4>5. routing[1] = head[1] /\ routing[2] = head[2]
        BY <4>2, <4>4, Zenon
      <4>6. \A i \in 1..n : routing[i + 2] = Custom[i]
        BY <4>2, <4>4, Zenon
      <4> QED BY <3>8, <4>3, <4>5, <4>6, Zenon
    <3>10. m + 2 \in DOMAIN routing /\ DOMAIN routing \subseteq Nat \ {0}
      BY <2>1, <3>9
    <3>11. ASSUME NEW j \in 1..(m + 1)
          PROVE  \/ routing[j].hits \in {{"dns"}, {"private"}}
                 \/ \E i \in 1..(m - 1) : routing[j].hits = saved[i].hits
      <4>1. CASE j \in {1, 2}
        BY <3>1, <3>9, <4>1
      <4>2. CASE j \notin {1, 2}
        <5>1. j - 2 \in 1..(m - 1) /\ j - 2 \in 1..n /\ (j - 2) + 2 = j
          BY <2>1, <4>2
        <5>2. routing[j] = Custom[j - 2]
          BY <3>9, <5>1
        <5>3. routing[j].hits = saved[j - 2].hits
          BY <3>4, <5>1, <5>2
        <5> QED BY <5>1, <5>3
      <4> QED BY <4>1, <4>2
    <3> QED BY <3>4, <3>9, <3>10, <3>11
  <2>7. \A j \in 1..(m + 1) : routing[j].hits \cap q = {}
    BY <2>2, <2>5, <2>6
  <2>8. Applied(q) = m + 2
    <3>1. \A i \in DOMAIN routing :
              /\ routing[i].hits \cap q # {}
              /\ \A j \in 1..(i - 1) : routing[j].hits \cap q = {}
              => i = m + 2
      <4>1. DOMAIN routing \subseteq Nat /\ m + 2 \in Nat
            /\ \A i \in DOMAIN routing : i >= 1
        BY <2>1, <2>6
      <4>2. \A i \in DOMAIN routing : i < m + 2 => i \in 1..(m + 1)
        BY <4>1
      <4>3. \A i \in DOMAIN routing : m + 2 < i => m + 2 \in 1..(i - 1)
        BY <4>1
      <4> QED BY <2>5, <2>6, <2>7, <4>1, <4>2, <4>3
    <3> QED BY <2>5, <2>6, <2>7, <3>1 DEF Applied
  <2>9. routing[Applied(q)].to = rules[k].to
    BY <2>4, <2>6, <2>8
  <2> QED BY <2>9 DEF q
<1> QED BY <1>1, <1>2, <1>3, PTL DEF Spec
=============================================================================

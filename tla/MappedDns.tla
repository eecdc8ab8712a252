------------------------------ MODULE MappedDns ------------------------------
(***************************************************************************)
(* The table of hev-mapped-dns.c, which answers DNS questions with         *)
(* addresses of its own and finds the name again when a session is opened  *)
(* to such an address.  A node is in the red-black tree (tree), in the     *)
(* list, whose head is the least recently used one (list), and in the      *)
(* table (records); idx is the node's field.  Both handlers run to the end *)
(* without giving up the thread: a message is taken question by question   *)
(* and no look-up comes in between.                                        *)
(***************************************************************************)
EXTENDS Integers, Sequences, FiniteSets

CONSTANTS
    Name,           \* names that are asked for
    Max,            \* the size of the table (mapdns cache-size)
    Hosts,          \* addresses of the network: ~mask
    Questions,      \* the longest message
    None, Other, Malformed

ASSUME SizeAssumption == Max \in Nat \ {0} /\ Hosts \in Nat /\ Max <= Hosts
ASSUME MarksAssumption == {None, Other, Malformed} \cap Name = {}

VARIABLES
    tree, list, records, idx, use,
    rest,           \* the questions of a message not handled yet, or None
    given,          \* the address each name was last given (a ghost)
    since           \* the other names used since a name was (a ghost)

table == <<tree, list, records, idx, use>>
dnsVars == <<tree, list, records, idx, use, rest, given, since>>

Index == 0..(Max - 1)

DnsInit ==
    /\ tree = {} /\ list = << >> /\ use = 0
    /\ records = [i \in Index |-> None]
    /\ idx = [n \in Name |-> 0]
    /\ rest = None
    /\ given = [n \in Name |-> None]
    /\ since = [n \in Name |-> {}]

-----------------------------------------------------------------------------
\* A mutant: the node keeps its place.
InPlace(s, k) == s

\* hev_list_del and hev_list_add_tail of the node in place k.
ToTail(s, k) ==
    [i \in 1..Len(s) |-> IF i < k THEN s[i]
                         ELSE IF i < Len(s) THEN s[i + 1] ELSE s[k]]

\* The bookkeeping of the ghosts when n is used.
Used(n) == since' = [m \in Name |-> IF m = n THEN {} ELSE since[m] \cup {n}]

Touch(n) ==
    /\ \E k \in 1..Len(list) : list[k] = n /\ list' = ToTail(list, k)
    /\ Used(n)
    /\ UNCHANGED <<tree, records, idx, use>>

Store(n, i) ==
    /\ records' = [records EXCEPT ![i] = n]
    /\ idx' = [idx EXCEPT ![n] = i]
    /\ Used(n)

\* A place that was never used.
Grow(n) ==
    /\ use < Max
    /\ use' = use + 1
    /\ tree' = tree \cup {n}
    /\ list' = Append(list, n)
    /\ Store(n, use)

\* A mutant: the evicted node stays in the tree.
EvictKeepsNode(n) ==
    /\ use = Max
    /\ tree' = tree \cup {n}
    /\ list' = Append(Tail(list), n)
    /\ Store(n, idx[Head(list)])
    /\ UNCHANGED use

\* The place of the node at the head of the list.
Evict(n) ==
    /\ use = Max
    /\ tree' = (tree \cup {n}) \ {Head(list)}
    /\ list' = Append(Tail(list), n)
    /\ Store(n, idx[Head(list)])
    /\ UNCHANGED use

Find(n) ==
    /\ IF n \in tree THEN Touch(n) ELSE Grow(n) \/ Evict(n)
    /\ given' = [given EXCEPT ![n] = idx'[n]]

-----------------------------------------------------------------------------
Handle ==
    /\ rest = None
    /\ \E k \in 1..Questions : rest' \in [1..k -> Name \cup {Other, Malformed}]
    /\ UNCHANGED <<table, given, since>>

Handling == rest # None /\ rest # << >>

\* A question for an A record of class IN.
Question ==
    /\ Handling /\ Head(rest) \in Name
    /\ Find(Head(rest))
    /\ rest' = Tail(rest)

\* Another type or class, or no memory for a node: no record in the answer.
Unanswered ==
    /\ Handling
    /\ Head(rest) # Malformed
    /\ Head(rest) \notin tree
    /\ rest' = Tail(rest)
    /\ UNCHANGED <<table, given, since>>

\* The message is dropped; what its earlier questions did to the table stays.
Drop ==
    /\ Handling /\ Head(rest) = Malformed
    /\ rest' = None
    /\ UNCHANGED <<table, given, since>>

\* The answer is sent, or is too long to be.
Reply ==
    /\ rest = << >>
    /\ rest' = None
    /\ UNCHANGED <<table, given, since>>

\* Only the host part of an address is looked at, not the network it is in.
Lookup(i) ==
    /\ rest = None
    /\ i < Max /\ records[i] # None
    /\ Touch(records[i])
    /\ UNCHANGED <<rest, given>>

DnsNext ==
    \/ Handle \/ Question \/ Unanswered \/ Drop \/ Reply
    \/ \E i \in 0..Hosts : Lookup(i)

DnsSpec == DnsInit /\ [][DnsNext]_dnsVars

-----------------------------------------------------------------------------
\* Tree, list and table hold the same nodes, one in each place below use, and
\* a node's index is its place (hev_mapped_dns_find, hev_mapped_dns_lookup).
Consistent ==
    /\ tree \subseteq Name /\ idx \in [Name -> Index]
    /\ use \in 0..Max /\ Len(list) = use
    /\ list \in [1..use -> tree]
    /\ \A j, k \in 1..use : list[j] = list[k] => j = k
    /\ \A n \in tree : \E k \in 1..use : list[k] = n
    /\ records \in [Index -> Name \cup {None}]
    /\ \A n \in tree : idx[n] < use /\ records[idx[n]] = n
    /\ \A i \in Index : IF i < use THEN records[i] \in tree /\ idx[records[i]] = i
                                   ELSE records[i] = None

\* An address that was given out leads to its name as long as fewer than Max
\* other names have been asked for or opened since, and to another name from
\* then on: the least recently used node is the one that is replaced
\* (hev_mapped_dns_find, lines 107 to 142).
LeastRecentlyUsed ==
    \A n \in Name : given[n] # None =>
        (records[given[n]] = n <=> Cardinality(since[n]) < Max)
=============================================================================

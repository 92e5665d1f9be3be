----------------------------- MODULE PaymentGraph -----------------------------
(* PaymentGraph (graph.py): nodes and directed edges, built from the       *)
(* registry and extended by receivers and merchants, and the search for a  *)
(* path.  A node is its type and its name; weights and metadata, which     *)
(* nothing reads, are left out.                                            *)
EXTENDS Providers, Sequences, Bags, FiniteSetsExt

CONSTANTS
  Parties,  \* [id, country, methods, currency]: what receivers and merchants are added with
  MaxAdded  \* bound on the calls of add_receiver and add_merchant

Countries == {"IN", "US", "EU", "SG", "AE", "NP", "BD", "LK"}

ASSUME GraphAssumption ==
  /\ MaxAdded \in Nat
  /\ \A p \in Parties : p.methods \subseteq Methods /\ p.currency \in Currencies

VARIABLES
  parties, \* the receiver and merchant nodes of PaymentGraph._nodes
  edges,   \* the edges of PaymentGraph._edges that come from parties, a bag:
           \* find_path finds a path as long in whatever order they are listed
  added    \* history: the calls, as <<type, party>>

graph == <<parties, edges, added>>

-----------------------------------------------------------------------------
\* "Cross-border edges", which metadata calls bidirectional.
Corridors == {
  <<"IN", "SG">>, <<"IN", "AE">>, <<"IN", "US">>, <<"IN", "NP">>, <<"IN", "BD">>,
  <<"IN", "LK">>, <<"US", "EU">>, <<"US", "SG">>, <<"EU", "SG">>}

SupportedMethods == UNION {Registry[id].methods : id \in DOMAIN Registry}

\* _build_from_registry: its nodes,
BuiltNodes ==
  ({"currency"} \X Currencies) \union ({"provider"} \X DOMAIN Registry)
    \union ({"method"} \X SupportedMethods) \union ({"country"} \X Countries)

\* and its edges.
BuiltEdges ==
  (UNION {{<<<<"provider", id>>, <<"currency", c>>>> : c \in Registry[id].currencies}
           \union {<<<<"provider", id>>, <<"method", m>>>> : m \in Registry[id].methods}
         : id \in DOMAIN Registry})
    \union {<<<<"country", c[1]>>, <<"country", c[2]>>>> : c \in Corridors}

Nodes == BuiltNodes \union parties

EdgesFrom(node, some) == {e[2] : e \in {d \in some : d[1] = node}}

BuiltAdjacency == [node \in BuiltNodes |-> EdgesFrom(node, BuiltEdges)]

\* The neighbors in _adjacency[node].
Adjacent(node) ==
  EdgesFrom(node, BagToSet(edges))
    \union (IF node \in BuiltNodes THEN BuiltAdjacency[node] ELSE {})

\* _add_edge, to the targets that are nodes.
LinksTo(node, targets) == SetToBag({<<node, t>> : t \in targets \intersect BuiltNodes})

\* The targets a party is linked to: a merchant has no edge to its currency.
Targets(type, p) ==
  {<<"country", p.country>>} \union ({"method"} \X p.methods)
    \union (IF type = "receiver" THEN {<<"currency", p.currency>>} ELSE {})

GraphInit == parties = {} /\ edges = EmptyBag /\ added = <<>>

\* Mutant: adding a party again replaces its edges.
Readd(type, p) ==
  LET kept == [e \in {d \in BagToSet(edges) : d[1] # <<type, p.id>>} |-> edges[e]]
  IN /\ Len(added) < MaxAdded
     /\ parties' = parties \union {<<type, p.id>>}
     /\ edges' = kept (+) LinksTo(<<type, p.id>>, Targets(type, p))
     /\ added' = Append(added, <<type, p>>)

\* add_receiver and add_merchant, for a party that is new or known already.
AddParty(type, p) ==
  /\ Len(added) < MaxAdded
  /\ parties' = parties \union {<<type, p.id>>}
  /\ edges' = edges (+) LinksTo(<<type, p.id>>, Targets(type, p))
  /\ added' = Append(added, <<type, p>>)

GraphNext == \E type \in {"receiver", "merchant"}, p \in Parties : AddParty(type, p)

\* Mutant: a party, its country, and one corridor.
TwoEdges == 2

\* The default of find_path.
MaxDepth == 4

\* A round of find_path: the target is looked for among the neighbors found.
Round(search) ==
  LET neighbors == UNION {Adjacent(n) : n \in search.queue}
  IN [queue |-> neighbors \ search.visited, visited |-> search.visited \union neighbors,
      found |-> Append(search.found, neighbors)]

\* What every round finds.
Search(source) ==
  LET After[k \in 0..MaxDepth] ==
        IF k = 0 THEN [queue |-> {source}, visited |-> {source}, found |-> <<>>]
        ELSE Round(After[k - 1])
  IN After[MaxDepth].found

NoPath == 0

\* find_path(source, target): the number of edges of the path, or NoPath for
\* None, for every target there is.
PathsFrom(source) ==
  LET found == Search(source)
      Rounds(target) == {k \in DOMAIN found : target \in found[k]}
  IN [target \in Nodes |-> IF Rounds(target) = {} THEN NoPath ELSE Min(Rounds(target))]

-----------------------------------------------------------------------------
(* Searching four edges deep misses nothing: what find_path finds from a   *)
(* node is closed under one edge more, and as near as can be, with         *)
(* receivers and merchants in any country.  The longest path is from a     *)
(* party in India to the EU.                                               *)
FourHopsSuffice ==
  \A source \in Nodes :
    LET paths == PathsFrom(source)
        reached == {n \in Nodes : paths[n] # NoPath}
        Hops(n) == IF n = source THEN 0 ELSE paths[n]
    IN /\ \A n \in reached \union {source} : \A next \in Adjacent(n) :
            next \in reached /\ paths[next] <= Hops(n) + 1
       /\ \A n \in reached : \E before \in reached \union {source} :
            n \in Adjacent(before) /\ paths[n] = Hops(before) + 1

\* The calls that added a party.
Given(node) == {added[n][2] : n \in {m \in DOMAIN added :
                                  <<added[m][1], added[m][2].id>> = node}}

(* One edge away from a party is what the calls that added it named, all   *)
(* of them: adding a party again takes nothing back (graph.py:128-151).    *)
(* A country the graph does not have, a method no provider supports and a  *)
(* merchant's currency have no edge.                                       *)
PartiesReach ==
  \A party \in parties :
    LET calls == Given(party)
        paths == PathsFrom(party)
    IN {n \in Nodes : paths[n] = 1} =
         ({"country"} \X ({p.country : p \in calls} \intersect Countries))
           \union ({"method"} \X ((UNION {p.methods : p \in calls}) \intersect SupportedMethods))
           \union (IF party[1] = "receiver" THEN {"currency"} \X {p.currency : p \in calls}
                                            ELSE {})

-----------------------------------------------------------------------------
(* A corridor is "bidirectional" (graph.py:114): a party with a path to    *)
(* one end of it has one to the other.                                     *)
CorridorsWorkBothWays ==
  \A party \in parties :
    LET paths == PathsFrom(party)
    IN \A c \in Corridors :
         paths[<<"country", c[1]>>] = NoPath <=> paths[<<"country", c[2]>>] = NoPath
=============================================================================

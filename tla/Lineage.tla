------------------------------ MODULE Lineage ------------------------------
(***************************************************************************)
(* The head revision of one execution generation                           *)
(* (codex_session_relay/currency.py, head_revision): which of the          *)
(* revisions a child reported in it the assignment stands on, decided from *)
(* what each declares to supersede and never from the order of arrival.    *)
(*                                                                         *)
(*   nodes       the reviewable revisions of the generation, by their hash *)
(*   supersedes  the hash each declares to replace, or None                *)
(*   anchors     the revision whose ruling opened this generation, as a    *)
(*               set of at most one hash                                   *)
(***************************************************************************)
EXTENDS Integers, FiniteSets

CONSTANT None

\* A local revision or the requested predecessor with the declared hash: two when the child
\* reports the very bytes it was asked to correct.
Targets(v, nodes, supersedes, anchors) ==
  {<<"local", w>> : w \in {w \in nodes : w = supersedes[v]}}
    \cup {<<"requested", w>> : w \in {w \in anchors : w = supersedes[v]}}

Declares(nodes, supersedes) == {v \in nodes : supersedes[v] # None}

Resolves(nodes, supersedes, anchors) ==
  \A v \in Declares(nodes, supersedes) :
    Cardinality(Targets(v, nodes, supersedes, anchors)) = 1

\* Nodes with an edge to another node of the generation.
Edges(nodes, supersedes) == {v \in nodes : supersedes[v] \in nodes}

Cyclic(nodes, supersedes) ==
  \E S \in SUBSET Edges(nodes, supersedes) : S # {} /\ \A v \in S : supersedes[v] \in S

Forked(nodes, supersedes) ==
  \E v, w \in Declares(nodes, supersedes) : v # w /\ supersedes[v] = supersedes[w]

Tips(nodes, supersedes) == {v \in nodes : \A w \in nodes : supersedes[w] # v}

\* The walk from the only tip then reaches every node: HeadIsChainEnd shows that the last check
\* of the code, for a disconnected chain, refuses nothing more.
HasHead(nodes, supersedes, anchors) ==
  /\ nodes # {}
  /\ Resolves(nodes, supersedes, anchors)
  /\ ~Cyclic(nodes, supersedes) /\ ~Forked(nodes, supersedes)
  /\ Cardinality(Tips(nodes, supersedes)) = 1

HeadOf(nodes, supersedes, anchors) ==
  IF HasHead(nodes, supersedes, anchors)
  THEN CHOOSE v \in nodes : v \in Tips(nodes, supersedes)
  ELSE None

-----------------------------------------------------------------------------
(* Reference: the revisions form one chain, written down newest first, in    *)
(* which each declares the next, and the oldest declares nothing or the      *)
(* requested predecessor, which the generation does not report again.        *)

Chains(nodes) ==
  {c \in [1..Cardinality(nodes) -> nodes] : \A v \in nodes : \E i \in DOMAIN c : c[i] = v}

OneChain(c, nodes, supersedes, anchors) ==
  \A i \in DOMAIN c :
    IF i < Cardinality(nodes)
    THEN supersedes[c[i]] = c[i + 1] /\ c[i + 1] \notin anchors
    ELSE supersedes[c[i]] \in {None} \cup (anchors \ nodes)

IsChainEnd(v, nodes, supersedes, anchors) ==
  \E c \in Chains(nodes) :
    c # <<>> /\ c[1] = v /\ OneChain(c, nodes, supersedes, anchors)
=============================================================================

-------------------------- MODULE VirtualElements --------------------------
(***************************************************************************)
(* The part of the document that a binding of Knockout works on: the       *)
(* children of one element, in order, and a container among them.  The     *)
(* container is that element itself, or a pair of comments,                *)
(* "<!-- ko ... -->" and "<!-- /ko -->", with what stands between them.    *)
(*                                                                         *)
(* A node is [id, kind, shows, bound]: an "element", a "text", a "start"   *)
(* or an "end" comment; "bound" counts how often bindings were applied to  *)
(* it since it was last cleaned: the second time is an error.  A document  *)
(* has the "children", the ids of those that were "cleaned" and the "last" *)
(* id.  The start comments of the page have an "if" binding, except for    *)
(* the container's.                                                        *)
(***************************************************************************)
EXTENDS Integers, Sequences, SequencesExt

(* No such node; of a container: the element whose children these are.     *)
NoNode == 0

IsStartComment(node) == node.kind = "start"
IsEndComment(node) == node.kind = "end"

Ids(nodes) == [i \in DOMAIN nodes |-> nodes[i].id]

PlaceOf(children, id) == SelectInSeq(children, LAMBDA node : node.id = id)

Attached(children, id) == PlaceOf(children, id) # 0

RealNextSibling(children, id) ==
  LET i == PlaceOf(children, id)
  IN  IF i < Len(children) THEN children[i + 1].id ELSE NoNode

-----------------------------------------------------------------------------
(* Children and siblings, with comments taken as containers.               *)

GetVirtualChildren(children, start) ==
  LET next(s, node) ==
        IF s.depth = 0 \/ (s.depth = 1 /\ IsEndComment(node))
        THEN [s EXCEPT !.depth = 0]
        ELSE [depth |-> CASE IsStartComment(node) -> s.depth + 1
                          [] IsEndComment(node) -> s.depth - 1
                          [] OTHER -> s.depth,
              nodes |-> Append(s.nodes, node)]
  IN  FoldLeft(next, [depth |-> 1, nodes |-> <<>>],
               SubSeq(children, PlaceOf(children, start) + 1, Len(children))).nodes

GetMatchingEndComment(children, start) ==
  children[PlaceOf(children, start) + Len(GetVirtualChildren(children, start)) + 1]

ChildNodes(children, container) ==
  IF container = NoNode THEN children ELSE GetVirtualChildren(children, container)

FirstChild(children, container) ==
  LET nodes == ChildNodes(children, container)
  IN  IF nodes = <<>> THEN NoNode ELSE nodes[1].id

NextSibling(children, id) ==
  LET i == PlaceOf(children, id)
      from == IF IsStartComment(children[i])
              THEN PlaceOf(children, GetMatchingEndComment(children, id).id) ELSE i
  IN  IF from = Len(children) \/ IsEndComment(children[from + 1]) THEN NoNode
      ELSE children[from + 1].id

Without(children, id) == SelectSeq(children, LAMBDA node : node.id # id)

InsertAfter(children, container, node, afterId) ==
  LET others == Without(children, node.id)
      after == IF afterId = NoNode THEN container ELSE afterId   \* or prepend
  IN  InsertAt(others, PlaceOf(others, after) + 1, node)

-----------------------------------------------------------------------------
(* domNodeDisposal: the dispose callbacks of a node are run and forgotten, *)
(* with its data.  Texts have none.                                        *)

CleanNode(dom, id) ==
  [dom EXCEPT
     !.children = [i \in DOMAIN @ |->
                     IF @[i].id = id THEN [@[i] EXCEPT !.bound = 0] ELSE @[i]],
     !.cleaned = @ \cup {id}]

\* Mutation: the node is taken out and not cleaned.
JustRemove(dom, id) == [dom EXCEPT !.children = Without(@, id)]

RemoveNode(dom, id) ==
  [CleanNode(dom, id) EXCEPT !.children = Without(@, id)]

RemoveNodes(dom, nodes) == FoldLeft(RemoveNode, dom, Ids(nodes))

EmptyNode(dom, container) ==
  RemoveNodes(dom, ChildNodes(dom.children, container))

(* Clones have no data and no bindings.                                    *)
CloneNodes(dom, kinds, shows) ==
  [i \in DOMAIN kinds |->
     [id |-> dom.last + i, kind |-> kinds[i], shows |-> shows, bound |-> 0]]

InsertBefore(dom, nodes, place) ==
  [dom EXCEPT !.last = @ + Len(nodes),
              !.children = SubSeq(@, 1, place - 1) \o nodes \o
                           SubSeq(@, place, Len(@))]

(* The end comment follows its start comment, which was just emptied.      *)
SetDomNodeChildren(dom, start, nodes) ==
  LET emptied == EmptyNode(dom, start)
  IN  InsertBefore(emptied, nodes, PlaceOf(emptied.children, start) + 1)

ReplaceDomNodes(dom, ids, nodes) ==
  FoldLeft(RemoveNode,
           InsertBefore(dom, nodes, PlaceOf(dom.children, ids[1])), ids)

(* The nodes of a template's output as they are now: those in front that   *)
(* are gone are left out, and those between the first and the last are     *)
(* what is there, which bindings may have changed.                         *)
\* Mutation: what is gone is left out, and what has come is not seen.
StillThere(children, ids) ==
  SelectSeq(ids, LAMBDA id : Attached(children, id))

FixUpContinuousNodeArray(children, ids) ==
  LET first == SelectInSeq(ids, LAMBDA id : Attached(children, id))
      rest == SubSeq(ids, first, Len(ids))
  IN  IF first = 0 THEN <<>>
      ELSE IF Len(rest) = 1 THEN rest
      ELSE Ids(SubSeq(children, PlaceOf(children, rest[1]),
                                PlaceOf(children, Last(rest))))

-----------------------------------------------------------------------------
(* Bindings are applied to a node and, unless they care for them, to its   *)
(* descendants.  The next node is recorded before a node is bound, as that *)
(* may change what follows it.                                             *)

(* Walks with Bind through siblings, from one up to another.  In(s) are    *)
(* the children in the state s of what Bind changes.                       *)
Walk(state, first, outOfRange, In(_), Bind(_, _)) ==
  LET next(s, k) ==
        IF s.next \in {NoNode, outOfRange} THEN s
        ELSE [next |-> NextSibling(In(s.state), s.next),
              state |-> Bind(s.state, s.next)]
  IN  FoldLeft(next, [next |-> first, state |-> state], In(state)).state

ChildrenOf(dom) == dom.children

(* A node that has no descendants among the children.                      *)
ApplyToNode(dom, id) ==
  LET i == PlaceOf(dom.children, id)
  IN  IF dom.children[i].kind \notin {"element", "start"} THEN dom
      ELSE [dom EXCEPT !.children[i].bound = @ + 1]

ApplyToDescendants(dom, start) ==
  Walk(dom, FirstChild(dom.children, start), NoNode, ChildrenOf, ApplyToNode)

(* The "if" binding, which keeps a copy of its content.                    *)
RefreshIf(dom, start, shouldDisplay, isFirstRender) ==
  LET item == dom.children[PlaceOf(dom.children, start)].shows
  IN  IF ~shouldDisplay THEN EmptyNode(dom, start)
      ELSE ApplyToDescendants(
             IF isFirstRender THEN dom
             ELSE SetDomNodeChildren(dom, start, CloneNodes(dom, <<"element">>, item)),
             start)

=============================================================================

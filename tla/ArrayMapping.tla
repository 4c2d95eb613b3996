---------------------------- MODULE ArrayMapping ----------------------------
(***************************************************************************)
(* The "foreach" binding: what is in a container of the document is kept   *)
(* equal to the items of an array, by editing it.                          *)
(*                                                                         *)
(* Besides its children, the document has the "container", its "template", *)
(* the kinds of the nodes that the container held at first, and "mapped",  *)
(* the last mapping result: one entry an item, with the ids of its nodes.  *)
(* With a beforeRemove callback, a removed item's nodes stay in the        *)
(* container until the page removes them.  The "options" have beforeRemove *)
(* and the items that are "open", whose "if" binding shows its content.    *)
(***************************************************************************)
EXTENDS ArrayDiff, VirtualElements

Mapped(item, index) ==
  [arrayEntry |-> item, nodes |-> <<>>, index |-> index, initialized |-> FALSE]

(* The nodes of the items that are in the document.                        *)
Live(dom) ==
  UNION {ToSet(FixUpContinuousNodeArray(dom.children, dom.mapped[i].nodes)) :
           i \in DOMAIN dom.mapped}

(* The page's next call begins: a node is called by its place.             *)
Settled(dom) ==
  LET place(id) == PlaceOf(dom.children, id)
  IN  [dom EXCEPT
         !.mapped = [i \in DOMAIN @ |->
                       [@[i] EXCEPT !.nodes = [k \in DOMAIN @ |-> place(@[k])]]],
         !.children = [i \in DOMAIN @ |-> [@[i] EXCEPT !.id = i]],
         !.container = place(@), !.cleaned = {}, !.last = Len(dom.children)]

(* ko.removeNode of the element.  The computeds of the container and of    *)
(* its items are disposed of with it.                                      *)
RemoveContainer(dom) ==
  [dom EXCEPT !.mapped = <<>>, !.children = <<>>, !.container = NoNode,
              !.cleaned = ToSet(Ids(dom.children))]

(* The content becomes the template.                                       *)
MoveToTemplate(dom) ==
  LET nodes == ChildNodes(dom.children, dom.container)
  IN  [RemoveNodes(dom, nodes) EXCEPT
         !.template = [i \in DOMAIN nodes |-> nodes[i].kind]]

RenderTemplate(dom, item) == CloneNodes(dom, dom.template, item)

(* Bindings are applied to the nodes that were rendered for an item.       *)
ActivateBindings(dom, ids, open) ==
  LET bind(d, id) ==
        LET node == d.children[PlaceOf(d.children, id)]
        IN  IF IsStartComment(node)
            THEN RefreshIf(ApplyToNode(d, id), id, node.shows \in open, TRUE)
            ELSE ApplyToNode(d, id)
  IN  IF ids = <<>> THEN dom
      ELSE Walk(dom, ids[1], NextSibling(dom.children, Last(ids)), ChildrenOf, bind)

-----------------------------------------------------------------------------
(* setDomNodeChildrenFromArrayMapping.  The edit script makes the things   *)
(* to do: first "delete" what is gone; then put in place, in the order of  *)
(* the script, what stays ("keep"), what is new ("add") and, if the page   *)
(* is to remove them, the nodes of deleted items ("linger").               *)

Do(action, entry) == [do |-> action, entry |-> entry]

FixedUp(dom, i) ==
  [dom.mapped[i] EXCEPT !.nodes = FixUpContinuousNodeArray(dom.children, @)]

ItemMovedOrRetained(s, oldPosition, dom) ==
  [s EXCEPT !.new = @ + 1,
            !.todo = Append(@, Do("keep", [FixedUp(dom, oldPosition) EXCEPT !.index = s.new]))]

ItemDeleted(s, entry, beforeRemove) ==
  [s EXCEPT !.old = @ + 1,
            !.todo = <<Do("delete", entry)>> \o @ \o
                     (IF beforeRemove THEN <<Do("linger", entry)>> ELSE <<>>)]

ItemAdded(s, item) ==
  [s EXCEPT !.new = @ + 1, !.todo = Append(@, Do("add", Mapped(item, s.new)))]

Edit(s, e, dom, beforeRemove) ==
  CASE e.status = "retained" ->
         [ItemMovedOrRetained(s, s.old, dom) EXCEPT !.old = @ + 1]
    [] e.status = "deleted" /\ e.moved # None -> [s EXCEPT !.old = @ + 1]
    [] e.status = "deleted" /\ e.moved = None ->
         ItemDeleted(s, FixedUp(dom, s.old), beforeRemove)
    [] e.status = "added" /\ e.moved # None -> ItemMovedOrRetained(s, e.moved, dom)
    [] e.status = "added" /\ e.moved = None -> ItemAdded(s, e.value)

LastArray(dom) == [i \in DOMAIN dom.mapped |-> dom.mapped[i].arrayEntry]

Todo(dom, array, beforeRemove) ==
  FoldLeft(LAMBDA s, e : Edit(s, e, dom, beforeRemove),
           [old |-> 1, new |-> 0, todo |-> <<>>],
           CompareArrays(LastArray(dom), array)).todo

Delete(s, entry, beforeRemove) ==
  [s EXCEPT !.dom =
     FoldLeft(LAMBDA d, id : IF beforeRemove THEN CleanNode(d, id) ELSE RemoveNode(d, id),
              @, entry.nodes)]

(* Nodes are put in the right place if they are not there already: behind  *)
(* the last one, or in front.                                              *)
Place(s, node) ==
  LET next == IF s.last = NoNode THEN FirstChild(s.dom.children, s.dom.container)
              ELSE RealNextSibling(s.dom.children, s.last)
  IN  [dom |-> [s.dom EXCEPT !.children =
                  IF node.id = next THEN @
                  ELSE InsertAfter(@, s.dom.container, node, s.last)],
       last |-> node.id]

PlaceOld(s, entry) ==
  FoldLeft(Place, s, [k \in DOMAIN entry.nodes |->
                        s.dom.children[PlaceOf(s.dom.children, entry.nodes[k])]])

Render(s, nodes, entry) ==
  FoldLeft(Place, [s EXCEPT !.dom.last = @ + Len(nodes),
                            !.dom.mapped = Append(@, [entry EXCEPT !.nodes = Ids(nodes)])],
           nodes)

Activate(dom, open) == ActivateBindings(dom, Last(dom.mapped).nodes, open)

Recorded(dom) ==
  [dom EXCEPT !.mapped[Len(dom.mapped)] =
     [@ EXCEPT !.initialized = TRUE,
               !.nodes = FixUpContinuousNodeArray(dom.children, @)]]

(* What is new is rendered and put in place; then its bindings are applied *)
(* and its nodes are recorded.                                             *)
Stages == <<"place", "activate", "record">>

Process(s, item, stage, options) ==
  CASE stage = "place" /\ item.do = "delete" ->
         Delete(s, item.entry, options.beforeRemove)
    [] stage = "place" /\ item.do = "linger" -> PlaceOld(s, item.entry)
    [] stage = "place" /\ item.do = "keep" ->
         PlaceOld([s EXCEPT !.dom.mapped = Append(@, item.entry)], item.entry)
    [] stage = "place" /\ item.do = "add" ->
         Render(s, RenderTemplate(s.dom, item.entry.arrayEntry), item.entry)
    [] stage = "activate" /\ item.do = "add" ->
         [s EXCEPT !.dom = Activate(@, options.open)]
    [] stage = "record" /\ item.do = "add" -> [s EXCEPT !.dom = Recorded(@)]
    [] OTHER -> s

SetChildrenFromArray(dom, array, options) ==
  FoldInTurn(LAMBDA s, item : FoldLeft(LAMBDA t, stage : Process(t, item, stage, options),
                                       s, Stages),
             [dom |-> [dom EXCEPT !.mapped = <<>>], last |-> NoNode],
             Todo(dom, array, options.beforeRemove)).dom

(* An observable that the template of an item has read changes: the item   *)
(* is mapped again, to nodes in the place of the others.                   *)
Remap(dom, i, open) ==
  LET old == FixUpContinuousNodeArray(dom.children, dom.mapped[i].nodes)
      new == RenderTemplate(dom, dom.mapped[i].arrayEntry)
      bound == ActivateBindings(ReplaceDomNodes(dom, old, new), Ids(new), open)
  IN  [bound EXCEPT
         !.mapped[i].nodes = FixUpContinuousNodeArray(bound.children, Ids(new))]

Remapped(dom, item, open) ==
  FoldLeft(LAMBDA d, i : IF d.mapped[i].arrayEntry = item THEN Remap(d, i, open) ELSE d,
           dom, [i \in DOMAIN dom.mapped |-> i])

(* The "if" bindings of an item's nodes are told that it is open, or not.  *)
Toggled(dom, item, shouldDisplay) ==
  LET starts == SelectSeq(ChildNodes(dom.children, dom.container),
                          LAMBDA node : IsStartComment(node) /\ node.shows = item
                                        /\ node.bound # 0)
  IN  FoldLeft(LAMBDA d, id : RefreshIf(d, id, shouldDisplay, FALSE), dom, Ids(starts))

=============================================================================

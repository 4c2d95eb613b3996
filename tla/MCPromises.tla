----------------------------- MODULE MCPromises -----------------------------
(***************************************************************************)
(* Small instances of Promises: each setup lets the page make a few calls  *)
(* of some of the functions.                                               *)
(***************************************************************************)
EXTENDS Promises, TLC

CONSTANTS v, w, t, b, p1, p2, p3, p4, p5

No == [f \in Calls |-> 0]
May(made0, calls, values, promises) ==
  [calls |-> calls @@ No, made |-> made0, values |-> values, promises |-> promises]

\* Two promises that may be resolved with each other, and a callback.
Chain == May(<<p1, p2>>, "resolve" :> 2 @@ "reject" :> 1 @@ "then" :> 1, {v}, TRUE)

\* Callbacks of one promise or of each other.
Callbacks == May(<<p1>>, "resolve" :> 1 @@ "then" :> 3, {v}, FALSE)
Competing == May(<<p1>>, "resolve" :> 1 @@ "reject" :> 1 @@ "then" :> 2, {v}, FALSE)

\* Two promises, or values, that are waited for together.
Together(kind)   == May(<<p1, p2>>, "resolve" :> 1 @@ "reject" :> 1 @@ kind :> 1, {v, w}, TRUE)
BothReject(kind) == May(<<p1, p2>>, "reject" :> 2 @@ kind :> 1, {v, w}, TRUE)

\* An async function that awaits a promise, and another one.
Async(how) == May(<<p1>>, how :> 1 @@ "async" :> 2, {v}, TRUE)

\* Objects with a method then, or whose property then cannot be read.
Foreign == May(<<>>, "new" :> 1 @@ "resolve" :> 2 @@ "adoption" :> 2 @@ "then" :> 1, {v, t, b}, FALSE)
ForeignTogether == May(<<>>, "adoption" :> 2 @@ "all" :> 1, {t, b}, FALSE)

MCSetups ==
  {Chain, Callbacks, Competing, Foreign, ForeignTogether}
    \cup {Together(kind) : kind \in {"all", "race"}}
    \cup {BothReject(kind) : kind \in {"all", "race"}}
    \cup {Async(how) : how \in {"resolve", "reject"}}
=============================================================================

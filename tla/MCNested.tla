------------------------------ MODULE MCNested ------------------------------
(* The inner dispatcher in each tier, twice, and beside other handlers; its  *)
(* own program routes the kind, an action of it, another kind, or nothing,   *)
(* or is an example's.                                                       *)
EXTENDS Nested, Examples

CONSTANTS issues, installation, opened, reopened, deleted

Kinds == {issues, installation}
Actions == {opened, reopened, deleted}

Slots(kind, actions) == {[kind |-> kind, action |-> a] : a \in actions}

Always == [tier |-> "always", slots |-> {}, input |-> Whole]
Fallback == [tier |-> "fallback", slots |-> {}, input |-> Whole]
On(kind, actions, input) == [tier |-> "on", slots |-> Slots(kind, actions), input |-> input]

Wide == On(issues, {NoAction}, Whole)
Opened == On(issues, {opened}, Whole)
Typed == On(issues, {NoAction}, issues)

Tree(outer, inner, positions) == [outer |-> outer, inner |-> inner, nested |-> positions]

Outers ==
  {<< <<Wide, Opened>>, {1} >>, << <<Always, Wide>>, {1, 2} >>,
   << <<Fallback, Fallback>>, {1} >>, << <<Wide, Typed>>, {1} >>}

Inners ==
  {<<>>, <<Always, Typed>>, <<Opened, Wide>>,
   <<On(installation, {NoAction}, Whole), Fallback>>,
   <<Always, On(installation, {opened}, installation)>>,
   DispatcherExample(issues, installation, opened, reopened, deleted),
   QuickstartExample(issues, opened), ObservabilityExample(issues)}

Composed == {Tree(o[1], i, o[2]) : o \in Outers, i \in Inners}

Sent == Envelope
=============================================================================

------------------------------- MODULE MCInbox -------------------------------
(* The inbox over the example's dispatcher and over one of its tests', with *)
(* the kind they route and one they do not know, copies with one payload    *)
(* and with two.                                                            *)
EXTENDS Inbox

CONSTANTS pull_request, push, opened, synchronize, reopened, future, id1, id2

Kinds == {pull_request, push}
Actions == {opened, synchronize, reopened, future}
Ids == {id1, id2}

KindWideOnly ==
  <<[tier |-> "on", slots |-> {[kind |-> pull_request, action |-> NoAction]},
     input |-> Whole]>>

Dispatchers ==
  {ExampleDispatcher(pull_request, opened, synchronize, reopened), KindWideOnly}

Delivered(kind, action, decodes, fits) ==
  [kind |-> kind, action |-> action, meta_decodes |-> decodes, fits |-> fits]

\* Matched, unrepresentable, an added action, an unknown kind, no meta.
Received ==
  {Delivered(pull_request, opened, TRUE, TRUE),
   Delivered(pull_request, synchronize, TRUE, FALSE),
   Delivered(pull_request, future, TRUE, TRUE),
   Delivered(push, NoAction, TRUE, TRUE),
   Delivered(push, NoAction, FALSE, FALSE)}

Copies == [id : Ids, envelope : Received]
=============================================================================

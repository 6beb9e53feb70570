------------------------------ MODULE Examples ------------------------------
(* The dispatchers that examples/dispatcher.rs, quickstart.rs and            *)
(* observability.rs build, as the registrations their builders are given.    *)
EXTENDS Selection, Sequences

Registered(tier, slots, input) == [tier |-> tier, slots |-> slots, input |-> input]

\* IssueView, whose derive declares the kind; Event<IssueView> decodes as it.
IssueView(issues) == issues

\* audit, label, notify, record_installation, log_unrouted: the second and the
\* third under their view's kind.
DispatcherExample(issues, installation, opened, reopened, deleted) ==
  LET on(kind, actions, input) ==
        Registered("on", {[kind |-> kind, action |-> a] : a \in actions}, input)
      view == IssueView(issues)
  IN  <<Registered("always", {}, Whole),
        on(view, {opened}, view),
        on(view, {opened, reopened}, view),
        on(installation, {deleted}, Whole),
        Registered("fallback", {}, Whole)>>

\* thank, for opened issues.
QuickstartExample(issues, opened) ==
  <<Registered("on", {[kind |-> issues, action |-> opened]}, Whole)>>

\* fail, for issues.
ObservabilityExample(issues) ==
  <<Registered("on", {[kind |-> issues, action |-> NoAction]}, Whole)>>
=============================================================================

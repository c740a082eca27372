---------------------------- MODULE SylviaComments ----------------------------
(***************************************************************************)
(* What the documentation and the diagnostics of Sylvia say, and the code  *)
(* does not do.                                                            *)
(***************************************************************************)
EXTENDS SylviaContract

\* "It is possible to override all message types like that." (README.md:711):
\* an override attribute is recorded as one of the entry point it names.
AllTypesAreOverridden ==
  stage # "source" => \A i \in DOMAIN program.overrides : Overridden(program, program.overrides[i])

\* "The ExecMsg is the primary one you may use to send messages to the
\* contract." (README.md:238): an ExecMsg of a contract is understood by it.
ExecMsgsAreUnderstood ==
  FromClient /\ call.ty = "exec" /\ AnsweredBy("macro") => Understood(program, call.ty, json)

\* "Instantiation, Reply, Migrate and Sudo messages not supported on traits,
\* they should be defined on contracts directly" (message.rs:595): a program
\* with such a message on a trait is rejected.
TraitsHaveNoOtherMessages ==
  stage \in {"stored", "live"} =>
    \A t \in DOMAIN program.traits :
      \A ty \in MsgTypes \ {"exec", "query"} : Declared(Items(program, t), ty) = {}
=============================================================================

------------------------------ MODULE Attributes ------------------------------
(***************************************************************************)
(* What the macros of sylvia-derive read (parser.rs, variant_descs.rs and  *)
(* the constructors of message.rs) and what they, or the compiler after    *)
(* them, refuse.                                                           *)
(*                                                                         *)
(* A program is one contract with the interfaces it implements:            *)
(*   traits     the interfaces, in the order of the messages attributes;   *)
(*              each a block: its methods (items), its sv::custom          *)
(*              attributes and its associated types ExecC and QueryC       *)
(*   attrs      the custom(..) part of each messages attribute             *)
(*   impls      the methods of the blocks that implement the interfaces,   *)
(*   errors     and the type Error of each of these blocks                 *)
(*   own        the block of the contract itself                           *)
(*   overrides  the words of the sv::override_entry_point attributes       *)
(*   error      the type in the error attribute                            *)
(* A method has a name (fn), the word of its msg attribute ("none" without *)
(* one) and the names of its arguments after the context.                  *)
(***************************************************************************)
EXTENDS Naturals, Sequences, FiniteSetsExt

CONSTANTS
  FnNames,     \* the names of methods
  Variant,     \* to_case(UpperCamel) of a name: the variant of the method
  Snake,       \* to_case(Snake) of a variant: its constructor and its listed name
  Wire         \* serde's rename_all = "snake_case" of a variant: its name in JSON

\* All that is needed of convert_case and serde: they agree on a name that
\* convert_case gives to any variant; and such a name comes back if it is
\* converted to a variant and again.
ASSUME NamesAssumption ==
  \A f, g \in FnNames :
    /\ Wire[Variant[f]] = Snake[Variant[g]] => Snake[Variant[f]] = Wire[Variant[f]]
    /\ Snake[Variant[g]] = f => Snake[Variant[f]] = f

None == "none"

MsgTypes == {"exec", "query", "instantiate", "migrate", "reply", "sudo"}

\* The words MsgAttr::parse accepts.
MsgWords == MsgTypes \ {"sudo"}

\* The methods of a block, by their place, that handle messages of type ty.
Declared(items, ty) == {k \in DOMAIN items : items[k].msg = ty}

\* parse_struct_message: the first of them.
StructMethod(items, ty) == Min(Declared(items, ty))

Own(p)      == Len(p.traits) + 1
Owners(p)   == 1 .. Own(p)
Blocks(p)   == Append(p.traits, p.own)
Items(p, o) == Blocks(p)[o].items

VariantOf(p, o, k) == Variant[Items(p, o)[k].fn]

\* messages(): the names a message enum lists.
Messages(p, o, ty) == {Snake[VariantOf(p, o, k)] : k \in Declared(Items(p, o), ty)}

\* The constructors a message enum has, which bear the listed names.
Constructors(p, o, ty) == Messages(p, o, ty)

\* MsgType::emit_ctx_type and the values passed for it.
CtxOf(ty, query) ==
  [deps  |-> IF ty = "query" THEN "Deps" ELSE "DepsMut",
   query |-> query,
   info  |-> ty \in {"exec", "instantiate"}]

\* Custom and the associated types: which message or query type a block uses.
CustomType(block, what) ==
  LET given == IF block.customs = <<>> THEN None ELSE Head(block.customs)[what]
      types == SelectSeq(<<given, block.associated[what]>>, LAMBDA t : t # None)
  IN  IF types = <<>> THEN "Empty" ELSE Head(types)

\* OverrideEntryPoint::parse: the entry point an attribute is recorded under.
Recorded(word) == IF word = "query" THEN "instantiate" ELSE word

\* OverrideEntryPoints::get_entry_point
Overridden(p, ty) == \E i \in DOMAIN p.overrides : Recorded(p.overrides[i]) = ty

-----------------------------------------------------------------------------
(***************************************************************************)
(* emit_error! of the macros.                                              *)
(***************************************************************************)

BadAttributes(items) == {k \in DOMAIN items : items[k].msg \notin MsgWords \cup {None}}

StructErrors(items) ==
  \/ Declared(items, "instantiate") = {}
  \/ \E ty \in {"instantiate", "migrate"} : Cardinality(Declared(items, ty)) > 1

MacrosRefuse(p) ==
  \/ \E o \in Owners(p) : BadAttributes(Items(p, o)) # {} \/ Len(Blocks(p)[o].customs) > 1
  \/ \E t \in DOMAIN p.impls : BadAttributes(p.impls[t]) # {}
  \/ StructErrors(p.own.items)
  \/ \E i \in DOMAIN p.overrides : p.overrides[i] \notin MsgTypes

-----------------------------------------------------------------------------
(***************************************************************************)
(* What the compiler refuses in the code the macros emit.                  *)
(***************************************************************************)

\* Two functions of an enum with the same name: constructors, dispatch or messages.
Ambiguous(p) ==
  \E o \in Owners(p), ty \in {"exec", "query"} :
    \/ Constructors(p, o, ty) \cap {"dispatch", "messages"} # {}
    \/ \E k, l \in Declared(Items(p, o), ty) :
         k # l /\ Snake[VariantOf(p, o, k)] = Snake[VariantOf(p, o, l)]

\* Mutant: the contract's own messages are not compared.
OverlapOfTraits(p) ==
  \E ty \in {"exec", "query"}, o, q \in DOMAIN p.traits :
    o # q /\ Messages(p, o, ty) \cap Messages(p, q, ty) # {}

\* The constant that the dispatch of the glue message evaluates.
Overlap(p) ==
  \E ty \in {"exec", "query"}, o, q \in Owners(p) :
    o # q /\ Messages(p, o, ty) \cap Messages(p, q, ty) # {}

\* The arms of a glue message's dispatch have one type: that of the context, of
\* the response and of the error.  The error of an arm is that of the impl block,
\* or the StdError of into_response where responses are converted; the arm of a
\* query, which is always there, converts none.
ArmsDisagree(p) ==
  \E t \in DOMAIN p.traits, ty \in {"exec", "query"} :
    LET mine(what)  == CustomType(p.own, what)
        its(what)   == CustomType(p.traits[t], what)
        passed      == IF p.attrs[t].query THEN "Empty" ELSE mine("query")
        answered    == IF p.attrs[t].msg THEN "Empty" ELSE mine("msg")
    IN  \/ CtxOf(ty, passed) # CtxOf(ty, its("query"))
        \/ ty = "exec" /\ answered # its("msg")
        \/ ty = "exec" /\ p.attrs[t].msg /\ p.error # "StdError"
        \/ p.errors[t] # p.error

\* impl Querier for BoundQuerier: the queries of the impl block against the trait's.
QueriersDisagree(p) ==
  \E t \in DOMAIN p.impls :
    {Snake[Variant[p.impls[t][k].fn]] : k \in Declared(p.impls[t], "query")}
      # Messages(p, t, "query")
=============================================================================

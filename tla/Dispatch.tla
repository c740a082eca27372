------------------------------- MODULE Dispatch -------------------------------
(***************************************************************************)
(* The code the macros emit: the messages, the clients that build them,    *)
(* the glue message that reads them, and the entry points that a contract  *)
(* has on a chain (EntryPoints) and in a test (MultitestHelpers).          *)
(*                                                                         *)
(* JSON is [map, entries]: whether it is an object, and its fields.        *)
(***************************************************************************)
EXTENDS Attributes

\* The fields of the message a constructor builds from its arguments.
Fields(item, args) ==
  [f \in {item.args[j] : j \in DOMAIN item.args} |->
     args[CHOOSE j \in DOMAIN item.args : item.args[j] = f]]

\* Serialize of a message enum, and of a struct message.
EnumJson(p, o, k, args) ==
  [map |-> TRUE, entries |-> [n \in {Wire[VariantOf(p, o, k)]} |-> Fields(Items(p, o)[k], args)]]

StructJson(item, args) == [map |-> TRUE, entries |-> Fields(item, args)]

\* The variant that the constructor called name builds.
Built(p, o, ty, name) ==
  {k \in Declared(Items(p, o), ty) : Snake[VariantOf(p, o, k)] = name}

-----------------------------------------------------------------------------
(***************************************************************************)
(* Deserialize and dispatch.                                               *)
(***************************************************************************)

\* The name of the message, if there is exactly one.
Sole(json) == {n \in DOMAIN json.entries : json.map /\ DOMAIN json.entries = {n}}

\* Mutant: the messages of interfaces are not tried.
ClaimantOwn(p, ty, name) == {o \in {Own(p)} : name \in Messages(p, o, ty)}

\* Whose messages the name is among; the interfaces come first, in their order.
Claimant(p, ty, name) ==
  {o \in Owners(p) :
     /\ name \in Messages(p, o, ty)
     /\ \A q \in Owners(p) : name \in Messages(p, q, ty) => o <= q}

HasFields(item, body) == \A j \in DOMAIN item.args : item.args[j] \in DOMAIN body

\* Deserialize of the message enum of o.
Decoded(p, o, ty, name, body) ==
  {k \in Declared(Items(p, o), ty) :
     Wire[VariantOf(p, o, k)] = name /\ HasFields(Items(p, o)[k], body)}

Understood(p, ty, json) ==
  IF ty \in {"exec", "query"}
  THEN \E n \in Sole(json) : \E o \in Claimant(p, ty, n) : Decoded(p, o, ty, n, json.entries[n]) # {}
  ELSE json.map /\ HasFields(p.own.items[StructMethod(p.own.items, ty)], json.entries)

\* Mutant: the arguments are passed in the opposite order.
CallBackwards(item, o, body) ==
  [owner |-> o, fn |-> item.fn,
   args  |-> [j \in DOMAIN item.args |-> body[item.args[Len(item.args) + 1 - j]]]]

\* The call in a dispatch arm: each argument is bound by the name of its field.
Call(item, o, body) ==
  [owner |-> o, fn |-> item.fn, args |-> [j \in DOMAIN item.args |-> body[item.args[j]]]]

-----------------------------------------------------------------------------
(***************************************************************************)
(* Submessages: an id, the kind of the message ("plain", "custom", or      *)
(* "unknown" for one that only a feature of Sylvia left out would know)    *)
(* and when a reply is wanted.                                             *)
(***************************************************************************)

ReplyOn == {"never", "success", "error", "always"}

Submessages == [id : Nat, kind : {"plain", "custom", "unknown"}, reply : ReplyOn]

\* Whether a submessage that succeeded, or failed, is answered by a reply.
WantsReply(sub, ok) ==
  sub.reply = "always" \/ sub.reply = (IF ok THEN "success" ELSE "error")

\* Mutant: the submessage is built anew around the message.
IntoMsgAnew(sub) == [id |-> 0, kind |-> sub.kind, reply |-> "never"]

\* IntoMsg::into_msg: the conversion of a response to one with the contract's
\* custom messages, and the submessages it has.
IntoMsg(sub) == [id |-> sub.id, kind |-> sub.kind, reply |-> sub.reply]

Convertible(subs) == \A j \in DOMAIN subs : subs[j].kind = "plain"

\* Mutant: the submessages are not put into the new response.
IntoResponseAnew(subs) == <<>>

\* IntoResponse::into_response
IntoResponse(subs) == [j \in DOMAIN subs |-> IntoMsg(subs[j])]

-----------------------------------------------------------------------------
(***************************************************************************)
(* Entry points: who answers a message of a type, with the method that     *)
(* answers a reply.                                                        *)
(***************************************************************************)

ByUser  == [by |-> "user", reply |-> 0]
ByNone  == [by |-> "none", reply |-> 0]
ByMacro(reply) == [by |-> "macro", reply |-> reply]

Replies(p) == Declared(p.own.items, "reply")

\* EntryPoints::emit
EmitsEntryPoint(p, ty) ==
  /\ ~Overridden(p, ty)
  /\ \/ ty \in {"instantiate", "exec", "query"}
     \/ ty \in {"migrate", "reply"} /\ Declared(p.own.items, ty) # {}

\* The user exports the entry points that the overrides name.
Exports(p, ty) == \E i \in DOMAIN p.overrides : p.overrides[i] = ty

ChainEntry(p, ty) ==
  IF Exports(p, ty) THEN ByUser
  ELSE IF ~EmitsEntryPoint(p, ty) THEN ByNone
  ELSE ByMacro(IF ty = "reply" THEN Min(Replies(p)) ELSE 0)

\* Mutant: a test migrates a contract without a migration message.
TestEntryMigrates(p, ty) ==
  IF Overridden(p, ty) THEN ByUser
  ELSE IF ty = "sudo" THEN ByNone
  ELSE IF ty # "reply" THEN ByMacro(0)
  ELSE IF Replies(p) = {} THEN ByNone ELSE ByMacro(Max(Replies(p)))

\* MultitestHelpers::generate_impl_contract
TestEntry(p, ty) ==
  IF Overridden(p, ty) THEN ByUser
  ELSE IF ty = "sudo" \/ (ty \in {"migrate", "reply"} /\ Declared(p.own.items, ty) = {}) THEN ByNone
  ELSE ByMacro(IF ty = "reply" THEN Max(Replies(p)) ELSE 0)

Entry(p, target, ty) == IF target = "chain" THEN ChainEntry(p, ty) ELSE TestEntry(p, ty)

\* The proxies of a test: a method of the contract or of an interface calls
\* the constructor of its own name.
OwnProxies(p) ==
  {[owner |-> Own(p), ty |-> p.own.items[k].msg, fn |-> p.own.items[k].fn] :
     k \in UNION {Declared(p.own.items, ty) : ty \in {"exec", "query"}}}

TraitProxies(p, t) ==
  {[owner |-> t, ty |-> IF p.impls[t][k].msg = "exec" THEN "exec" ELSE "query", fn |-> p.impls[t][k].fn] :
     k \in UNION {Declared(p.impls[t], ty) : ty \in {"exec", "query", "migrate"}}}

Proxies(p) == OwnProxies(p) \cup UNION {TraitProxies(p, t) : t \in DOMAIN p.impls}

-----------------------------------------------------------------------------
(***************************************************************************)
(* What the compiler refuses of each of the two builds.                    *)
(***************************************************************************)

ExportedTwice(p) == \E ty \in MsgTypes : Exports(p, ty) /\ EmitsEntryPoint(p, ty)

\* The call of the user's function does not fit it, or its message is a Reply.
OverrideDoesNotFit(p) ==
  \E i \in DOMAIN p.overrides :
    LET word == p.overrides[i]
    IN  word = "reply" \/ CtxOf(Recorded(word), "Empty") # CtxOf(word, "Empty")

ProxyDoesNotFit(p) ==
  \E x \in Proxies(p) : x.fn \notin Constructors(p, x.owner, x.ty)

CompilerRefuses(p, target) ==
  \/ Ambiguous(p) \/ Overlap(p) \/ ArmsDisagree(p) \/ QueriersDisagree(p)
  \/ target = "chain" /\ ExportedTwice(p)
  \/ target = "test" /\ (OverrideDoesNotFit(p) \/ ProxyDoesNotFit(p))
=============================================================================

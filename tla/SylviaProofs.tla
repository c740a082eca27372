----------------------------- MODULE SylviaProofs -----------------------------
(***************************************************************************)
(* What holds of SylviaContract for every program, whatever its blocks,    *)
(* names, arguments, attributes and responses are.                         *)
(***************************************************************************)
EXTENDS SylviaContract, TLAPS

-----------------------------------------------------------------------------
(***************************************************************************)
(* Names.                                                                  *)
(***************************************************************************)

LEMMA BlockIsWellFormed ==
  ASSUME NEW p \in Programs, NEW o \in Owners(p)
  PROVE  /\ WellFormedItems(Items(p, o))
         /\ Items(p, o) \in Seq([fn : FnNames, msg : STRING, args : Seq(STRING)])
BY SylviaAssumption DEF WellFormed, WellFormedItems

LEMMA OwnBlock ==
  ASSUME NEW p \in Programs
  PROVE  Own(p) \in Owners(p) /\ Items(p, Own(p)) = p.own.items /\ Own(p) \in Nat
<1> DEFINE B == [items : Seq([fn : FnNames, msg : STRING, args : Seq(STRING)]),
                 customs : Seq([msg : STRING, query : STRING]),
                 associated : [msg : STRING, query : STRING]]
<1>1. p.traits \in Seq(B)
  BY SylviaAssumption DEF WellFormed
<1> HIDE DEF B
<1>2. Len(p.traits) \in Nat
  BY <1>1
<1>3. Append(p.traits, p.own)[Len(p.traits) + 1] = p.own
  BY <1>1
<1> QED
  BY <1>2, <1>3 DEF Own, Owners, Items, Blocks

\* An interface is one of the owners.
LEMMA TraitIsOwner ==
  ASSUME NEW p \in Programs, NEW t \in DOMAIN p.impls
  PROVE  t \in Owners(p)
<1> DEFINE B == [items : Seq([fn : FnNames, msg : STRING, args : Seq(STRING)]),
                 customs : Seq([msg : STRING, query : STRING]),
                 associated : [msg : STRING, query : STRING]]
<1>1. p.traits \in Seq(B) /\ DOMAIN p.impls = DOMAIN p.traits
  BY SylviaAssumption DEF WellFormed
<1> HIDE DEF B
<1>2. t \in 1 .. Len(p.traits) /\ Len(p.traits) \in Nat
  BY <1>1
<1> QED
  BY <1>2 DEF Own, Owners

LEMMA FnIsName ==
  ASSUME NEW p \in Programs, NEW o \in Owners(p), NEW k \in DOMAIN Items(p, o)
  PROVE  Items(p, o)[k].fn \in FnNames
<1> DEFINE I == [fn : FnNames, msg : STRING, args : Seq(STRING)]
<1>1. Items(p, o) \in Seq(I)
  BY BlockIsWellFormed
<1> HIDE DEF I
<1>2. Items(p, o)[k] \in I
  BY <1>1
<1> QED
  BY <1>2 DEF I

\* The messages that have an enum.
EnumTypes == {"exec", "query"}

\* What the compiler makes sure of: a constructor belongs to one method of its
\* block, and a listed name to one block.
LEMMA ConstructorIsUnique ==
  ASSUME NEW p \in Programs, ~ Ambiguous(p), NEW ty \in EnumTypes, NEW o \in Owners(p),
         NEW k \in Declared(Items(p, o), ty), NEW l \in Declared(Items(p, o), ty),
         Snake[VariantOf(p, o, k)] = Snake[VariantOf(p, o, l)]
  PROVE  k = l
<1>1. \A q \in Owners(p), t \in EnumTypes : \A i, j \in Declared(Items(p, q), t) :
        ~ (i # j /\ Snake[VariantOf(p, q, i)] = Snake[VariantOf(p, q, j)])
  BY Zenon DEF Ambiguous, EnumTypes
<1> QED
  BY <1>1

LEMMA ListIsUnique ==
  ASSUME NEW p \in Programs, ~ Overlap(p), NEW ty \in EnumTypes,
         NEW o \in Owners(p), NEW q \in Owners(p),
         NEW n \in Messages(p, o, ty), n \in Messages(p, q, ty)
  PROVE  o = q
<1>1. \A t \in EnumTypes, a, b \in Owners(p) :
        a # b => ~ (Messages(p, a, t) \cap Messages(p, b, t) # {})
  BY Zenon DEF Overlap, EnumTypes
<1>2. o # q => ~ (Messages(p, o, ty) \cap Messages(p, q, ty) # {})
  BY <1>1
<1> QED
  BY <1>2

\* The constructor with the name of a method builds the message of that method.
LEMMA BuiltByName ==
  ASSUME NEW p \in Programs, ~ Ambiguous(p), NEW ty \in EnumTypes, NEW o \in Owners(p),
         NEW k \in Declared(Items(p, o), ty), NEW b \in Built(p, o, ty, Items(p, o)[k].fn)
  PROVE  b = k
<1>1. b \in Declared(Items(p, o), ty) /\ Snake[VariantOf(p, o, b)] = Items(p, o)[k].fn
  BY DEF Built
<1>2. Items(p, o)[k].fn \in FnNames /\ Items(p, o)[b].fn \in FnNames
  BY <1>1, FnIsName DEF Declared
<1>3. Snake[VariantOf(p, o, k)] = Items(p, o)[k].fn
  BY <1>1, <1>2, NamesAssumption DEF VariantOf
<1> QED
  BY <1>1, <1>3, ConstructorIsUnique

\* If some block lists serde's name of a method's message, then it is the block
\* of the method, which lists it for this method.
LEMMA ListedByItsBlock ==
  ASSUME NEW p \in Programs, ~ Overlap(p), NEW ty \in EnumTypes,
         NEW o \in Owners(p), NEW k \in Declared(Items(p, o), ty),
         NEW q \in Owners(p), Wire[VariantOf(p, o, k)] \in Messages(p, q, ty)
  PROVE  q = o /\ Snake[VariantOf(p, o, k)] = Wire[VariantOf(p, o, k)]
<1> DEFINE n == Wire[VariantOf(p, o, k)]
<1>1. PICK l \in Declared(Items(p, q), ty) : n = Snake[VariantOf(p, q, l)]
  BY DEF Messages
<1>2. Items(p, o)[k].fn \in FnNames /\ Items(p, q)[l].fn \in FnNames
  BY FnIsName DEF Declared
<1>3. Snake[VariantOf(p, o, k)] = n
  BY <1>1, <1>2, NamesAssumption DEF VariantOf
<1>4. n \in Messages(p, o, ty)
  BY <1>3 DEF Messages
<1> QED
  BY <1>3, <1>4, ListIsUnique

\* A name that is claimed and decoded is that of no other method.
LEMMA NameIsOfOne ==
  ASSUME NEW p \in Programs, ~ Overlap(p), ~ Ambiguous(p), NEW ty \in EnumTypes, NEW n,
         NEW o \in Owners(p), NEW k \in Declared(Items(p, o), ty), Wire[VariantOf(p, o, k)] = n,
         NEW q \in Owners(p), NEW l \in Declared(Items(p, q), ty), Wire[VariantOf(p, q, l)] = n,
         n \in Messages(p, q, ty)
  PROVE  o = q /\ k = l
<1>1. q = o /\ Snake[VariantOf(p, o, k)] = n
  BY ListedByItsBlock
<1>2. Snake[VariantOf(p, q, l)] = n
  BY ListedByItsBlock
<1> QED
  BY <1>1, <1>2, ConstructorIsUnique

\* A message whose name its block lists is claimed by the block.
LEMMA ClaimedByItsBlock ==
  ASSUME NEW p \in Programs, ~ Overlap(p), NEW ty \in EnumTypes,
         NEW o \in Owners(p), NEW n \in Messages(p, o, ty)
  PROVE  o \in Claimant(p, ty, n)
<1>1. \A q \in Owners(p) : n \in Messages(p, q, ty) => o = q
  BY ListIsUnique
<1>2. o \in Int
  BY OwnBlock DEF Owners
<1>3. \A q \in Owners(p) : n \in Messages(p, q, ty) => o <= q
  BY <1>1, <1>2
<1> QED
  BY <1>3 DEF Claimant

-----------------------------------------------------------------------------
(***************************************************************************)
(* Fields.                                                                 *)
(***************************************************************************)

\* A dispatch arm finds every argument that the constructor was given.
LEMMA FieldsComeBack ==
  ASSUME NEW p \in Programs, NEW o \in Owners(p), NEW k \in DOMAIN Items(p, o),
         NEW args \in ArgLists(Items(p, o)[k])
  PROVE  /\ HasFields(Items(p, o)[k], Fields(Items(p, o)[k], args))
         /\ Call(Items(p, o)[k], o, Fields(Items(p, o)[k], args))
              = [owner |-> o, fn |-> Items(p, o)[k].fn, args |-> args]
<1> DEFINE item == Items(p, o)[k]
           body == Fields(item, args)
<1>1. \A i, j \in DOMAIN item.args : item.args[i] = item.args[j] => i = j
  BY BlockIsWellFormed DEF WellFormedItems
<1>2. args \in [DOMAIN item.args -> Values]
  BY DEF ArgLists
<1>3. \A j \in DOMAIN item.args : item.args[j] \in DOMAIN body
  BY DEF Fields
<1>4. ASSUME NEW j \in DOMAIN item.args PROVE body[item.args[j]] = args[j]
  <2> DEFINE c == CHOOSE i \in DOMAIN item.args : item.args[i] = item.args[j]
  <2>1. c \in DOMAIN item.args /\ item.args[c] = item.args[j]
    OBVIOUS
  <2>2. c = j
    BY <1>1, <2>1
  <2>3. body[item.args[j]] = args[c]
    BY DEF Fields
  <2> QED
    BY <2>2, <2>3
<1>5. [j \in DOMAIN item.args |-> body[item.args[j]]] = args
  BY <1>2, <1>4
<1> QED
  BY <1>3, <1>5 DEF HasFields, Call

-----------------------------------------------------------------------------
(***************************************************************************)
(* The invariant.                                                          *)
(***************************************************************************)

\* Only a program that both the macros and the compiler accept gets messages.
Accepted ==
  /\ program \in Programs
  /\ stage \in {"stored", "live"} => ~ MacrosRefuse(program) /\ ~ CompilerRefuses(program, target)
  /\ pc # "idle" => stage \in {"stored", "live"}

\* What a generated client sends: the JSON of one method and its arguments.
ClientSent ==
  /\ call.owner \in Owners(program)
  /\ call.method \in Declared(Items(program, call.owner), call.ty)
  /\ call.args \in ArgLists(Called)
  /\ \/ /\ call.ty \in {"exec", "query"}
        /\ json = EnumJson(program, call.owner, call.method, call.args)
     \/ /\ call.ty \in {"instantiate", "migrate"}
        /\ call.owner = Own(program)
        /\ call.method = StructMethod(program.own.items, call.ty)
        /\ json = StructJson(Called, call.args)
  /\ call.by = "proxy" => target = "test"

\* A message that was read is that of the client, or else that of a method
\* whose block claims the name in it.
ReadRight ==
  /\ pc \in {"idle", "sent"} => read = NoRead
  /\ pc \in {"read", "handled"} => read.owner \in Owners(program)
  /\ pc = "read" /\ FromClient =>
       /\ read.owner = call.owner
       /\ read.method = call.method
       /\ read.body = Fields(Called, call.args)
  /\ read # NoRead /\ call.ty \in EnumTypes =>
       \E n \in Sole(json) :
         /\ read.owner \in Claimant(program, call.ty, n)
         /\ read.method \in Decoded(program, read.owner, call.ty, n, json.entries[n])

\* One method runs for a message that was read, and later those for the replies.
RanRight ==
  /\ \E S : ran \in Seq(S)
  /\ pc \in {"idle", "sent", "read"} => ran = <<>>
  /\ pc = "handled" => Len(ran) = 1
  /\ pc = "running" /\ read # NoRead => ran # <<>>
  /\ CallsReachTheirMethod

CallInv == Accepted /\ (FromClient => ClientSent) /\ ReadRight /\ RanRight

LEMMA CallInvInit == Init => CallInv
<1> SUFFICES ASSUME Init PROVE CallInv
  OBVIOUS
<1>1. ~ FromClient
  BY DEF Init, NoCall, FromClient
<1>2. <<>> \in Seq({})
  OBVIOUS
<1> QED
  BY <1>1, <1>2 DEF Init, CallInv, Accepted, ReadRight, RanRight, CallsReachTheirMethod

\* What a message of an enum looks like on the wire.
LEMMA EnumOnTheWire ==
  ASSUME NEW p, NEW o, NEW k, NEW args
  PROVE  LET wire == EnumJson(p, o, k, args)
             n    == Wire[VariantOf(p, o, k)]
         IN  Sole(wire) = {n} /\ wire.entries[n] = Fields(Items(p, o)[k], args)
<1> DEFINE n == Wire[VariantOf(p, o, k)]
           fields == Fields(Items(p, o)[k], args)
<1>1. EnumJson(p, o, k, args) = [map |-> TRUE, entries |-> [x \in {n} |-> fields]]
  BY DEF EnumJson
<1> HIDE DEF n, fields
<1>2. [x \in {n} |-> fields][n] = fields /\ DOMAIN [x \in {n} |-> fields] = {n}
  OBVIOUS
<1>3. Sole(EnumJson(p, o, k, args)) = {n}
  BY <1>1, <1>2 DEF Sole
<1>4. EnumJson(p, o, k, args).entries[n] = fields
  BY <1>1, <1>2
<1> QED
  BY <1>3, <1>4 DEF n, fields

\* A message of a client is read as what it is, if at all: no other method has
\* its name.  And it is read if its block lists the name.
LEMMA EnumIsRead ==
  ASSUME NEW p \in Programs, ~ Overlap(p), ~ Ambiguous(p), NEW ty \in EnumTypes,
         NEW o \in Owners(p), NEW k \in Declared(Items(p, o), ty),
         NEW args \in ArgLists(Items(p, o)[k]), NEW j, j = EnumJson(p, o, k, args)
  PROVE  /\ \A n \in Sole(j) : \A q \in Claimant(p, ty, n) :
              \A l \in Decoded(p, q, ty, n, j.entries[n]) :
                q = o /\ l = k /\ j.entries[n] = Fields(Items(p, o)[k], args)
         /\ Wire[VariantOf(p, o, k)] \in Messages(p, o, ty) => Understood(p, ty, j)
<1> DEFINE w == Wire[VariantOf(p, o, k)]
           body == Fields(Items(p, o)[k], args)
<1>1. Sole(j) = {w} /\ j.entries[w] = body
  BY EnumOnTheWire
<1> HIDE DEF w, body
<1>2. ASSUME NEW n \in Sole(j), NEW q \in Claimant(p, ty, n),
             NEW l \in Decoded(p, q, ty, n, j.entries[n])
      PROVE  q = o /\ l = k /\ j.entries[n] = body
  <2>1. n = w /\ j.entries[n] = body
    BY <1>1
  <2>2. /\ q \in Owners(p) /\ n \in Messages(p, q, ty)
        /\ l \in Declared(Items(p, q), ty) /\ Wire[VariantOf(p, q, l)] = n
    BY DEF Claimant, Decoded
  <2>3. Wire[VariantOf(p, o, k)] = n
    BY <2>1 DEF w
  <2> QED
    BY <2>1, <2>2, <2>3, NameIsOfOne
<1>3. ASSUME w \in Messages(p, o, ty) PROVE Understood(p, ty, j)
  <2>1. o \in Claimant(p, ty, w)
    BY <1>3, ClaimedByItsBlock
  <2>2. HasFields(Items(p, o)[k], body)
    BY FieldsComeBack DEF body, Declared
  <2>3. k \in Decoded(p, o, ty, w, j.entries[w])
    BY <1>1, <2>2 DEF Decoded, w
  <2>4. \E n \in Sole(j) : \E q \in Claimant(p, ty, n) : Decoded(p, q, ty, n, j.entries[n]) # {}
    BY <1>1, <2>1, <2>3
  <2>5. ty \in {"exec", "query"}
    BY DEF EnumTypes
  <2> QED
    BY <2>4, <2>5 DEF Understood
<1> QED
  BY <1>2, <1>3 DEF w, body

LEMMA ClientIsRead ==
  ASSUME CallInv, FromClient, pc = "sent"
  PROVE  /\ Listed => Understood(program, call.ty, json)
         /\ call.ty \in EnumTypes =>
              \A n \in Sole(json) : \A o \in Claimant(program, call.ty, n) :
                \A k \in Decoded(program, o, call.ty, n, json.entries[n]) :
                  o = call.owner /\ k = call.method /\ json.entries[n] = Fields(Called, call.args)
         /\ call.ty \in {"instantiate", "migrate"} => json.entries = Fields(Called, call.args)
<1>1. program \in Programs /\ ClientSent /\ ~ Overlap(program) /\ ~ Ambiguous(program)
  BY DEF CallInv, Accepted, CompilerRefuses
<1>2. /\ call.owner \in Owners(program)
      /\ call.method \in Declared(Items(program, call.owner), call.ty)
      /\ call.method \in DOMAIN Items(program, call.owner)
      /\ call.args \in ArgLists(Items(program, call.owner)[call.method])
  BY <1>1 DEF ClientSent, Declared, Called
<1>3. PICK p, ty, o, k, args, j :
        p = program /\ ty = call.ty /\ o = call.owner /\ k = call.method /\ args = call.args /\ j = json
  OBVIOUS
<1>4. CASE call.ty \in EnumTypes
  <2>1. json = EnumJson(program, call.owner, call.method, call.args)
    BY <1>1, <1>4 DEF ClientSent, EnumTypes
  <2>2. /\ p \in Programs /\ ~ Overlap(p) /\ ~ Ambiguous(p) /\ ty \in EnumTypes
        /\ o \in Owners(p) /\ k \in Declared(Items(p, o), ty)
        /\ args \in ArgLists(Items(p, o)[k]) /\ j = EnumJson(p, o, k, args)
    BY <1>1, <1>2, <1>3, <1>4, <2>1, Zenon
  <2>3. /\ \A n \in Sole(j) : \A q \in Claimant(p, ty, n) :
             \A l \in Decoded(p, q, ty, n, j.entries[n]) :
               q = o /\ l = k /\ j.entries[n] = Fields(Items(p, o)[k], args)
        /\ Wire[VariantOf(p, o, k)] \in Messages(p, o, ty) => Understood(p, ty, j)
    BY <2>2, EnumIsRead
  <2>4. Listed => Understood(program, call.ty, json)
    BY <1>3, <1>4, <2>3, Zenon DEF Listed, EnumTypes
  <2>5. \A n \in Sole(json) : \A q \in Claimant(program, call.ty, n) :
          \A l \in Decoded(program, q, call.ty, n, json.entries[n]) :
            q = call.owner /\ l = call.method /\ json.entries[n] = Fields(Called, call.args)
    BY <1>3, <2>3, Zenon DEF Called
  <2> QED
    BY <1>4, <2>4, <2>5 DEF EnumTypes
<1>5. CASE call.ty \notin EnumTypes
  <2>1. /\ call.owner = Own(program)
        /\ call.method = StructMethod(program.own.items, call.ty)
        /\ json = StructJson(Called, call.args)
    BY <1>1, <1>5 DEF ClientSent, EnumTypes
  <2>2. Called = program.own.items[StructMethod(program.own.items, call.ty)]
    BY <1>1, <2>1, OwnBlock DEF Called
  <2>3. json.map /\ json.entries = Fields(Called, call.args)
    BY <2>1 DEF StructJson
  <2>4. HasFields(Called, Fields(Called, call.args))
    BY <1>1, <1>2, FieldsComeBack DEF Called
  <2>5. Understood(program, call.ty, json)
    BY <1>5, <2>2, <2>3, <2>4 DEF Understood, EnumTypes
  <2> QED
    BY <1>5, <2>3, <2>5
<1> QED
  BY <1>4, <1>5

-----------------------------------------------------------------------------
(***************************************************************************)
(* The steps.                                                              *)
(***************************************************************************)

LEMMA SendKeeps ==
  ASSUME CallInv, NEW c, NEW j, Send(c, j)
  PROVE  /\ Accepted' /\ ReadRight' /\ RanRight'
         /\ call' = c /\ json' = j /\ program' = program /\ target' = target
<1>1. /\ pc = "idle" /\ stage \in {"stored", "live"} /\ pc' = "sent"
      /\ call' = c /\ json' = j
      /\ UNCHANGED <<program, target, stage, read, ran>>
  BY DEF Send, Ready
<1>2. Accepted'
  BY <1>1 DEF CallInv, Accepted
<1>3. read' = NoRead /\ ran' = <<>>
  BY <1>1 DEF CallInv, ReadRight, RanRight
<1>4. ReadRight' /\ RanRight'
  BY <1>1, <1>3 DEF ReadRight, RanRight, CallsReachTheirMethod
<1> QED
  BY <1>1, <1>2, <1>4

LEMMA ProxyStep ==
  ASSUME CallInv, ProxyCall
  PROVE  CallInv'
<1>1. PICK x \in Proxies(program) :
        \E k \in {k \in Declared(Items(program, x.owner), x.ty) : Items(program, x.owner)[k].fn = x.fn},
           b \in Built(program, x.owner, x.ty, x.fn) :
          \E args \in ArgLists(Items(program, x.owner)[k]) :
            /\ target = "test"
            /\ Send([by |-> "proxy", ty |-> x.ty, owner |-> x.owner, method |-> k, args |-> args],
                    EnumJson(program, x.owner, b, args))
  BY DEF ProxyCall
<1>2. PICK k \in Declared(Items(program, x.owner), x.ty), b \in Built(program, x.owner, x.ty, x.fn) :
        /\ Items(program, x.owner)[k].fn = x.fn
        /\ \E args \in ArgLists(Items(program, x.owner)[k]) :
            /\ target = "test"
            /\ Send([by |-> "proxy", ty |-> x.ty, owner |-> x.owner, method |-> k, args |-> args],
                    EnumJson(program, x.owner, b, args))
  BY <1>1
<1>3. PICK args \in ArgLists(Items(program, x.owner)[k]) :
        /\ target = "test"
        /\ Send([by |-> "proxy", ty |-> x.ty, owner |-> x.owner, method |-> k, args |-> args],
                EnumJson(program, x.owner, b, args))
  BY <1>2
<1> DEFINE c == [by |-> "proxy", ty |-> x.ty, owner |-> x.owner, method |-> k, args |-> args]
<1>4. program \in Programs /\ ~ Ambiguous(program)
  <2>1. stage \in {"stored", "live"}
    BY <1>3 DEF Send, Ready
  <2> QED
    BY <2>1 DEF CallInv, Accepted, CompilerRefuses
<1>5. x.owner \in Owners(program) /\ x.ty \in EnumTypes
  <2>1. CASE x \in OwnProxies(program)
    BY <1>4, <2>1, OwnBlock DEF OwnProxies, Declared, EnumTypes
  <2>2. CASE x \in UNION {TraitProxies(program, t) : t \in DOMAIN program.impls}
    <3>1. PICK t \in DOMAIN program.impls : x \in TraitProxies(program, t)
      BY <2>2
    <3>2. x.owner = t /\ x.ty \in EnumTypes
      BY <3>1 DEF TraitProxies, EnumTypes
    <3> QED
      BY <1>4, <3>2, TraitIsOwner
  <2> QED
    BY <1>1, <2>1, <2>2 DEF Proxies
<1>6. b = k
  <2> DEFINE q == x.owner
             ty == x.ty
  <2>1. q \in Owners(program) /\ ty \in EnumTypes
    BY <1>5
  <2>2. k \in Declared(Items(program, q), ty) /\ b \in Built(program, q, ty, Items(program, q)[k].fn)
    BY <1>2
  <2> HIDE DEF q, ty
  <2> QED
    BY <1>4, <2>1, <2>2, BuiltByName
<1>7. /\ Accepted' /\ ReadRight' /\ RanRight' /\ call' = c
      /\ json' = EnumJson(program, x.owner, k, args)
      /\ program' = program /\ target' = "test"
  BY <1>3, <1>6, SendKeeps
<1>8. ClientSent'
  BY <1>2, <1>5, <1>7 DEF ClientSent, Called, EnumTypes
<1> QED
  BY <1>7, <1>8 DEF CallInv

LEMMA MessageStep ==
  ASSUME CallInv, MessageCall
  PROVE  CallInv'
<1>1. PICK o \in Owners(program), ty \in {"exec", "query"} :
        \E k \in Declared(Items(program, o), ty) :
          \E b \in Built(program, o, ty, Snake[VariantOf(program, o, k)]),
             args \in ArgLists(Items(program, o)[k]) :
            Send([by |-> "message", ty |-> ty, owner |-> o, method |-> k, args |-> args],
                 EnumJson(program, o, b, args))
  BY DEF MessageCall
<1>2. PICK k \in Declared(Items(program, o), ty) :
        \E b \in Built(program, o, ty, Snake[VariantOf(program, o, k)]),
           args \in ArgLists(Items(program, o)[k]) :
          Send([by |-> "message", ty |-> ty, owner |-> o, method |-> k, args |-> args],
               EnumJson(program, o, b, args))
  BY <1>1
<1>3. PICK b \in Built(program, o, ty, Snake[VariantOf(program, o, k)]),
           args \in ArgLists(Items(program, o)[k]) :
        Send([by |-> "message", ty |-> ty, owner |-> o, method |-> k, args |-> args],
             EnumJson(program, o, b, args))
  BY <1>2
<1>4. program \in Programs /\ ~ Ambiguous(program)
  <2>1. stage \in {"stored", "live"}
    BY <1>3 DEF Send, Ready
  <2> QED
    BY <2>1 DEF CallInv, Accepted, CompilerRefuses
<1>5. ty \in EnumTypes
  BY DEF EnumTypes
<1>6. b = k
  BY <1>4, <1>5, ConstructorIsUnique DEF Built
<1>7. /\ Accepted' /\ ReadRight' /\ RanRight'
      /\ call' = [by |-> "message", ty |-> ty, owner |-> o, method |-> k, args |-> args]
      /\ json' = EnumJson(program, o, k, args)
      /\ program' = program
  BY <1>3, <1>6, SendKeeps
<1>8. ClientSent'
  BY <1>7 DEF ClientSent, Called
<1> QED
  BY <1>7, <1>8 DEF CallInv

LEMMA StructStep ==
  ASSUME CallInv, StructCall
  PROVE  CallInv'
<1>1. PICK ty \in {"instantiate", "migrate"} :
        \E k \in Declared(program.own.items, ty) : \E args \in ArgLists(program.own.items[k]) :
          /\ k = StructMethod(program.own.items, ty)
          /\ Send([by |-> IF target = "test" THEN "proxy" ELSE "message",
                   ty |-> ty, owner |-> Own(program), method |-> k, args |-> args],
                  StructJson(program.own.items[k], args))
  BY DEF StructCall
<1>2. PICK k \in Declared(program.own.items, ty) : \E args \in ArgLists(program.own.items[k]) :
        /\ k = StructMethod(program.own.items, ty)
        /\ Send([by |-> IF target = "test" THEN "proxy" ELSE "message",
                 ty |-> ty, owner |-> Own(program), method |-> k, args |-> args],
                StructJson(program.own.items[k], args))
  BY <1>1
<1>3. PICK args \in ArgLists(program.own.items[k]) :
        /\ k = StructMethod(program.own.items, ty)
        /\ Send([by |-> IF target = "test" THEN "proxy" ELSE "message",
                 ty |-> ty, owner |-> Own(program), method |-> k, args |-> args],
                StructJson(program.own.items[k], args))
  BY <1>2
<1> DEFINE c == [by |-> IF target = "test" THEN "proxy" ELSE "message",
                 ty |-> ty, owner |-> Own(program), method |-> k, args |-> args]
<1>4. Own(program) \in Owners(program) /\ Items(program, Own(program)) = program.own.items
  BY OwnBlock DEF CallInv, Accepted
<1>5. /\ Accepted' /\ ReadRight' /\ RanRight' /\ call' = c
      /\ json' = StructJson(program.own.items[k], args)
      /\ program' = program /\ target' = target
  BY <1>3, SendKeeps
<1>6. Called' = program.own.items[k]
  BY <1>4, <1>5 DEF Called
<1>7. ClientSent'
  <2>1. /\ call'.owner = Own(program) /\ call'.method = k /\ call'.ty = ty /\ call'.args = args
        /\ call'.by = "proxy" => target = "test"
    BY <1>5
  <2> QED
    BY <1>3, <1>4, <1>5, <1>6, <2>1 DEF ClientSent
<1> QED
  BY <1>5, <1>7 DEF CallInv

LEMMA RawStep ==
  ASSUME CallInv, RawMessage
  PROVE  CallInv'
<1>1. PICK r \in RawJson : Send([NoCall EXCEPT !.by = "raw", !.ty = r.ty], r.json)
  BY DEF RawMessage
<1> DEFINE c == [NoCall EXCEPT !.by = "raw", !.ty = r.ty]
<1>2. c.by = "raw"
  BY DEF NoCall
<1> HIDE DEF c
<1>3. Accepted' /\ ReadRight' /\ RanRight' /\ call' = c
  BY <1>1, SendKeeps DEF c
<1> QED
  BY <1>2, <1>3 DEF CallInv, FromClient

\* The call, its JSON and the program stay what they are.
SameCall == UNCHANGED <<program, target, call, json>>

LEMMA ClientSentStays ==
  ASSUME FromClient => ClientSent, SameCall
  PROVE  (FromClient => ClientSent)'
BY DEF SameCall, FromClient, ClientSent, Called

LEMMA ReadGlueStep ==
  ASSUME CallInv, ReadGlue
  PROVE  CallInv'
<1>1. /\ pc = "sent" /\ pc' = "read" /\ call.ty \in EnumTypes
      /\ SameCall /\ UNCHANGED <<stage, ran>>
  BY DEF ReadGlue, AnsweredBy, SameCall, EnumTypes
<1>2. PICK n \in Sole(json) :
        \E o \in Claimant(program, call.ty, n) :
          \E k \in Decoded(program, o, call.ty, n, json.entries[n]) :
            read' = [owner |-> o, method |-> k, body |-> json.entries[n]]
  BY DEF ReadGlue
<1>3. PICK o \in Claimant(program, call.ty, n) :
        \E k \in Decoded(program, o, call.ty, n, json.entries[n]) :
          read' = [owner |-> o, method |-> k, body |-> json.entries[n]]
  BY <1>2
<1>4. PICK k \in Decoded(program, o, call.ty, n, json.entries[n]) :
        read' = [owner |-> o, method |-> k, body |-> json.entries[n]]
  BY <1>3
<1>5. FromClient =>
        o = call.owner /\ k = call.method /\ json.entries[n] = Fields(Called, call.args)
  BY <1>1, ClientIsRead
<1>6. read'.owner = o /\ read'.method = k /\ read'.body = json.entries[n]
  BY <1>4
<1>7. ReadRight'
  <2>1. FromClient' = FromClient /\ Called' = Called
    BY <1>1 DEF SameCall, FromClient, Called
  <2>2. (pc = "read" /\ FromClient =>
           read.owner = call.owner /\ read.method = call.method /\ read.body = Fields(Called, call.args))'
    BY <1>1, <1>5, <1>6, <2>1 DEF SameCall
  <2>3. (read # NoRead /\ call.ty \in EnumTypes =>
          \E m \in Sole(json) :
            /\ read.owner \in Claimant(program, call.ty, m)
            /\ read.method \in Decoded(program, read.owner, call.ty, m, json.entries[m]))'
    <3>1. /\ read'.owner \in Claimant(program, call.ty, n)
          /\ read'.method \in Decoded(program, read'.owner, call.ty, n, json.entries[n])
      BY <1>4, <1>6
    <3> QED
      BY <1>1, <3>1 DEF SameCall
  <2>4. read'.owner \in Owners(program)
    BY <1>6 DEF Claimant
  <2> QED
    BY <1>1, <2>2, <2>3, <2>4 DEF ReadRight, SameCall
<1>8. Accepted'
  BY <1>1 DEF CallInv, Accepted, SameCall
<1>9. RanRight'
  BY <1>1 DEF CallInv, RanRight, CallsReachTheirMethod
<1>10. (FromClient => ClientSent)'
  BY <1>1, ClientSentStays DEF CallInv
<1> QED
  BY <1>7, <1>8, <1>9, <1>10 DEF CallInv

LEMMA ReadStructStep ==
  ASSUME CallInv, ReadStruct
  PROVE  CallInv'
<1>1. /\ pc = "sent" /\ pc' = "read" /\ call.ty \in {"instantiate", "migrate"}
      /\ SameCall /\ UNCHANGED <<stage, ran>>
      /\ read'.owner = Own(program) /\ read'.method = StructMethod(program.own.items, call.ty)
      /\ read'.body = json.entries
  BY DEF ReadStruct, AnsweredBy, SameCall
<1>2. FromClient =>
        /\ call.owner = Own(program) /\ call.method = StructMethod(program.own.items, call.ty)
        /\ json.entries = Fields(Called, call.args)
  BY <1>1, ClientIsRead DEF CallInv, ClientSent
<1>3. ReadRight'
  <2>1. FromClient' = FromClient /\ Called' = Called /\ call' = call
    BY <1>1 DEF SameCall, FromClient, Called
  <2>2. Own(program) \in Owners(program)
    BY OwnBlock DEF CallInv, Accepted
  <2> QED
    BY <1>1, <1>2, <2>1, <2>2 DEF ReadRight, EnumTypes, SameCall
<1>4. Accepted'
  BY <1>1 DEF CallInv, Accepted, SameCall
<1>5. RanRight'
  BY <1>1 DEF CallInv, RanRight, CallsReachTheirMethod
<1>6. (FromClient => ClientSent)'
  BY <1>1, ClientSentStays DEF CallInv
<1> QED
  BY <1>3, <1>4, <1>5, <1>6 DEF CallInv

\* A step of the handling that runs no method.
LEMMA QuietStep ==
  ASSUME CallInv, SameCall, UNCHANGED <<stage, read, ran>>,
         \/ pc \in {"sent", "handled", "running"} /\ pc' = "answered"
         \/ pc \in {"sent", "handled", "running"} /\ pc' = "running"
  PROVE  CallInv'
<1>1. Accepted'
  BY DEF CallInv, Accepted, SameCall
<1>2. ReadRight'
  <2>1. FromClient' = FromClient /\ Called' = Called
    BY DEF SameCall, FromClient, Called
  <2> QED
    BY <2>1 DEF CallInv, ReadRight, SameCall
<1>3. RanRight'
  <2>1. CallsReachTheirMethod'
    BY DEF CallInv, RanRight, CallsReachTheirMethod, SameCall, FromClient, Called
  <2>2. pc' = "running" /\ read # NoRead => ran # <<>>
    <3>1. pc = "sent" => read = NoRead
      BY DEF CallInv, ReadRight
    <3>2. pc = "handled" => ran # <<>>
      <4>1. Len(<<>>) = 0
        OBVIOUS
      <4>2. pc = "handled" => Len(ran) = 1
        BY DEF CallInv, RanRight
      <4> QED
        BY <4>1, <4>2
    <3> QED
      BY <3>1, <3>2 DEF CallInv, RanRight
  <2> QED
    BY <2>1, <2>2 DEF CallInv, RanRight
<1>4. (FromClient => ClientSent)'
  BY ClientSentStays DEF CallInv
<1> QED
  BY <1>1, <1>2, <1>3, <1>4 DEF CallInv

LEMMA DispatchStep ==
  ASSUME CallInv, Dispatch
  PROVE  CallInv'
<1> DEFINE made == Call(Items(program, read.owner)[read.method], read.owner, read.body)
<1>1. /\ pc = "read" /\ pc' \in {"handled", "answered"}
      /\ ran' = Append(ran, made)
      /\ SameCall /\ UNCHANGED <<stage, read>>
  BY DEF Dispatch, Run, Fail, SameCall
<1>2. ran = <<>>
  BY <1>1 DEF CallInv, RanRight
<1> HIDE DEF made
<1>3. ran' = <<made>>
  BY <1>1, <1>2
<1>4. FromClient => made = [owner |-> call.owner, fn |-> Called.fn, args |-> call.args]
  <2> SUFFICES ASSUME FromClient
               PROVE  made = [owner |-> call.owner, fn |-> Called.fn, args |-> call.args]
    OBVIOUS
  <2>1. /\ read.owner = call.owner /\ read.method = call.method
        /\ read.body = Fields(Called, call.args)
    BY <1>1 DEF CallInv, ReadRight
  <2>2. /\ program \in Programs /\ call.owner \in Owners(program)
        /\ call.method \in DOMAIN Items(program, call.owner)
        /\ call.args \in ArgLists(Called)
    BY DEF CallInv, Accepted, ClientSent, Declared
  <2>3. PICK p, o, k, args : p = program /\ o = call.owner /\ k = call.method /\ args = call.args
    OBVIOUS
  <2>4. /\ p \in Programs /\ o \in Owners(p) /\ k \in DOMAIN Items(p, o)
        /\ args \in ArgLists(Items(p, o)[k])
    BY <2>2, <2>3, Zenon DEF Called
  <2>5. Call(Items(p, o)[k], o, Fields(Items(p, o)[k], args))
          = [owner |-> o, fn |-> Items(p, o)[k].fn, args |-> args]
    BY <2>4, FieldsComeBack
  <2> QED
    BY <2>1, <2>3, <2>5, Zenon DEF made, Called
<1>5. RanRight'
  <2>1. FromClient' = FromClient /\ Called' = Called /\ call' = call
    BY <1>1 DEF SameCall, FromClient, Called
  <2>2. ran'[1] = made /\ Len(ran') = 1
    BY <1>3
  <2>3. CallsReachTheirMethod'
    BY <1>4, <2>1, <2>2 DEF CallsReachTheirMethod
  <2>4. \E S : ran' \in Seq(S)
    <3>1. <<made>> \in Seq({made})
      OBVIOUS
    <3> QED
      BY <1>3, <3>1
  <2> QED
    BY <1>1, <2>2, <2>3, <2>4 DEF RanRight
<1>6. Accepted'
  BY <1>1 DEF CallInv, Accepted, SameCall
<1>7. ReadRight'
  <2>1. FromClient' = FromClient /\ Called' = Called
    BY <1>1 DEF SameCall, FromClient, Called
  <2> QED
    BY <1>1, <2>1 DEF CallInv, ReadRight, SameCall
<1>8. (FromClient => ClientSent)'
  BY <1>1, ClientSentStays DEF CallInv
<1> QED
  BY <1>5, <1>6, <1>7, <1>8 DEF CallInv

\* A sequence that grows keeps its beginning.
LEMMA AppendKeeps ==
  ASSUME NEW s, \E S : s \in Seq(S), NEW x
  PROVE  /\ \E S : Append(s, x) \in Seq(S)
         /\ Len(s) \in Nat
         /\ Len(Append(s, x)) = Len(s) + 1
         /\ Append(s, x)[Len(s) + 1] = x
         /\ \A i \in 1 .. Len(s) : Append(s, x)[i] = s[i]
<1>1. PICK S : s \in Seq(S)
  OBVIOUS
<1>2. s \in Seq(S \cup {x}) /\ x \in S \cup {x}
  BY <1>1
<1>3. Append(s, x) \in Seq(S \cup {x})
  BY <1>2
<1> QED
  BY <1>2, <1>3

\* A reply runs another method, after those that have run, or none.
LEMMA ReplyStep ==
  ASSUME CallInv, Reply
  PROVE  CallInv'
<1>1. /\ pc = "running" /\ pc' \in {"running", "answered"}
      /\ SameCall /\ UNCHANGED <<stage, read>>
      /\ ran' = ran \/ \E x : ran' = Append(ran, x)
  BY DEF Reply, Runs, GoOn, Give, Fail, SameCall
<1>2. CASE ran' = ran
  BY <1>1, <1>2, QuietStep
<1>3. CASE \E x : ran' = Append(ran, x)
  <2>1. PICK x : ran' = Append(ran, x)
    BY <1>3
  <2>2. \E S : ran \in Seq(S)
    BY DEF CallInv, RanRight
  <2>3. /\ \E S : ran' \in Seq(S)
        /\ Len(ran) \in Nat /\ Len(ran') = Len(ran) + 1
        /\ \A i \in 1 .. Len(ran) : ran'[i] = ran[i]
    <3>1. PICK s : s = ran
      OBVIOUS
    <3>2. \E S : s \in Seq(S)
      BY <2>2, <3>1, Zenon
    <3>3. PICK S : s \in Seq(S)
      BY <3>2, Zenon
    <3>4. s \in Seq(S \cup {x}) /\ x \in S \cup {x}
      BY <3>3
    <3>5. /\ Append(s, x) \in Seq(S \cup {x})
          /\ Len(s) \in Nat /\ Len(Append(s, x)) = Len(s) + 1
          /\ \A i \in 1 .. Len(s) : Append(s, x)[i] = s[i]
      BY <3>4
    <3>6. s = ran /\ Append(s, x) = ran'
      BY <2>1, <3>1, Zenon
    <3>7. \E T : ran' \in Seq(T)
      BY <3>5, <3>6, Zenon
    <3>8. Len(ran) \in Nat /\ Len(ran') = Len(ran) + 1
      BY <3>5, <3>6, Zenon
    <3>9. \A i \in 1 .. Len(ran) : ran'[i] = ran[i]
      BY <3>5, <3>6, Zenon
    <3> QED
      BY <3>7, <3>8, <3>9, Zenon
  <2>4. ran' # <<>>
    <3>1. Len(<<>>) = 0
      OBVIOUS
    <3> QED
      BY <2>3, <3>1
  <2>5. ran # <<>> => ran'[1] = ran[1]
    <3>1. ran # <<>> => Len(ran) # 0
      BY <2>2
    <3> QED
      BY <2>3, <3>1
  <2>6. CallsReachTheirMethod'
    <3>1. FromClient' = FromClient /\ Called' = Called /\ call' = call /\ read' = read
      BY <1>1 DEF SameCall, FromClient, Called
    <3>2. read # NoRead => ran # <<>>
      BY <1>1 DEF CallInv, RanRight
    <3> QED
      BY <2>5, <3>1, <3>2 DEF CallInv, RanRight, CallsReachTheirMethod
  <2>7. RanRight'
    BY <1>1, <2>3, <2>4, <2>6 DEF RanRight
  <2>8. Accepted'
    BY <1>1 DEF CallInv, Accepted, SameCall
  <2>9. ReadRight'
    BY <1>1 DEF CallInv, ReadRight, SameCall
  <2>10. (FromClient => ClientSent)'
    BY <1>1, ClientSentStays DEF CallInv
  <2> QED
    BY <2>7, <2>8, <2>9, <2>10 DEF CallInv
<1> QED
  BY <1>1, <1>2, <1>3

LEMMA FinishStep ==
  ASSUME CallInv, Finish
  PROVE  CallInv'
<1>1. /\ pc = "answered" /\ pc' = "idle" /\ read' = NoRead /\ ran' = <<>>
      /\ stage' \in {stage, "live"} /\ call'.by = "nobody"
      /\ UNCHANGED <<program, target>>
  BY DEF Finish, NoCall
<1>2. Accepted'
  BY <1>1 DEF CallInv, Accepted
<1>3. ReadRight' /\ RanRight' /\ ~ FromClient'
  BY <1>1 DEF ReadRight, RanRight, CallsReachTheirMethod, FromClient
<1> QED
  BY <1>2, <1>3 DEF CallInv

LEMMA ExpandStep ==
  ASSUME CallInv, Expand
  PROVE  CallInv'
<1>1. /\ stage = "source" /\ SameCall /\ UNCHANGED <<pc, read, ran>>
      /\ stage' = IF MacrosRefuse(program) \/ CompilerRefuses(program, target)
                  THEN "rejected" ELSE "stored"
  BY DEF Expand, SameCall
<1>2. pc = "idle"
  BY <1>1 DEF CallInv, Accepted
<1>3. Accepted'
  BY <1>1, <1>2 DEF CallInv, Accepted, SameCall
<1>4. ReadRight'
  BY <1>1, <1>2 DEF CallInv, ReadRight, SameCall
<1>5. RanRight'
  BY <1>1, <1>2 DEF CallInv, RanRight, CallsReachTheirMethod
<1>6. (FromClient => ClientSent)'
  BY <1>1, ClientSentStays DEF CallInv
<1> QED
  BY <1>3, <1>4, <1>5, <1>6 DEF CallInv

LEMMA CallInvStep ==
  ASSUME CallInv, [Next]_vars
  PROVE  CallInv'
<1>1. CASE ProxyCall \/ MessageCall \/ StructCall \/ RawMessage
  BY <1>1, ProxyStep, MessageStep, StructStep, RawStep
<1>2. CASE ReadGlue \/ ReadStruct \/ Dispatch \/ Reply
  BY <1>2, ReadGlueStep, ReadStructStep, DispatchStep, ReplyStep
<1>3. CASE Refused \/ Misread \/ UserEntry \/ NoEntry
  <2>1. /\ pc = "sent" /\ pc' \in {"answered", "running"} /\ SameCall
        /\ UNCHANGED <<stage, read, ran>>
    BY <1>3 DEF Refused, Misread, UserEntry, NoEntry, Fail, AnsweredBy, SameCall
  <2> QED
    BY <2>1, QuietStep
<1>4. CASE Respond \/ RefuseCustom \/ SubSucceeds \/ SubFails \/ Settle
  <2>1. /\ pc \in {"handled", "running"} /\ pc' \in {"answered", "running"} /\ SameCall
        /\ UNCHANGED <<stage, read, ran>>
    BY <1>4 DEF Respond, RefuseCustom, SubSucceeds, SubFails, Settle, Runs, GoOn, Give, Fail, SameCall
  <2> QED
    BY <2>1, QuietStep
<1>5. CASE Expand \/ Finish
  BY <1>5, ExpandStep, FinishStep
<1>6. CASE UNCHANGED vars
  BY <1>6 DEF vars, CallInv, Accepted, ReadRight, RanRight, CallsReachTheirMethod,
              ClientSent, FromClient, Called
<1> QED
  BY <1>1, <1>2, <1>3, <1>4, <1>5, <1>6 DEF Next, Handle

LEMMA CallInvHolds == Spec => []CallInv
<1>1. Init => CallInv
  BY CallInvInit
<1>2. CallInv /\ [Next]_vars => CallInv'
  BY CallInvStep
<1> QED
  BY <1>1, <1>2, PTL DEF Spec

\* The method that runs for a message of a generated client is the one the
\* client is for, with the caller's arguments, whatever the methods are named.
THEOREM CallsArrive == Spec => []CallsReachTheirMethod
<1>1. CallInv => CallsReachTheirMethod
  BY DEF CallInv, RanRight
<1> QED
  BY <1>1, CallInvHolds, PTL

\* A contract understands every message of its generated clients whose name,
\* as serde writes it, is listed by the message's block.
THEOREM ClientsAreHeard == Spec => []ClientsAreUnderstood
<1>1. CallInv => ClientsAreUnderstood
  BY ClientIsRead DEF ClientsAreUnderstood, AnsweredBy
<1> QED
  BY <1>1, CallInvHolds, PTL

\* A name in JSON belongs to one method of a contract and its interfaces.
LEMMA ReadIsTheOnlyOne ==
  ASSUME CallInv
  PROVE  OneMethodPerName
<1> SUFFICES ASSUME pc # "sent", read # NoRead, call.ty \in {"exec", "query"}
             PROVE  \E n \in DOMAIN json.entries :
                      \A o \in Owners(program) : \A k \in Declared(Items(program, o), call.ty) :
                        Wire[VariantOf(program, o, k)] = n <=> o = read.owner /\ k = read.method
  BY DEF OneMethodPerName
<1>1. PICK n \in Sole(json) :
        /\ read.owner \in Claimant(program, call.ty, n)
        /\ read.method \in Decoded(program, read.owner, call.ty, n, json.entries[n])
  BY DEF CallInv, ReadRight, EnumTypes
<1>2. pc # "idle"
  BY DEF CallInv, ReadRight
<1>3. program \in Programs /\ ~ Overlap(program) /\ ~ Ambiguous(program)
  BY <1>2 DEF CallInv, Accepted, CompilerRefuses
<1>4. PICK p, ty, q, l : p = program /\ ty = call.ty /\ q = read.owner /\ l = read.method
  OBVIOUS
<1>5. /\ p \in Programs /\ ~ Overlap(p) /\ ~ Ambiguous(p) /\ ty \in EnumTypes
      /\ q \in Owners(p) /\ n \in Messages(p, q, ty)
      /\ l \in Declared(Items(p, q), ty) /\ Wire[VariantOf(p, q, l)] = n
  BY <1>1, <1>3, <1>4 DEF Claimant, Decoded, EnumTypes
<1>6. \A o \in Owners(p) : \A k \in Declared(Items(p, o), ty) :
        Wire[VariantOf(p, o, k)] = n <=> o = q /\ k = l
  BY <1>5, NameIsOfOne
<1>7. n \in DOMAIN json.entries
  BY <1>1 DEF Sole
<1>8. \A o \in Owners(program) : \A k \in Declared(Items(program, o), call.ty) :
        Wire[VariantOf(program, o, k)] = n <=> o = read.owner /\ k = read.method
  BY <1>4, <1>6, Zenon
<1> QED
  BY <1>7, <1>8, Zenon

\* Whoever writes the JSON, one method of a contract and its interfaces can
\* run for it.
THEOREM NamesAreUnique == Spec => []OneMethodPerName
<1>1. CallInv => OneMethodPerName
  BY ReadIsTheOnlyOne
<1> QED
  BY <1>1, CallInvHolds, PTL

-----------------------------------------------------------------------------
(***************************************************************************)
(* Submessages.                                                            *)
(***************************************************************************)

Results == [id : Nat, ok : BOOLEAN]

\* The replies that those of the submessages that ran call for.
DueReplies == {<<done[j]>> : j \in {j \in DOMAIN done : WantsReply(subs[j], done[j].ok)}}
Replied    == {ran[i].args : i \in 2 .. Len(ran)}

\* Those that ran and those that are left are the submessages of the method.
Underway ==
  /\ Len(subs) = Len(done) + Len(left)
  /\ \A j \in DOMAIN left :
       left[j].id = subs[Len(done) + j].id /\ left[j].reply = subs[Len(done) + j].reply
  /\ \A j \in DOMAIN done : done[j].id = subs[j].id
  /\ read # NoRead /\ Entry(program, target, "reply").by # "user" => Replied = DueReplies

SubInv ==
  /\ subs \in Seq(Submessages) /\ left \in Seq(Submessages) /\ done \in Seq(Results)
  /\ pc # "answered" => outcome = "none"
  /\ pc \in {"idle", "sent", "read", "handled"} => done = <<>>
  /\ outcome = "ok" => left = <<>>
  /\ pc = "running" \/ outcome = "ok" => Underway

\* A failure is not taken for a success.
LEMMA FailIsNotOk ==
  ASSUME CallInv, NEW error \in ForeignErrors \cup {program.error}, NEW culprit, Fail(error, culprit)
  PROVE  pc' = "answered" /\ outcome' # "ok"
<1>1. program.error \notin {"ok", "panic"}
  BY SylviaAssumption DEF CallInv, Accepted, WellFormed
<1> QED
  BY <1>1 DEF Fail, Seen, ForeignErrors

\* A response that was built anew carries the same submessages.
LEMMA ResponseIsKept ==
  ASSUME NEW s \in Seq(Submessages), Convertible(s)
  PROVE  /\ IntoResponse(s) \in Seq(Submessages)
         /\ Len(IntoResponse(s)) = Len(s)
         /\ \A j \in DOMAIN s : IntoResponse(s)[j].id = s[j].id /\ IntoResponse(s)[j].reply = s[j].reply
<1>1. Len(s) \in Nat /\ DOMAIN s = 1 .. Len(s) /\ \A j \in DOMAIN s : s[j] \in Submessages
  OBVIOUS
<1>2. \A j \in DOMAIN s : IntoMsg(s[j]) \in Submessages
  BY <1>1 DEF IntoMsg, Submessages
<1> DEFINE r == [j \in 1 .. Len(s) |-> IntoMsg(s[j])]
<1>3. IntoResponse(s) = r
  BY <1>1 DEF IntoResponse
<1>4. \A j \in 1 .. Len(s) : r[j] = IntoMsg(s[j])
  OBVIOUS
<1>5. r \in [1 .. Len(s) -> Submessages]
  BY <1>1, <1>2
<1> HIDE DEF r
<1>6. r \in Seq(Submessages) /\ Len(r) = Len(s)
  BY <1>1, <1>5
<1>7. \A j \in DOMAIN s : r[j].id = s[j].id /\ r[j].reply = s[j].reply
  <2>1. \A j \in DOMAIN s : IntoMsg(s[j]).id = s[j].id /\ IntoMsg(s[j]).reply = s[j].reply
    BY DEF IntoMsg
  <2>2. \A j \in DOMAIN s : r[j] = IntoMsg(s[j])
    BY <1>1, <1>4
  <2> QED
    BY <2>1, <2>2
<1> QED
  BY <1>3, <1>6, <1>7

\* What holds before any submessage has run.
LEMMA NoneHasRun ==
  ASSUME subs' \in Seq(Submessages), left' \in Seq(Submessages), done' = <<>>, Len(left') = Len(subs'),
         \A j \in DOMAIN subs' : left'[j].id = subs'[j].id /\ left'[j].reply = subs'[j].reply,
         read' # NoRead => Len(ran') = 1
  PROVE  Underway'
<1>1. Len(done') = 0 /\ DOMAIN done' = {}
  OBVIOUS
<1>2. DOMAIN left' = 1 .. Len(left') /\ DOMAIN subs' = 1 .. Len(subs') /\ Len(left') \in Nat
  OBVIOUS
<1>3. \A j \in DOMAIN left' :
        left'[j].id = subs'[Len(done') + j].id /\ left'[j].reply = subs'[Len(done') + j].reply
  BY <1>1, <1>2
<1>4. DueReplies' = {}
  BY <1>1 DEF DueReplies
<1>5. read' # NoRead => Replied' = {}
  <2>1. Len(ran') = 1 => 2 .. Len(ran') = {}
    OBVIOUS
  <2> QED
    BY <2>1 DEF Replied
<1> QED
  BY <1>1, <1>2, <1>3, <1>4, <1>5 DEF Underway

\* The log of results is one longer.
LEMMA ResultIsKept ==
  ASSUME SubInv, NEW ok \in BOOLEAN, NEW told, Runs(ok, told)
  PROVE  done' \in Seq(Results) /\ done'[Len(done')] = [id |-> Head(left).id, ok |-> ok]
<1> DEFINE d == [id |-> Head(left).id, ok |-> ok]
<1>1. left # <<>> /\ left \in Seq(Submessages) /\ done \in Seq(Results) /\ done' = Append(done, d)
  BY DEF SubInv, Runs
<1>2. Head(left) \in Submessages
  BY <1>1
<1>3. d \in Results
  BY <1>2 DEF Results, Submessages
<1> HIDE DEF d
<1>4. done' \in Seq(Results) /\ done'[Len(done')] = d
  BY <1>1, <1>3
<1> QED
  BY <1>4 DEF d

\* One more submessage has run.
LEMMA OneMoreHasRun ==
  ASSUME CallInv, SubInv, NEW ok \in BOOLEAN, NEW told, Runs(ok, told), GoOn,
         UNCHANGED <<read, subs>>,
         read # NoRead /\ Entry(program, target, "reply").by # "user" =>
           Replied' = IF told THEN Replied \cup {<<[id |-> Head(left).id, ok |-> ok]>>} ELSE Replied
  PROVE  Underway' /\ done' \in Seq(Results) /\ left' \in Seq(Submessages)
<1> DEFINE d == [id |-> Head(left).id, ok |-> ok]
           n == Len(done) + 1
<1>1. /\ Underway /\ left # <<>> /\ done' = Append(done, d) /\ left' = Tail(left)
      /\ told = WantsReply(Head(left), ok)
      /\ UNCHANGED <<program, target>>
  BY DEF Runs, GoOn, SubInv
<1>2. subs \in Seq(Submessages) /\ left \in Seq(Submessages) /\ done \in Seq(Results)
  BY DEF SubInv
<1>3. Head(left) = left[1] /\ 1 \in DOMAIN left /\ left[1] \in Submessages
  BY <1>1, <1>2
<1>4. d \in Results
  BY <1>3 DEF Results, Submessages
<1> HIDE DEF d
<1>5. /\ done' \in Seq(Results) /\ Len(done') = n /\ done'[n] = d /\ n \in Nat /\ n >= 1
      /\ \A j \in DOMAIN done : done'[j] = done[j]
      /\ DOMAIN done' = DOMAIN done \cup {n}
  BY <1>1, <1>2, <1>4
<1>6. /\ left' \in Seq(Submessages) /\ Len(left') = Len(left) - 1
      /\ \A j \in DOMAIN left' : left'[j] = left[j + 1] /\ j + 1 \in DOMAIN left
  BY <1>1, <1>2
<1>7. Len(subs) = Len(done') + Len(left')
  BY <1>1, <1>2, <1>5, <1>6 DEF Underway
<1>8. \A j \in DOMAIN left' :
        left'[j].id = subs[Len(done') + j].id /\ left'[j].reply = subs[Len(done') + j].reply
  <2> TAKE j \in DOMAIN left'
  <2>1. left'[j] = left[j + 1] /\ j + 1 \in DOMAIN left /\ j \in Nat
    BY <1>6
  <2>2. /\ left[j + 1].id = subs[Len(done) + (j + 1)].id
        /\ left[j + 1].reply = subs[Len(done) + (j + 1)].reply
    BY <1>1, <2>1 DEF Underway
  <2>3. Len(done) + (j + 1) = Len(done') + j
    BY <1>2, <1>5, <2>1
  <2> QED
    BY <2>1, <2>2, <2>3
<1>9. left[1].id = subs[n].id /\ left[1].reply = subs[n].reply
  BY <1>1, <1>3 DEF Underway
<1>10. \A j \in DOMAIN done' : done'[j].id = subs[j].id
  <2>1. d.id = subs[n].id
    BY <1>3, <1>9 DEF d
  <2> QED
    BY <1>1, <1>5, <2>1 DEF Underway
<1>11. DueReplies' = IF told THEN DueReplies \cup {<<d>>} ELSE DueReplies
  <2>1. WantsReply(subs[n], d.ok) = told
    BY <1>1, <1>3, <1>9 DEF WantsReply, d
  <2>2. n \notin DOMAIN done
    BY <1>2
  <2>3. \A j \in DOMAIN done : WantsReply(subs[j], done'[j].ok) = WantsReply(subs[j], done[j].ok)
    BY <1>5
  <2>4. DueReplies' = {<<done'[j]>> : j \in {j \in DOMAIN done' : WantsReply(subs[j], done'[j].ok)}}
    BY DEF DueReplies
  <2>5. DueReplies' = {<<done'[j]>> : j \in {j \in DOMAIN done : WantsReply(subs[j], done[j].ok)}}
                        \cup {<<done'[j]>> : j \in IF told THEN {n} ELSE {}}
    <3>1. {j \in DOMAIN done' : WantsReply(subs[j], done'[j].ok)} =
            {j \in DOMAIN done : WantsReply(subs[j], done[j].ok)} \cup (IF told THEN {n} ELSE {})
      BY <1>1, <1>5, <2>1, <2>3 DEF WantsReply
    <3> QED
      BY <2>4, <3>1
  <2> QED
    BY <1>1, <1>5, <2>5 DEF DueReplies, WantsReply
<1>12. read # NoRead /\ Entry(program, target, "reply").by # "user" => Replied' = DueReplies'
  BY <1>1, <1>11 DEF Underway, d
<1>13. read' = read /\ program' = program /\ target' = target /\ subs' = subs
  BY <1>1
<1> QED
  BY <1>5, <1>6, <1>7, <1>8, <1>10, <1>12, <1>13 DEF Underway

LEMMA SubInvStep ==
  ASSUME CallInv, SubInv, [Next]_vars
  PROVE  SubInv'
<1> USE DEF SubInv
<1>1. CASE Expand \/ ReadGlue \/ ReadStruct
  <2>1. pc \in {"idle", "sent"} /\ pc' \in {"idle", "read"} /\ UNCHANGED <<subs, left, done, outcome>>
    <3>1. CASE Expand
      <4>1. stage = "source" /\ UNCHANGED <<pc, subs, left, done, outcome>>
        BY <3>1 DEF Expand
      <4>2. pc = "idle"
        BY <4>1 DEF CallInv, Accepted
      <4> QED
        BY <4>1, <4>2
    <3>2. CASE ReadGlue \/ ReadStruct
      BY <3>2 DEF ReadGlue, ReadStruct, AnsweredBy
    <3> QED
      BY <1>1, <3>1, <3>2
  <2> QED
    BY <2>1
<1>2. CASE ProxyCall \/ MessageCall \/ StructCall \/ RawMessage
  <2>1. \E c, j : Send(c, j)
    BY <1>2 DEF ProxyCall, MessageCall, StructCall, RawMessage
  <2>2. pc = "idle" /\ pc' = "sent" /\ UNCHANGED <<subs, left, done, outcome>>
    BY <2>1 DEF Send, Ready
  <2> QED
    BY <2>2
<1>3. CASE Refused \/ Misread \/ NoEntry \/ RefuseCustom
  <2>1. PICK e, who : e \in ForeignErrors /\ Fail(e, who)
    <3>1. Fail("anyhow", "chain") \/ Fail("StdError", "reading") \/ Fail("anyhow", "no entry")
            \/ Fail("StdError", "contract")
      BY <1>3 DEF Refused, Misread, NoEntry, RefuseCustom
    <3>2. "anyhow" \in ForeignErrors /\ "StdError" \in ForeignErrors
      BY DEF ForeignErrors
    <3> QED
      BY <3>1, <3>2, Zenon
  <2>2. pc' = "answered" /\ outcome' # "ok"
    BY <2>1, FailIsNotOk
  <2>3. UNCHANGED <<subs, left, done>>
    BY <1>3 DEF Refused, Misread, NoEntry, RefuseCustom
  <2> QED
    BY <2>2, <2>3
<1>4. CASE UserEntry
  <2>1. pc = "sent" /\ UNCHANGED <<read, ran, done>>
    BY <1>4 DEF UserEntry, AnsweredBy
  <2>2. CASE \E e \in ForeignErrors : Fail(e, "user") /\ UNCHANGED <<subs, left>>
    <3>1. PICK e \in ForeignErrors : Fail(e, "user") /\ UNCHANGED <<subs, left>>
      BY <2>2
    <3>2. pc' = "answered" /\ outcome' # "ok"
      BY <3>1, FailIsNotOk
    <3> QED
      BY <2>1, <3>1, <3>2
  <2>3. CASE ~ \E e \in ForeignErrors : Fail(e, "user") /\ UNCHANGED <<subs, left>>
    <3>1. /\ subs' \in (IF call.ty = "query" THEN {<<>>} ELSE Answers)
          /\ left' = subs' /\ pc' = "running" /\ outcome' = outcome
      BY <1>4, <2>3 DEF UserEntry
    <3>2. <<>> \in Seq(Submessages)
      OBVIOUS
    <3>3. subs' \in Seq(Submessages) /\ done' = <<>> /\ outcome' = "none"
      BY <2>1, <3>1, <3>2, SylviaAssumption
    <3>4. read' = NoRead
      BY <2>1 DEF CallInv, ReadRight
    <3>5. Underway'
      BY <3>1, <3>3, <3>4, NoneHasRun
    <3> QED
      BY <2>1, <3>1, <3>3, <3>5
  <2> QED
    BY <2>2, <2>3
<1>5. CASE Dispatch
  <2>1. pc = "read" /\ UNCHANGED <<left, done>>
    BY <1>5 DEF Dispatch, Run
  <2>2. CASE Fail(program.error, "contract") /\ UNCHANGED subs
    <3>1. pc' = "answered" /\ outcome' # "ok"
      BY <2>2, FailIsNotOk
    <3> QED
      BY <2>1, <2>2, <3>1
  <2>3. CASE ~ (Fail(program.error, "contract") /\ UNCHANGED subs)
    <3>1. /\ subs' \in (IF call.ty = "query" THEN {<<>>} ELSE Answers)
          /\ pc' = "handled" /\ outcome' = outcome
      BY <1>5, <2>3 DEF Dispatch, Run
    <3>2. <<>> \in Seq(Submessages)
      OBVIOUS
    <3>3. subs' \in Seq(Submessages)
      BY <3>1, <3>2, SylviaAssumption
    <3> QED
      BY <2>1, <3>1, <3>3
  <2> QED
    BY <2>2, <2>3
<1>6. CASE Respond
  <2>1. /\ pc = "handled" /\ pc' = "running" /\ UNCHANGED <<read, ran, subs, done, outcome>>
        /\ Converts => Convertible(subs)
        /\ left' = IF Converts THEN IntoResponse(subs) ELSE subs
    BY <1>6 DEF Respond
  <2>2. PICK s : s = subs
    OBVIOUS
  <2>3. /\ left' \in Seq(Submessages) /\ Len(left') = Len(subs)
        /\ \A j \in DOMAIN subs : left'[j].id = subs[j].id /\ left'[j].reply = subs[j].reply
    <3>1. CASE Converts
      <4>1. s \in Seq(Submessages) /\ Convertible(s) /\ left' = IntoResponse(s)
        BY <2>1, <2>2, <3>1
      <4> QED
        BY <2>2, <4>1, ResponseIsKept
    <3>2. CASE ~ Converts
      BY <2>1, <3>2
    <3> QED
      BY <3>1, <3>2
  <2>4. Len(ran') = 1 /\ done' = <<>>
    BY <2>1 DEF CallInv, RanRight
  <2>5. subs' \in Seq(Submessages) /\ DOMAIN subs' = DOMAIN subs
    BY <2>1
  <2>6. Underway'
    BY <2>1, <2>3, <2>4, <2>5, NoneHasRun
  <2> QED
    BY <2>1, <2>3, <2>4, <2>5, <2>6
<1>7. CASE SubSucceeds
  <2>1. /\ pc = "running" /\ pc' = "running" /\ outcome' = outcome /\ outcome = "none"
        /\ Runs(TRUE, FALSE) /\ GoOn /\ UNCHANGED <<read, ran, subs>>
    BY <1>7 DEF SubSucceeds, Runs, GoOn
  <2>2. Replied' = Replied
    BY <2>1 DEF Replied
  <2>3. Underway' /\ done' \in Seq(Results) /\ left' \in Seq(Submessages)
    BY <2>1, <2>2, OneMoreHasRun
  <2> QED
    BY <2>1, <2>3
<1>8. CASE SubFails
  <2>1. PICK e \in ForeignErrors : Runs(FALSE, FALSE) /\ Give(e, "submessage") /\ UNCHANGED <<read, ran, subs>>
    BY <1>8 DEF SubFails
  <2>2. pc' = "answered" /\ outcome' # "ok" /\ left' = left
    BY <2>1, FailIsNotOk DEF Give
  <2>3. done' \in Seq(Results)
    BY <2>1, ResultIsKept
  <2> QED
    BY <2>1, <2>2, <2>3
<1>9. CASE Reply
  <2>1. PICK ok \in BOOLEAN : Runs(ok, TRUE)
    BY <1>9 DEF Reply
  <2>2. pc = "running" /\ outcome = "none" /\ UNCHANGED <<read, subs>>
    BY <1>9, <2>1 DEF Reply, Runs
  <2>3. done' \in Seq(Results) /\ done'[Len(done')] = [id |-> Head(left).id, ok |-> ok]
    BY <2>1, ResultIsKept
  <2>4. CASE \E e \in ForeignErrors \cup {program.error} : \E who : Give(e, who)
    <3>1. PICK e, who : e \in ForeignErrors \cup {program.error} /\ Fail(e, who) /\ left' = left
      BY <2>4 DEF Give
    <3>2. pc' = "answered" /\ outcome' # "ok"
      BY <3>1, FailIsNotOk
    <3> QED
      BY <2>2, <2>3, <3>1, <3>2
  <2>5. CASE ~ \E e \in ForeignErrors \cup {program.error} : \E who : Give(e, who)
    <3>1. /\ GoOn
          /\ \/ /\ ran' = Append(ran, [owner |-> Own(program),
                              fn |-> program.own.items[Entry(program, target, "reply").reply].fn,
                              args |-> <<done'[Len(done')]>>])
             \/ Entry(program, target, "reply").by = "user" /\ ran' = ran
      BY <1>9, <2>5 DEF Reply, ForeignErrors
    <3>2. read # NoRead /\ Entry(program, target, "reply").by # "user" =>
            Replied' = Replied \cup {<<[id |-> Head(left).id, ok |-> ok]>>}
      <4> SUFFICES ASSUME read # NoRead, Entry(program, target, "reply").by # "user"
                   PROVE  Replied' = Replied \cup {<<[id |-> Head(left).id, ok |-> ok]>>}
        OBVIOUS
      <4>1. PICK x, s : /\ ran' = Append(s, x) /\ s = ran
                        /\ x.args = <<[id |-> Head(left).id, ok |-> ok]>>
        BY <2>3, <3>1
      <4>2. (\E S : s \in Seq(S)) /\ s # <<>>
        BY <2>2, <4>1 DEF CallInv, RanRight
      <4>3. /\ Len(s) \in Nat /\ Len(Append(s, x)) = Len(s) + 1 /\ Append(s, x)[Len(s) + 1] = x
            /\ \A i \in 1 .. Len(s) : Append(s, x)[i] = s[i]
        BY <4>2, AppendKeeps, Zenon
      <4>4. Len(s) >= 1
        BY <4>2, <4>3
      <4> DEFINE r == Append(s, x)
      <4>5. 2 .. Len(r) = (2 .. Len(s)) \cup {Len(s) + 1}
        BY <4>3, <4>4
      <4>6. {r[i].args : i \in 2 .. Len(r)} = {s[i].args : i \in 2 .. Len(s)} \cup {x.args}
        BY <4>3, <4>4, <4>5
      <4> HIDE DEF r
      <4>7. Replied' = {r[i].args : i \in 2 .. Len(r)} /\ Replied = {s[i].args : i \in 2 .. Len(s)}
        BY <4>1 DEF Replied, r
      <4> QED
        BY <4>1, <4>6, <4>7
    <3>3. Underway' /\ left' \in Seq(Submessages)
      BY <2>1, <2>2, <3>1, <3>2, OneMoreHasRun
    <3>4. pc' = "running" /\ outcome' = outcome
      BY <2>2, <3>1 DEF GoOn
    <3> QED
      BY <2>2, <2>3, <3>3, <3>4
  <2> QED
    BY <2>4, <2>5
<1>10. CASE Settle
  <2>1. /\ pc = "running" /\ left = <<>> /\ pc' = "answered"
        /\ UNCHANGED <<program, target, read, ran, subs, left, done>>
    BY <1>10 DEF Settle
  <2>2. Underway'
    BY <2>1 DEF Underway, Replied, DueReplies
  <2> QED
    BY <2>1, <2>2
<1>11. CASE Finish
  <2>1. /\ pc' = "idle" /\ subs' = <<>> /\ left' = <<>> /\ done' = <<>> /\ outcome' = "none"
    BY <1>11 DEF Finish
  <2>2. <<>> \in Seq(Submessages) /\ <<>> \in Seq(Results)
    OBVIOUS
  <2> QED
    BY <2>1, <2>2
<1>12. CASE UNCHANGED vars
  BY <1>12 DEF vars, Underway, Replied, DueReplies
<1> QED
  BY <1>1, <1>2, <1>3, <1>4, <1>5, <1>6, <1>7, <1>8, <1>9, <1>10, <1>11, <1>12 DEF Next, Handle

\* A call of a method that goes through has had its submessages run and has
\* been told of them as it asked.
THEOREM SubmessagesAreHandled == Spec => []SubmessagesArrive
<1> DEFINE I == CallInv /\ SubInv
<1>1. Init => I
  <2> SUFFICES ASSUME Init PROVE SubInv
    BY CallInvInit
  <2>1. <<>> \in Seq(Submessages) /\ <<>> \in Seq(Results)
    OBVIOUS
  <2> QED
    BY <2>1 DEF Init, SubInv
<1>2. I /\ [Next]_vars => I'
  BY CallInvStep, SubInvStep
<1>3. I => SubmessagesArrive
  <2> SUFFICES ASSUME SubInv, outcome = "ok", read # NoRead PROVE SubmessagesArrive
    BY DEF SubmessagesArrive
  <2>1. Underway /\ left = <<>> /\ done \in Seq(Results) /\ subs \in Seq(Submessages)
    BY DEF SubInv
  <2>2. Len(left) = 0 /\ Len(done) \in Nat
    BY <2>1
  <2>3. Len(done) = Len(subs)
    BY <2>1, <2>2 DEF Underway
  <2>4. DOMAIN done = DOMAIN subs
    BY <2>1, <2>3
  <2>5. \A j \in DOMAIN subs : done[j].id = subs[j].id
    BY <2>1, <2>4 DEF Underway
  <2>6. DueReplies = {<<done[j]>> : j \in {j \in DOMAIN subs : WantsReply(subs[j], done[j].ok)}}
    BY <2>4 DEF DueReplies
  <2> QED
    BY <2>1, <2>3, <2>5, <2>6 DEF SubmessagesArrive, Underway, Replied
<1> HIDE DEF I
<1> QED
  BY <1>1, <1>2, <1>3, PTL DEF Spec

-----------------------------------------------------------------------------
(***************************************************************************)
(* Errors.                                                                 *)
(***************************************************************************)

\* A call fails as a panic only for a proxy, and over a foreign error.
LEMMA FailPanics ==
  ASSUME CallInv, NEW error, error # "panic", NEW culprit, Fail(error, culprit), outcome' = "panic"
  PROVE  call.by = "proxy" /\ error # program.error
<1>1. program.error # "panic"
  BY SylviaAssumption DEF CallInv, Accepted, WellFormed
<1> QED
  BY <1>1 DEF Fail, Seen

\* The message of a proxy finds an entry point.
LEMMA ProxyHasEntry ==
  ASSUME CallInv, call.by = "proxy"
  PROVE  Entry(program, target, call.ty).by # "none"
<1>1. program \in Programs /\ ClientSent /\ target = "test"
  BY DEF CallInv, Accepted, FromClient, ClientSent
<1>2. Items(program, Own(program)) = program.own.items
  BY <1>1, OwnBlock
<1>3. ~ (call.ty = "sudo" \/ (call.ty \in {"migrate", "reply"} /\ Declared(program.own.items, call.ty) = {}))
  BY <1>1, <1>2 DEF ClientSent
<1> QED
  BY <1>1, <1>3 DEF Entry, TestEntry, ByUser, ByMacro

\* Where responses are converted, the contract's error is that of the conversion.
LEMMA ConversionFits ==
  ASSUME CallInv, pc = "handled", Converts
  PROVE  program.error = "StdError"
<1>1. /\ program \in Programs /\ ~ ArmsDisagree(program) /\ read.owner \in Owners(program)
      /\ read.owner # Own(program) /\ program.attrs[read.owner].msg
  BY DEF CallInv, Accepted, CompilerRefuses, ReadRight, Converts
<1>2. read.owner \in DOMAIN program.traits
  <2> DEFINE B == [items : Seq([fn : FnNames, msg : STRING, args : Seq(STRING)]),
                   customs : Seq([msg : STRING, query : STRING]),
                   associated : [msg : STRING, query : STRING]]
  <2>1. program.traits \in Seq(B)
    BY <1>1, SylviaAssumption DEF WellFormed
  <2> HIDE DEF B
  <2> QED
    BY <1>1, <2>1 DEF Owners, Own
<1>3. \A t \in DOMAIN program.traits : ~ (program.attrs[t].msg /\ program.error # "StdError")
  <2> SUFFICES ASSUME NEW t \in DOMAIN program.traits, program.attrs[t].msg, program.error # "StdError"
               PROVE  FALSE
    OBVIOUS
  <2>1. ArmsDisagree(program)
    BY Zenon DEF ArmsDisagree
  <2> QED
    BY <1>1, <2>1
<1> QED
  BY <1>1, <1>2, <1>3

\* A call has no outcome before it is answered.
PanicInv ==
  /\ pc # "answered" => outcome = "none"
  /\ PanicsAreForeign

\* What fails that is not the contract's.
Others == {"chain", "user", "submessage", "no reply entry"}

LEMMA PanicInvStep ==
  ASSUME CallInv, PanicInv, [Next]_vars
  PROVE  PanicInv'
<1>1. CASE \E who \in Others : \E e : Fail(e, who)
  BY <1>1 DEF Others, Fail, PanicInv, PanicsAreForeign
<1>2. CASE Misread
  <2>1. pc = "sent" /\ Fail("StdError", "reading") /\ ~ Understood(program, call.ty, json)
    BY <1>2 DEF Misread, AnsweredBy
  <2>2. call.by = "proxy" => ~ Listed
    BY <2>1, ClientIsRead DEF FromClient
  <2>3. outcome' = "panic" => ~ Listed
    BY <2>1, <2>2, FailPanics
  <2>4. Listed' = Listed /\ pc' = "answered" /\ blame' = "reading"
    BY <2>1 DEF Fail, Listed
  <2> QED
    BY <2>3, <2>4 DEF PanicInv, PanicsAreForeign
<1>3. CASE NoEntry
  <2>1. Fail("anyhow", "no entry") /\ call.by # "proxy"
    BY <1>3, ProxyHasEntry DEF NoEntry, AnsweredBy
  <2>2. outcome' # "panic" /\ pc' = "answered"
    BY <2>1, FailPanics DEF Fail
  <2> QED
    BY <2>2 DEF PanicInv, PanicsAreForeign
<1>4. CASE Fail(program.error, "contract")
  <2>1. program.error # "panic"
    BY SylviaAssumption DEF CallInv, Accepted, WellFormed
  <2>2. outcome' # "panic" /\ pc' = "answered"
    BY <1>4, <2>1, FailPanics DEF Fail
  <2> QED
    BY <2>2 DEF PanicInv, PanicsAreForeign
<1>5. CASE RefuseCustom
  <2>1. Fail("StdError", "contract") /\ program.error = "StdError"
    BY <1>5, ConversionFits DEF RefuseCustom
  <2> QED
    BY <1>4, <2>1
<1>6. CASE pc' # "answered" /\ outcome' = "none"
  BY <1>6 DEF PanicInv, PanicsAreForeign
<1>7. CASE outcome' = "ok" /\ pc' = "answered"
  BY <1>7 DEF PanicInv, PanicsAreForeign
<1>8. CASE Refused \/ UserEntry \/ SubFails
  <2>1. CASE Refused
    <3>1. Fail("anyhow", "chain")
      BY <2>1 DEF Refused
    <3> QED
      BY <1>1, <3>1 DEF Others
  <2>2. CASE UserEntry
    <3>1. \/ \E e : Fail(e, "user")
          \/ pc = "sent" /\ pc' = "running" /\ outcome' = outcome
      BY <2>2 DEF UserEntry, AnsweredBy
    <3> QED
      BY <1>1, <1>6, <3>1 DEF PanicInv, Others
  <2>3. CASE SubFails
    <3>1. \E e : Fail(e, "submessage")
      BY <2>3 DEF SubFails, Give
    <3> QED
      BY <1>1, <3>1 DEF Others
  <2> QED
    BY <1>8, <2>1, <2>2, <2>3
<1>9. CASE Dispatch \/ Reply
  <2>1. \/ Fail(program.error, "contract")
        \/ \E who \in Others : \E e : Fail(e, who)
        \/ pc # "answered" /\ pc' # "answered" /\ outcome' = outcome
    <3>1. CASE Dispatch
      BY <3>1 DEF Dispatch, Run
    <3>2. CASE Reply
      BY <3>2 DEF Reply, Runs, GoOn, Give, Others
    <3> QED
      BY <1>9, <3>1, <3>2
  <2> QED
    BY <1>1, <1>4, <1>6, <2>1 DEF PanicInv
<1>10. CASE Settle
  BY <1>7, <1>10 DEF Settle
<1>11. CASE \/ ProxyCall \/ MessageCall \/ StructCall \/ RawMessage \/ ReadGlue \/ ReadStruct
            \/ Respond \/ SubSucceeds \/ Finish
  <2>1. CASE ProxyCall \/ MessageCall \/ StructCall \/ RawMessage
    <3>1. \E c, j : Send(c, j)
      BY <2>1 DEF ProxyCall, MessageCall, StructCall, RawMessage
    <3>2. pc = "idle" /\ pc' = "sent" /\ outcome' = outcome
      BY <3>1 DEF Send, Ready
    <3> QED
      BY <1>6, <3>2 DEF PanicInv
  <2>2. CASE ReadGlue \/ ReadStruct \/ Respond \/ SubSucceeds
    <3>1. pc # "answered" /\ pc' # "answered" /\ outcome' = outcome
      BY <2>2 DEF ReadGlue, ReadStruct, Respond, SubSucceeds, AnsweredBy, Runs, GoOn
    <3> QED
      BY <1>6, <3>1 DEF PanicInv
  <2>3. CASE Finish
    BY <1>6, <2>3 DEF Finish
  <2> QED
    BY <1>11, <2>1, <2>2, <2>3
<1>12. CASE Expand
  <2>1. stage = "source" /\ pc' = pc /\ outcome' = outcome
    BY <1>12 DEF Expand
  <2>2. pc = "idle"
    BY <2>1 DEF CallInv, Accepted
  <2> QED
    BY <1>6, <2>1, <2>2 DEF PanicInv
<1>13. CASE UNCHANGED vars
  BY <1>13 DEF vars, PanicInv, PanicsAreForeign, Listed
<1> QED
  BY <1>2, <1>3, <1>5, <1>8, <1>9, <1>10, <1>11, <1>12, <1>13 DEF Next, Handle

\* A call of a proxy never panics over an error of the contract's own code.
THEOREM PanicsComeFromElsewhere == Spec => []PanicsAreForeign
<1> DEFINE I == CallInv /\ PanicInv
<1>1. Init => I
  BY CallInvInit DEF Init, PanicInv, PanicsAreForeign
<1>2. I /\ [Next]_vars => I'
  BY CallInvStep, PanicInvStep
<1>3. I => PanicsAreForeign
  BY DEF PanicInv
<1> HIDE DEF I
<1> QED
  BY <1>1, <1>2, <1>3, PTL DEF Spec

-----------------------------------------------------------------------------
(***************************************************************************)
(* The two sets of entry points.                                           *)
(***************************************************************************)

\* A contract that builds for both targets has the same entry points in both,
\* whatever it overrides, if it has one reply method.
THEOREM TestsHaveTheChainsEntryPoints == Spec => []TestsLikeTheChain
<1>1. program \in Programs => TestsLikeTheChain
  <2> SUFFICES ASSUME \A t \in Targets : ~ CompilerRefuses(program, t),
                      \A k, l \in Replies(program) : k = l,
                      NEW ty \in MsgTypes
               PROVE  ChainEntry(program, ty) = TestEntry(program, ty)
    BY DEF TestsLikeTheChain
  <2>1. ~ ExportedTwice(program) /\ ~ OverrideDoesNotFit(program)
    BY DEF CompilerRefuses, Targets
  <2>2. \A i \in DOMAIN program.overrides : program.overrides[i] # "query"
    BY <2>1 DEF OverrideDoesNotFit, Recorded, CtxOf
  <2>3. Overridden(program, ty) <=> Exports(program, ty)
    BY <2>2 DEF Overridden, Exports, Recorded
  <2>4. ty = "reply" /\ Declared(program.own.items, ty) # {} =>
          Min(Replies(program)) = Max(Replies(program))
    <3> SUFFICES ASSUME Replies(program) # {}
                 PROVE  Min(Replies(program)) = Max(Replies(program))
      BY DEF Replies
    <3>1. PICK k : Replies(program) = {k}
      OBVIOUS
    <3> QED
      BY <3>1 DEF Min, Max
  <2> QED
    BY <2>3, <2>4 DEF ChainEntry, TestEntry, EmitsEntryPoint, MsgTypes, ByUser, ByNone, ByMacro
<1>2. Init => program \in Programs
  BY DEF Init
<1>3. program \in Programs /\ [Next]_vars => (program \in Programs)'
  BY DEF Next, Handle, vars, Expand, ProxyCall, MessageCall, StructCall, RawMessage, Send, Refused,
         ReadGlue, ReadStruct, Misread, UserEntry, NoEntry, Dispatch, Run, Respond, RefuseCustom,
         SubSucceeds, SubFails, Reply, Settle, Runs, GoOn, Give, Finish, Fail
<1> QED
  BY <1>1, <1>2, <1>3, PTL DEF Spec
=============================================================================

---------------------------- MODULE SylviaContract ----------------------------
(***************************************************************************)
(* A Sylvia contract from its source to its answers: the macros and the    *)
(* compiler accept the program or not; then clients that were generated    *)
(* with it, and others that write JSON themselves, send it messages; the   *)
(* entry point reads the message, the dispatch calls a method, and the     *)
(* method's response goes back.  Then the submessages of the response run, *)
(* each to its success or its failure, and the contract gets the replies   *)
(* they ask for.  The contract runs on a chain or in a test of             *)
(* cw_multi_test; both handle one message at a time.                       *)
(***************************************************************************)
EXTENDS Dispatch

CONSTANTS
  Programs,   \* the programs considered
  Values,     \* the values of arguments
  RawJson,    \* what others send: records with a type and JSON
  Answers     \* the submessages of the responses of methods

Targets == {"chain", "test"}

\* What Rust asks of the source: the methods of a block have different names,
\* and so have the arguments of a method.  An interface has one impl block.
WellFormedItems(items) ==
  /\ items \in Seq([fn : FnNames, msg : STRING, args : Seq(STRING)])
  /\ \A k, l \in DOMAIN items : items[k].fn = items[l].fn => k = l
  /\ \A k \in DOMAIN items : \A i, j \in DOMAIN items[k].args :
       items[k].args[i] = items[k].args[j] => i = j

WellFormed(p) ==
  /\ p.traits \in Seq([items : Seq([fn : FnNames, msg : STRING, args : Seq(STRING)]),
                       customs : Seq([msg : STRING, query : STRING]),
                       associated : [msg : STRING, query : STRING]])
  /\ \A o \in Owners(p) : WellFormedItems(Items(p, o))
  /\ DOMAIN p.impls = DOMAIN p.traits /\ DOMAIN p.errors = DOMAIN p.traits
  /\ p.error \notin {"ok", "panic"}

ASSUME SylviaAssumption ==
  /\ \A p \in Programs : WellFormed(p)
  /\ Answers \subseteq Seq(Submessages)

VARIABLES
  program,  \* the source
  target,   \* where it runs
  stage,    \* "source", "rejected", "stored" or, once instantiated, "live"
  pc,       \* "idle", "sent", "read", "handled", "running" or "answered"
  call,     \* the message being handled: who sent it, and for which method
  json,     \* the message on the wire
  read,     \* the message as read: the method it is for and its fields
  ran,      \* the methods that ran for it
  subs,     \* the submessages of the method's response,
  left,     \* those of the response the chain got that are yet to run, and
  done,     \* the ids and the success of those that ran
  outcome,  \* how the call ended, for its sender, and,
  blame     \* if it failed, what failed

vars == <<program, target, stage, pc, call, json, read, ran, subs, left, done, outcome, blame>>

NoCall == [by |-> "nobody", ty |-> "none", owner |-> 0, method |-> 0, args |-> <<>>]
NoJson == [map |-> FALSE, entries |-> <<>>]
NoRead == [owner |-> 0, method |-> 0, body |-> <<>>]

Init ==
  /\ program \in Programs
  /\ target \in Targets
  /\ stage = "source"
  /\ pc = "idle"
  /\ call = NoCall /\ json = NoJson /\ read = NoRead
  /\ ran = <<>> /\ subs = <<>> /\ left = <<>> /\ done = <<>>
  /\ outcome = "none" /\ blame = "none"

\* The item that call is for.
Called == Items(program, call.owner)[call.method]

-----------------------------------------------------------------------------
Expand ==
  /\ stage = "source"
  /\ stage' = IF MacrosRefuse(program) \/ CompilerRefuses(program, target)
              THEN "rejected" ELSE "stored"
  /\ UNCHANGED <<program, target, pc, call, json, read, ran, subs, left, done, outcome, blame>>

Ready(ty) == pc = "idle" /\ stage = (IF ty = "instantiate" THEN "stored" ELSE "live")

Send(c, j) ==
  /\ Ready(c.ty)
  /\ pc' = "sent"
  /\ call' = c
  /\ json' = j
  /\ UNCHANGED <<program, target, stage, read, ran, subs, left, done, outcome, blame>>

ArgLists(item) == [DOMAIN item.args -> Values]

\* A method of a proxy, for the method of the block that has its name.
ProxyCall ==
  \E x \in Proxies(program) :
    \E k \in {k \in Declared(Items(program, x.owner), x.ty) : Items(program, x.owner)[k].fn = x.fn},
       b \in Built(program, x.owner, x.ty, x.fn) :
      \E args \in ArgLists(Items(program, x.owner)[k]) :
        /\ target = "test"
        /\ Send([by |-> "proxy", ty |-> x.ty, owner |-> x.owner, method |-> k, args |-> args],
                EnumJson(program, x.owner, b, args))

\* A message built by its constructor, by hand or by a BoundQuerier.
MessageCall ==
  \E o \in Owners(program), ty \in {"exec", "query"} :
    \E k \in Declared(Items(program, o), ty) :
      \E b \in Built(program, o, ty, Snake[VariantOf(program, o, k)]),
         args \in ArgLists(Items(program, o)[k]) :
        Send([by |-> "message", ty |-> ty, owner |-> o, method |-> k, args |-> args],
             EnumJson(program, o, b, args))

\* The instantiation and migration messages: the InstantiateProxy of a
\* CodeId and the MigrateProxy in a test, the structs by hand on a chain.
StructCall ==
  \E ty \in {"instantiate", "migrate"} :
    \E k \in Declared(program.own.items, ty) :
      \E args \in ArgLists(program.own.items[k]) :
        /\ k = StructMethod(program.own.items, ty)
        /\ Send([by |-> IF target = "test" THEN "proxy" ELSE "message",
                 ty |-> ty, owner |-> Own(program), method |-> k, args |-> args],
                StructJson(program.own.items[k], args))

RawMessage ==
  \E r \in RawJson :
    Send([NoCall EXCEPT !.by = "raw", !.ty = r.ty], r.json)

-----------------------------------------------------------------------------
(***************************************************************************)
(* The entry point.                                                        *)
(***************************************************************************)

AnsweredBy(who) == pc = "sent" /\ Entry(program, target, call.ty).by = who

\* How the sender sees a failure: the call of a proxy downcasts the error to
\* the contract's and panics over any other; a query of a proxy converts it.
Seen(error) ==
  IF call.by # "proxy" THEN error
  ELSE IF call.ty = "query" \/ error = program.error THEN program.error
  ELSE "panic"

Fail(error, culprit) ==
  /\ pc' = "answered"
  /\ outcome' = Seen(error)
  /\ blame' = culprit
  /\ UNCHANGED <<program, target, stage, call, json>>

\* The errors of code that is not the contract's, as far as they matter.
ForeignErrors == {"StdError", "ContractError", "anyhow"}

\* The chain or cw_multi_test fails the message before the contract sees it: the
\* sender lacks the funds it sends, or may not migrate the contract.
Refused ==
  /\ pc = "sent"
  /\ call.ty \in {"exec", "instantiate", "migrate"}
  /\ Fail("anyhow", "chain")
  /\ UNCHANGED <<read, ran, subs, left, done>>

ReadGlue ==
  /\ AnsweredBy("macro")
  /\ call.ty \in {"exec", "query"}
  /\ \E n \in Sole(json) :
       \E o \in Claimant(program, call.ty, n) :
         \E k \in Decoded(program, o, call.ty, n, json.entries[n]) :
           read' = [owner |-> o, method |-> k, body |-> json.entries[n]]
  /\ pc' = "read"
  /\ UNCHANGED <<program, target, stage, call, json, ran, subs, left, done, outcome, blame>>

ReadStruct ==
  /\ AnsweredBy("macro")
  /\ call.ty \in {"instantiate", "migrate"}
  /\ Understood(program, call.ty, json)
  /\ read' = [owner |-> Own(program), method |-> StructMethod(program.own.items, call.ty),
              body |-> json.entries]
  /\ pc' = "read"
  /\ UNCHANGED <<program, target, stage, call, json, ran, subs, left, done, outcome, blame>>

Misread ==
  /\ AnsweredBy("macro")
  /\ ~Understood(program, call.ty, json)
  /\ Fail("StdError", "reading")
  /\ UNCHANGED <<read, ran, subs, left, done>>

\* The user's own entry point, of which nothing is known.
UserEntry ==
  /\ AnsweredBy("user")
  /\ \/ \E e \in ForeignErrors : Fail(e, "user") /\ UNCHANGED <<subs, left>>
     \/ /\ subs' \in IF call.ty = "query" THEN {<<>>} ELSE Answers
        /\ left' = subs'
        /\ pc' = "running"
        /\ UNCHANGED <<program, target, stage, call, json, outcome, blame>>
  /\ UNCHANGED <<read, ran, done>>

NoEntry ==
  /\ AnsweredBy("none")
  /\ Fail("anyhow", "no entry")
  /\ UNCHANGED <<read, ran, subs, left, done>>

-----------------------------------------------------------------------------
(***************************************************************************)
(* The dispatch and the response.                                          *)
(***************************************************************************)

\* The method that was read runs, and returns submessages or the contract's error.
Run(error) ==
  /\ pc = "read"
  /\ ran' = Append(ran, Call(Items(program, read.owner)[read.method], read.owner, read.body))
  /\ \/ Fail(error, "contract") /\ UNCHANGED subs
     \/ /\ subs' \in IF call.ty = "query" THEN {<<>>} ELSE Answers
        /\ pc' = "handled"
        /\ UNCHANGED <<program, target, stage, call, json, outcome, blame>>
  /\ UNCHANGED <<read, left, done>>

\* Mutant: the error is formatted into a new one.
DispatchAnew == Run("anyhow")

Dispatch == Run(program.error)

\* The interface was declared with custom(msg): its responses carry no custom messages.
Converts == call.ty = "exec" /\ read.owner # Own(program) /\ program.attrs[read.owner].msg

Respond ==
  /\ pc = "handled"
  /\ Converts => Convertible(subs)
  /\ left' = IF Converts THEN IntoResponse(subs) ELSE subs
  /\ pc' = "running"
  /\ UNCHANGED <<program, target, stage, call, json, read, ran, subs, done, outcome, blame>>

\* The StdError of into_response is what the dispatch returns.
RefuseCustom ==
  /\ pc = "handled"
  /\ Converts /\ ~Convertible(subs)
  /\ Fail("StdError", "contract")
  /\ UNCHANGED <<read, ran, subs, left, done>>

-----------------------------------------------------------------------------
(***************************************************************************)
(* The submessages, in their order.                                        *)
(***************************************************************************)

\* The next submessage succeeds or fails, and the contract is told or not.
Runs(ok, told) ==
  /\ pc = "running"
  /\ left # <<>>
  /\ WantsReply(Head(left), ok) = told
  /\ done' = Append(done, [id |-> Head(left).id, ok |-> ok])

GoOn ==
  /\ left' = Tail(left)
  /\ UNCHANGED <<program, target, stage, pc, call, json, outcome, blame>>

Give(error, culprit) == Fail(error, culprit) /\ UNCHANGED left

SubSucceeds ==
  /\ Runs(TRUE, FALSE)
  /\ GoOn
  /\ UNCHANGED <<read, ran, subs>>

\* A failure that no reply takes up fails the call.
SubFails ==
  /\ Runs(FALSE, FALSE)
  /\ \E e \in ForeignErrors : Give(e, "submessage")
  /\ UNCHANGED <<read, ran, subs>>

\* The reply entry point; what the reply sends in turn is run with it, and
\* fails the call if it fails.
Reply ==
  /\ \E ok \in BOOLEAN : Runs(ok, TRUE)
  /\ LET entry == Entry(program, target, "reply")
     IN  \/ /\ entry.by = "macro"
            /\ ran' = Append(ran, [owner |-> Own(program), fn |-> program.own.items[entry.reply].fn,
                                  args |-> <<done'[Len(done')]>>])
            /\ \/ GoOn
               \/ Give(program.error, "contract")
               \/ \E e \in ForeignErrors : Give(e, "submessage")
         \/ /\ entry.by = "user"
            /\ GoOn \/ \E e \in ForeignErrors : Give(e, "user")
            /\ UNCHANGED ran
         \/ /\ entry.by = "none"
            /\ Give("anyhow", "no reply entry")
            /\ UNCHANGED ran
  /\ UNCHANGED <<read, subs>>

\* All of them have run.
Settle ==
  /\ pc = "running"
  /\ left = <<>>
  /\ pc' = "answered"
  /\ outcome' = "ok"
  /\ UNCHANGED <<program, target, stage, call, json, read, ran, subs, left, done, blame>>

Finish ==
  /\ pc = "answered"
  /\ pc' = "idle"
  /\ stage' = IF call.ty = "instantiate" /\ outcome = "ok" THEN "live" ELSE stage
  /\ call' = NoCall /\ json' = NoJson /\ read' = NoRead
  /\ ran' = <<>> /\ subs' = <<>> /\ left' = <<>> /\ done' = <<>>
  /\ outcome' = "none" /\ blame' = "none"
  /\ UNCHANGED <<program, target>>

Handle ==
  \/ Refused \/ ReadGlue \/ ReadStruct \/ Misread \/ UserEntry \/ NoEntry
  \/ Dispatch \/ Respond \/ RefuseCustom
  \/ SubSucceeds \/ SubFails \/ Reply \/ Settle

Next ==
  \/ Expand
  \/ ProxyCall \/ MessageCall \/ StructCall \/ RawMessage
  \/ Handle \/ Finish

Spec == Init /\ [][Next]_vars

-----------------------------------------------------------------------------
(***************************************************************************)
(* Properties.                                                             *)
(***************************************************************************)

TypeOK ==
  /\ program \in Programs
  /\ target \in Targets
  /\ stage \in {"source", "rejected", "stored", "live"}
  /\ pc \in {"idle", "sent", "read", "handled", "running", "answered"}
  /\ call.by \in {"nobody", "raw", "proxy", "message"}
  /\ call.ty \in MsgTypes \cup {None}
  /\ pc \in {"idle", "sent"} => read = NoRead /\ ran = <<>>

FromClient == call.by \in {"proxy", "message"}

\* The first method that runs for a message of a generated client is the one
\* the client was generated from, on the same interface, with the arguments
\* in the places the caller gave them: through a constructor, two namings of
\* the variant, a map of fields and the order of the glue message.
CallsReachTheirMethod ==
  FromClient /\ read # NoRead /\ ran # <<>> =>
    ran[1] = [owner |-> call.owner, fn |-> Called.fn, args |-> call.args]

\* serde's name of the method's message is among those that its block lists.
Listed ==
  call.ty \in {"exec", "query"} =>
    Wire[VariantOf(program, call.owner, call.method)] \in Messages(program, call.owner, call.ty)

\* A message of a generated client is understood by the contract, if the
\* contract has left the entry point to the macros and the two namings agree
\* so far that serde's name of the message is one its block lists: some block
\* claims what the constructor builds, and can decode it.
ClientsAreUnderstood ==
  FromClient /\ Listed /\ AnsweredBy("macro") => Understood(program, call.ty, json)

\* Whoever sent it, a message that was read is for the only method of the
\* contract and all its interfaces that has the name in the JSON.
OneMethodPerName ==
  pc # "sent" /\ read # NoRead /\ call.ty \in {"exec", "query"} =>
    \E n \in DOMAIN json.entries :
      \A o \in Owners(program) : \A k \in Declared(Items(program, o), call.ty) :
        Wire[VariantOf(program, o, k)] = n <=> o = read.owner /\ k = read.method

\* A call of a method that goes through has had the chain run every submessage
\* of the method's response, in their order, although an interface's response
\* was built anew on the way; and the contract has been told of those that the
\* method wanted to be told of, by their ids and with what became of them, and
\* of no other.
SubmessagesArrive ==
  outcome = "ok" /\ read # NoRead =>
    /\ Len(done) = Len(subs)
    /\ \A j \in DOMAIN subs : done[j].id = subs[j].id
    /\ Entry(program, target, "reply").by # "user" =>
         {ran[i].args : i \in 2 .. Len(ran)} =
           {<<done[j]>> : j \in {j \in DOMAIN subs : WantsReply(subs[j], done[j].ok)}}

\* A program that builds for the chain and for a test has the same entry
\* points in both, answered by the same code, as long as it has one reply method.
TestsLikeTheChain ==
  /\ ~MacrosRefuse(program)
  /\ \A t \in Targets : ~CompilerRefuses(program, t)
  /\ \A k, l \in Replies(program) : k = l
  => \A ty \in MsgTypes : ChainEntry(program, ty) = TestEntry(program, ty)

\* A call of a proxy never panics over an error of the contract's methods, or
\* over one of the generated code that carries them: only over an error of the
\* chain, of an entry point of the user's own or of a submessage, over a reply
\* that the contract has no entry point for, or over a message whose name its
\* block does not list.
PanicsAreForeign ==
  outcome = "panic" =>
    \/ blame \in {"chain", "user", "submessage", "no reply entry"}
    \/ blame = "reading" /\ ~Listed
=============================================================================

------------------------------- MODULE MCSylvia -------------------------------
(***************************************************************************)
(* SylviaContract for TLC: contracts with none, one or two interfaces, and *)
(* mistakes in each of the attributes.                                     *)
(***************************************************************************)
EXTENDS SylviaComments, TLC

CONSTANTS
  MCFnNames   \* the names of methods, beside the fixed ones

MCVariant ==
  [init |-> "Init", upgrade |-> "Upgrade", answer |-> "Answer", answer_again |-> "AnswerAgain",
   transfer |-> "Transfer", balance |-> "Balance", new |-> "New", step_2 |-> "Step2", step2 |-> "Step2",
   a_b |-> "AB", ab |-> "Ab"]

MCSnake ==
  [Init |-> "init", Upgrade |-> "upgrade", Answer |-> "answer", AnswerAgain |-> "answer_again",
   Transfer |-> "transfer", Balance |-> "balance", New |-> "new", Step2 |-> "step_2",
   AB |-> "ab", Ab |-> "ab"]

MCWire == [MCSnake EXCEPT !.Step2 = "step2", !.AB = "a_b"]

Fixed == {"init", "upgrade", "answer", "answer_again", "transfer", "balance", "new"}

AllFnNames == Fixed \cup MCFnNames

Item(fn, msg, args) == [fn |-> fn, msg |-> msg, args |-> args]

NoTypes == [msg |-> None, query |-> None]
Block(items, customs, associated) == [items |-> items, customs |-> customs, associated |-> associated]
Plain(items) == Block(items, <<>>, NoTypes)

Init1     == Item("init", "instantiate", <<"owner">>)
Upgrade   == Item("upgrade", "migrate", <<>>)
Answer    == Item("answer", "reply", <<>>)
Again     == Item("answer_again", "reply", <<>>)
Transfer  == Item("transfer", "exec", <<"to", "amount">>)
Balance   == Item("balance", "query", <<"of">>)
New       == Item("new", None, <<>>)

Custom == [msg |-> "MyMsg", query |-> None]

OwnItems ==
  {<<New, Init1>>, <<Init1, Balance>>, <<Init1, Transfer, Answer>>, <<Init1, Upgrade, Answer, Again>>}
  \cup {<<Init1, Item(f, "exec", <<>>)>> : f \in MCFnNames}

BadOwnItems ==
  {<<Transfer>>, <<Init1, Item("upgrade", "instantiate", <<>>)>>, <<Init1, Item("answer", "sudo", <<>>)>>}

Owns == {Plain(i) : i \in OwnItems} \cup {Block(<<Init1, Transfer, Answer>>, <<Custom>>, NoTypes)}

Traits ==
  {Plain(<<Transfer, Balance>>),
   Plain(<<Balance, Item("answer", "reply", <<>>)>>),
   Plain(<<Item("new", "exec", <<"owner">>)>>),
   Block(<<Transfer>>, <<Custom>>, NoTypes),
   Block(<<Transfer>>, <<>>, [msg |-> "MyMsg", query |-> None])}

TraitLists == {<<>>} \cup {<<t>> : t \in Traits} \cup {<<Plain(<<Balance>>), t>> : t \in Traits}

MCOverrideLists == {<<>>, <<"exec">>, <<"sudo", "migrate">>, <<"query">>, <<"reply">>, <<"ibc">>}

Program(own, ts, msg, overrides, error) ==
  [own |-> own, traits |-> ts, impls |-> [t \in DOMAIN ts |-> ts[t].items],
   attrs |-> [t \in DOMAIN ts |-> [msg |-> msg, query |-> FALSE]],
   errors |-> [t \in DOMAIN ts |-> error], overrides |-> overrides, error |-> error]

MCPrograms ==
  {Program(own, ts, msg, <<>>, e) :
     own \in Owns, ts \in TraitLists, msg \in BOOLEAN, e \in {"StdError", "ContractError"}}
  \cup
  {Program(own, <<>>, FALSE, overrides, "ContractError") : own \in Owns, overrides \in MCOverrideLists}
  \cup
  {Program(Plain(items), <<>>, FALSE, <<>>, "StdError") : items \in BadOwnItems}
  \cup
  {[Program(Plain(<<Init1>>), <<Plain(<<Balance>>)>>, FALSE, <<>>, "StdError") EXCEPT !.impls = <<impl>>] :
     impl \in {<<>>, <<Item("balance", None, <<>>)>>, <<Item("balance", "exec", <<>>)>>}}
  \cup
  {Program(Plain(<<Init1, Item(f, "exec", <<>>)>>), <<Plain(<<Item(g, "exec", <<"owner">>)>>)>>,
           FALSE, <<>>, "ContractError") : f, g \in MCFnNames}
  \cup
  {[Program(Plain(<<Init1, Transfer>>), <<Plain(<<Balance>>)>>, FALSE, <<>>, "StdError")
      EXCEPT !.errors = <<"ContractError">>]}

Names(n, body) == [map |-> TRUE, entries |-> [x \in n |-> body]]

Bodies == {[to |-> 1, amount |-> 1], [to |-> 1], [of |-> 2, to |-> 1]}

MCRawJson ==
  [ty : {"exec", "query"},
   json : {Names(n, b) : n \in {{"transfer"}, {"balance"}, {"transfer", "balance"}}, b \in Bodies}]
  \cup
  [ty : MsgTypes \ {"reply"}, json : {[map |-> FALSE, entries |-> <<>>], [map |-> TRUE, entries |-> <<>>]}]

MCSub == [id : {7}, kind : {"plain", "custom", "unknown"}, reply : ReplyOn]

MCAnswers ==
  {<<>>} \cup {<<s>> : s \in MCSub}
  \cup {<<s, [id |-> 8, kind |-> "plain", reply |-> "success"]>> : s \in MCSub}
=============================================================================

# A TLA+ model of Sylvia and its contracts

Sylvia is a Rust framework for smart contracts on CosmWasm chains: procedural
macros turn a trait or an `impl` block into message types, their dispatch and
the entry points of a contract.  The repository holds the macros, a small
runtime, and example contracts written with them.  This directory models the
macros by what the programs they accept do, the runtime, and the contracts
`cw20-base`, `cw1-whitelist` and `cw1-subkeys`; it checks the models with TLC on
small instances, and proves what matters most with TLAPS.

## Inventory

| component | state | operations | what is hard | what makes it correct |
|---|---|---|---|---|
| `cw20-base` (`contract.rs`) | `token_info`, `balances`, cw2 version | instantiate, transfer, burn, send, migrate | two writes per message that must agree, transfers to oneself, migration of old storage, a receiver that calls back | the supply is the sum of the balances; only owners and approved spenders debit an account |
| `cw20-base` allowances (`allowances.rs`) | `allowances`, `allowances_spender` | increase, decrease, transfer_from, send_from, burn_from; queries | one approval in two maps, deadlines, owner and spender interleaved, lists read page by page | both maps agree; an approval is lowered by exactly what was spent, and only while it is live |
| `cw20-base` minting (`minting.rs`) | `token_info.mint` | mint, update_minter | the cap at its boundary, handing over and giving up the role | the cap holds, the role never comes back |
| `cw20-base` marketing (`marketing.rs`) | `marketing_info`, `logo` | update_marketing, upload_logo | one fact in two items, one of which may be removed | the name and the logo agree; only the role's holder changes them |
| `cw20-base` validation (`validation.rs`) | none | checks of accounts, names, logos | boundaries of byte scans | duplicates and malformed logos are refused |
| `cw1-whitelist` | `admins`, `mutable` | freeze, update_admins, execute | a merge of sorted lists; the contract as its own admin; contracts that call back; failing half-way | admins end up as sent; a frozen list never changes; only admins act |
| `cw1-subkeys` | `permissions`, `allowances`, a whitelist | increase, decrease, set_permissions, execute | deadlines that are revived, batches of messages, the contract as its own admin, contracts that call back | a spender does only what it was granted; the queries tell what it may do |
| `sylvia-derive`, `parser.rs`, `input.rs`, `variant_descs.rs` | none | attributes to settings | `override_entry_point` of each kind | each override concerns its own entry point |
| `sylvia-derive`, `message.rs`, `interfaces.rs`, `remote.rs` | none at run time | messages, constructors, deserialization, dispatch, entry points | names that are converted three times; which handler gets a message | every message reaches the one method of its name |
| `sylvia-derive`, `multitest.rs` and runtime, `multitest.rs`, `into_response.rs`, `types.rs` | a `RefCell` | proxies, the `Contract` of a test, conversion of responses | a test that differs from the chain; errors that are downcast | tests behave as the chain does; responses arrive whole |
| runtime, `utils.rs` | cursors of a compile-time loop | `assert_no_intersection` | empty and exhausted arrays | panics exactly when two arrays share a name |
| `sylvia-derive`, the rest | none | rewriting of syntax trees | | |
| `custom`, `entry-points-overriding` | counters | messages through overridden entry points | | |

How they interact: the chain calls an entry point that the macros generated;
it deserializes the message by its name into the message type of one interface
or of the contract itself, and dispatches it to a method.  `assert_no_intersection`
keeps programs from compiling in which two of these types share a name.
In a test, generated proxies build the same messages and call the same
dispatch through `cw_multi_test`.  The methods of
`cw20-base` for the three interfaces share the storage of `contract.rs` and
`deduct_allowance`.  `send` and `send_from` return a message for another
contract, which the chain runs in the same transaction; `execute` of the cw1
contracts returns messages for anybody, the contract itself included.
`cw1-subkeys` contains a `cw1-whitelist`.

There is no concurrency inside a contract: the chain runs one message after
the other, and a message that returns an error or panics undoes its
transaction.  What is hard is the order of messages of several parties, the messages that a
contract causes before the transaction ends, time (block height)
passing between them, values at the limits of `Uint128`, facts that are stored
twice, storage that older code wrote, and, in the macros, names and settings
that take several roads to places where they must agree.

PROJECT.json lists the hazards at their lines, each with the properties that
would find it going wrong.

## Modules

    Cw20State         the storage of cw20-base; reads and writes its handlers share
    Cw20Allowances    increase/decrease_allowance, transfer_from, send_from, burn_from
    Cw20Minting       mint, update_minter
    Cw20Marketing     update_marketing, upload_logo, verify_logo
    Cw20Base          the contract: the three above, contract.rs, Init, Next, properties
    Cw20Transactions  Cw20Base in transactions: receivers, their calls, roll-back
    TokenLedger       what the token promises its holders (abstract)
    Paging            the list queries, read page by page while the map changes
    AdminMerge        the loops of update_admins, one iteration a step
    Cw1Whitelist      cw1-whitelist, with the messages it sends and those that come back
    Cw1Subkeys        cw1-subkeys, which extends it
    AdminGroup        what both promise about their admins (abstract)
    Attributes        what the macros read, and what they or the compiler refuse
    Dispatch          the generated messages, clients, dispatch and entry points
    SylviaContract    a contract from its source to its answers: Init, Next, properties
    NoIntersection    assert_no_intersection, one loop iteration a step
    Cw20Comments, Cw1Comments, SylviaComments
                      statements of comments and docs that the code does not keep
    Cw20Proofs, Cw20Authority, Cw20TransactionProofs, PagingProofs, AdminMergeProofs,
    Cw1Proofs, SylviaProofs, NoIntersectionProofs
                      theorems
    MC*               inputs for TLC, and its configurations

### cw20-base

Each variable of `Cw20State` is one storage item or map of `struct Cw20Base`
(plus the cw2 version, the block height and the sender of the last message,
which the properties speak of).  An absent entry is `None`; an entry that is
zero is a different thing, as in the code, since `all_accounts` and
`decrease_allowance` tell them apart.  Each operator named after a handler is the whole
handler.  A guard is an early return, a `checked_` operation or an addition of
`Uint128` that would panic; a failed message has no effect, so it is no step
of the model.  `Balance` and `AllowanceOf` are the `unwrap_or_default` of the
code.  `MoveTokens` computes the second balance from the storage the first
update left, since that is what makes a transfer to oneself harmless.
`TransferFrom` keeps the three paths of `transfer_from`: nothing happens when
the owner is the recipient, no approval is asked of the owner, everybody else's
is deducted.  `DeductAllowance` updates each map from its own entry, and fails when
either fails.

Amounts are natural numbers up to the constant `MaxUint128`, and every
addition that could pass it is guarded where the code panics or returns an
error.  A version of the code is a number of the same order as the semantic
version (0.8.1 is 81, 0.14.0 is 140).  This workspace is at 0.8.1, so that
`migrate` rebuilds the mirror of every contract it accepts, and
`ensure_from_older_version` refuses the ones that newer cw-plus code made.

`Init` is either an empty storage, for `Instantiate`, or what an older version
left behind (`Legacy`), for `Migrate`: balances that sum to the supply,
any approvals, and a mirror that is complete or, before 0.14.0, missing.

Left out: the token's name, symbol and decimals, which are written once; the
content of logos, of which `verify_logo` asks one question (`format`) and the
size; memos, attributes and events; addresses that do not validate; the time
variant of `Expiration`, which behaves as the height variant does.

`TokenLedger` is the token as its holders see it: funds, one table of approvals,
an issuer, a clock.  It says nothing of versions, of the mirror, of the
supply, of caps, or of whether a zero is stored.  Its `Pay` and `Destroy` need
an `Authority`: the owner's own message, or a live approval that covers the
amount and loses it.  `Ledger` in `Cw20Base` maps the contract's storage to it,
taking the approvals from the `allowance` query; `ImplementsTokenLedger` says that
every step of the contract is a step of the ledger.  A mutant that ignores a
deadline, or forgets a deduction, has a step that the ledger has not.

`Cw20Transactions` adds the chain around the handlers.  `outbox` is what the
running transaction has yet to do: the `Cw20ReceiveMsg` that `send` and
`send_from` return (`Receive`), and calls of the token by a contract that was
told of tokens (`CallBy`), which may be any message whatever.  What a message
returns runs before its siblings, so it is put in front.  `saved` is the storage to which
`RollBack` returns when a message fails, which each may.  The messages of
`Cw20Base` are used as they are; `Outside` is what happens between transactions.

### Paging

The list queries of `cw20-base` and `cw1-subkeys` are one loop: a range after
`start_after`, for one of them a filter of what has expired, and `take`.
`store` is the map a query lists, `Page` what one call returns, `Read` a
client that asks for the page after the last key it was given until a page is
empty.  `Put`, `Remove` and `NextBlock` are what messages and time do to that
map between two pages; an allowance of `cw1-subkeys` that has expired can come
back, and nothing removes a balance or permissions (`Removable`).  `steady`, the keys
listed all along, only serves `NothingMissed`.  Names are numbers, as only their order matters.

### cw1-whitelist and cw1-subkeys

`storage` is the record of the contract's items and maps.  The handlers take
the caller, the message and the rest of the transaction.  `Transact` runs one for
somebody who signs, `SubMessage` for a message the contract sends to itself, of
which it is then the sender.  `Fail` undoes the transaction (`saved`).

Other contracts run when somebody signs for them (`TransactAbroad`) or when the
contract sends them a message; a bank or a staking message runs none.  As long as one runs,
any of them may call the contract, with any message and any number of times (`CallIn`), before
what the contract sent next; what such a call makes the contract send runs before they
go on.  `Elsewhere` is the end of a message for others.  A contract that catches the failure of a
call it made leaves everything as if it had not made it, so that
needs no action.  `callers` is who called in the running transaction: the signer
of a `Transact`, or the contracts that called.  No handler reads it.

`update_admins` replaces the set in one step here; `AdminMerge` has its loops,
with the sort as any ordered permutation and the binary search as any answer
that its documentation allows (`BinarySearch`), and shows that they do so, for lists with repeated and invalid addresses.

`Cw1Subkeys` extends the storage with allowances and permissions.  A balance maps a
denomination to an amount or to no coin; a coin of zero is kept, as
`NativeBalance` keeps it.  `Less` is the saturating subtraction that removes a
coin, `Covers` the subtraction that fails, one coin after the other.
`CoveredBy` is `is_authorized` without the admins; `ExecuteSubkeys` checks each message of the batch
against the storage the batch began with, as the code does, which writes nothing.
A transaction runs in one block.

`AdminGroup` is what holders of a cw1 account rely on: the group changes in
whole transactions, in each of which a member called, while it is open.  The mapping takes
the storage that would stay if the running transaction failed (`Committed`).

### The macros and the runtime

A program is a record: the interfaces of a contract, its own methods, and the
attributes that the macros read, each as the word that is written
(`Attributes`).  `MacrosRefuse` are the errors the macros emit.  The compiler refuses the
rest: two functions of one name, the constant of `assert_no_intersection`,
arms of the dispatch whose types disagree, entry points that are exported
twice (`CompilerRefuses`).  A name is turned into a variant by `to_case` (`Variant`), from there into the
name of a constructor and of the list `messages()` (`Snake`), and into its name in JSON by serde (`Wire`): three functions, since
the code uses two libraries that differ.

`Dispatch` has what the macros emit: `Fields`, `EnumJson` and `StructJson` build messages from arguments,
`Claimant` finds the message type that lists a name, in the order of the
generated comparisons, `Decoded` is its derived `Deserialize`, `Call` the arm that calls the method.  `ChainEntry` and `TestEntry` say who answers a message of a type on
a chain (`EntryPoints`) and in a test (`MultitestHelpers`), from the same overrides.
`IntoMsg` and `IntoResponse` build the responses of an interface anew for a contract with
custom messages, which only a contract whose error is `StdError` can ask for: the arms of a
generated dispatch have one type (`ArmsDisagree`), and that of such an arm is the `StdResult` of
`into_response`.

What `convert_case` and serde make of names is given by three constants (`Variant`, `Snake`, `Wire`), of which
`NamesAssumption` asks no more than the two libraries keep to for every name: nothing says that a
name survives.  `sylvia` has names that do (`ab`), and names that do not (`step_2`, `step2`, `a_b`).

`SylviaContract` runs a program: `Expand` accepts or rejects it; `ProxyCall`,
`MessageCall` and `StructCall` are the generated clients, `RawMessage` somebody who writes
JSON; `ReadGlue`, `ReadStruct` and `Misread` are the entry point, `Dispatch` the
method, `Respond` and `RefuseCustom` `IntoResponse`.  Then the submessages of the response run one after the
other: `SubSucceeds` and `SubFails` are those whose result the contract does not ask for, and a failure of one
fails the call; `Reply` is a result that goes to the contract's reply entry point; `Settle` ends the call.
`Refused` is a message that the chain or `cw_multi_test` fails before the contract sees it, for
lack of funds or of the right to migrate.  `Seen` is the downcast by which a proxy turns an error into the
contract's or panics, whoever the error is from; `blame` records that.  One
message is handled at a time.  What a method does is not known: it returns an error or any submessages of
`Answers`; and what a submessage does elsewhere is not known either: it succeeds or fails with any error.  The
submessages that a reply method returns are run with it, and only that one of them may fail is kept.

`assert_no_intersection` is a `const fn` that the generated dispatch calls on the message
names of a contract and its interfaces.  In `NoIntersection`, `pc` is the loop it is in; every step
is one iteration of `assert_no_intersection`, `get_next_alphabetical_index` or
`verify_no_collisions`.  Names are integers since only their order matters,
and indices start at 1.  An array that has run out stays at its last name, as
`State::Finished` does, and is still compared.  `Overlap` in `Attributes` is its result, which
`AcceptsOnlyDisjoint` and `RejectsOnlyOverlap` justify.

## Runs

| run | instance | distinct states | question |
|---|---|---|---|
| `ledger` | 2 accounts, amounts 0..2, heights 0..2, deadlines 1, 2 and never, caps 1 and none; new instances and ones of versions 14, 80, 141 | 66,099 | storage consistent; debits, approvals, minting authorised; implements `TokenLedger` |
| `callbacks` | an account that signs and a contract that gets tokens, amounts 0 and 1, deadline 1, at most 2 messages waiting | 1,326,424 | approvals are not used twice, and what a contract is told of it has, through calls back and roll-backs |
| `marketing` | 2 accounts, 2 texts, 5 logos | 2,691 | the two items agree, only the role changes them |
| `paging` | 4 keys, pages of 1 to 3, heights 0..2, deadlines 1 and 2 | 90,674 | a reader gets every entry that stayed, and reaches the end |
| `admin_merge` | 5 addresses, 1 invalid; every list of up to 4; every stored list | 135,152 | the merge stays inside the list and leaves what was sent |
| `whitelist` | a person, a contract that calls back, the contract itself; batches of 2, batches in batches, at most 3 messages waiting | 63,215 | only admins make it act; implements `AdminGroup` |
| `subkeys` | a subkey, a contract that calls back, the contract itself; 2 denominations, amounts 0 and 1, deadline 1, never and none, at most 2 messages waiting | 1,667,130 | subkeys stay within their grants, queries are honest, expired allowances are forgotten; implements `AdminGroup` |
| `sylvia` | own blocks right and wrong, 0 to 2 interfaces, overrides, chain and test | 399,572 | calls reach their method, submessages run and replies come back, panics are not over the contract's errors, tests behave as the chain |
| `no_intersection` | 3 arrays of at most 2 of 4 names | 72,642 | accepts and rejects the right inputs, ends |
| `comment_subtract`, `comment_override`, `comment_names` | as `subkeys` and `sylvia` | | a counterexample to a comment, see below |

Run one with `tlc -config MCCw20Ledger.cfg MCCw20`, and so on: each cfg is named
after the module it belongs to (`MCPaging.cfg` configures `Paging`).

### Bounds, and why they are enough

`MaxUint128` is 2: a balance can be zero, in between and full, a
sum of two amounts overflows, and a cap of 1 lies strictly below the limit.  Two
accounts make an approval, its reverse and a transfer to oneself; owner,
spender and recipient all different, and any number of accounts, are the theorems of
`Cw20Proofs` and `Cw20Authority`.  Deadlines 1 and 2 with
heights up to 2 let an approval be live, expire, be revived, and expire
again; nothing depends on how far a deadline has passed.  Of the three
versions, two are older than this code and may lack the mirror (one of them
differs from it in the patch only), and one is newer, has the mirror and cannot
be migrated.

In `callbacks` the one contract may send any message to the token, among them
one that makes the token call it again, so with two messages waiting a call
is nested in a call; an amount of 1 against a balance and an approval of at most 2 allows
spending them twice, which is what is looked for.  Only the messages that wait are bounded, never their number
in all, so a transaction, and a sequence of them, may be of any length.

In `paging` a page may be shorter than the map, end at its end, or hold all of
it; the limit that is asked for may be absent, below and above the maximum.
Two keys before and behind the cursor each can appear, disappear or
expire.  In `admin_merge` an address can be smaller and larger than all the others, be
missing, or repeat.  In the cw1 runs there are one who signs, one contract that calls back
and the contract itself, and any of them may be an admin and stop being one; the handlers ask of
nobody but the caller, the spender and the contract.  How often the other contract
calls is not bounded, only how many messages wait when it has called (`MaxPending`); more
callers, and calls nested deeper, are the theorems of `Cw1Proofs`.  In `subkeys` `MaxUint128` is 1, so that a
second grant of 1 overflows.  A subkey with two
denominations shows that they are kept apart.  In `no_intersection` two names an
array suffice for one to be passed and one to be exhausted, and with three arrays the two that clash
need not be the one the scan starts from.  The programs of `sylvia` contain
each kind of method, one name in two interfaces, and each attribute once right and
once wrong; one message at a time suffices because a dispatch keeps no state.  A response has
at most two submessages, of each kind and with each setting for replies, so one can be lost, swapped or
go on after a failed one.

Symmetry is used in `ledger` and `marketing` (accounts): no constant tells the permuted values apart, and the
properties of these runs are invariants and action properties, never liveness.

`CHECK_DEADLOCK FALSE` is set where the system may stop: functions that
return (`no_intersection`, `admin_merge`), a program that is rejected (`sylvia`), a
list without admins, to which no message is acceptable any more (`whitelist`,
`subkeys`), and a newer token that cannot be migrated (`ledger`).

### Fairness

The contracts have no liveness properties: nobody is obliged to send a message.
`NoIntersection!FairSpec` has weak fairness of its
only process, a loop that the compiler executes until it returns.  `Paging!Spec` has weak fairness of `Read`: the client goes on
asking.  Changes to the map are not fair and not bounded, except by the number of
keys.

### Mutants

Each passing property has a mutant in PROJECT.json: a variant of one operator
(the one commented "Mutant:" above it) with a plausible mistake that
makes the property false.

### Comments the code does not keep

* `comment_subtract`: `is_authorized` of `cw1-subkeys` says that "we subtract the
  requested amount" from an allowance; it subtracts it from a copy, and nothing is
  saved.  A subkey can send its allowance as often as it likes.
  `SubkeysActWithinGrants` states what does hold: each single message is covered.
* `comment_override`: the README says all message types can be overridden; the
  word `query` in `override_entry_point` is recorded as `instantiate`.
* `comment_names`: the README says an `ExecMsg` sends messages to the contract; one
  built for a method called `step_2` is written as `step2`, and the contract lists it as `step_2`, since two
  libraries convert the name.

Further ones, with a configuration but no place among the runs above:

* `tlc -config MCCw20CommentCap.cfg MCCw20`: `MinterData` says the cap is how many
  more tokens the minter can issue; `mint` compares it with the whole supply, as the
  documentation of `MinterResponse` has it.
* `tlc -config MCCw20CommentAllowance.cfg MCCw20`: the allowance query is documented to
  return how much a spender can use; it returns the stored amount after the deadline, too.
* `tlc -config MCCw20CommentUrl.cfg MCCw20`: a `Logo::Url` "must be a valid HTTP or HTTPS
  URL"; it is never looked at.
* `tlc -config MCAdminMergeComment.cfg MCAdminMerge`: `update_admins` says lower indices
  need not be looked at again; the index that it keeps is that of a suffix, so
  it does look at them again.  The result is right, as `ReplacesExactly` shows.
* `tlc -config MCSylviaCommentTraits.cfg MCSylvia`: "Instantiation, Reply, Migrate
  and Sudo messages not supported on traits"; such a method of an
  interface is accepted and dropped, as the error is in code that is reached only for
  messages to execute and to query.

## Proofs

Every theorem is of the specification that the runs check, for all values of
its constants.  They rest on the assumptions of the constants
(`NoneAssumption`, `Cw20Assumption` and the like, one or two a module), which
TLC evaluates in every run, and on nothing else.
Two of them say that there are finitely many of something, for the
sums: of addresses, which are strings of bounded length (`FiniteAddr`), and of initial
balances in one message (`Cw20BaseAssumption`).

`Cw20Proofs` proves for any set of accounts, any amounts, deadlines and caps,
and any starting version: `TypeOK` (no `Uint128` leaves its range),
`MirrorIsConverse`, `SupplyWithinCap` and `NoSelfApproval`.  They are proved
together, as `IInv`, since they depend on each other: deducting from an
approval keeps its type only because the guard saw the same value in the
mirror; the mirror stays the converse only because no
account approves itself, so the two writes concern different entries.
Two parts are there to make it inductive: an instance that has a version has a
`token_info` (the handlers load it) and one that has none is empty, and `MirrorAgrees`, which says what the
mirror may look like before this code runs: it may lack approvals but never
contradict one, and is complete where migration trusts it to be.
There is one lemma per handler, and `NextInv` combines them.

`SupplyIsSumOfBalances` is inductive on top of `IInv`.  A sum is a fold, of which
the provers know nothing; the first section of `Cw20Proofs` derives what is needed
from its recursive definition.  Each induction there is over a set: `NumberInduction`
says that a set with 0 and the successor of each of its numbers holds all of
them, `SubsetInduction` the same of the subsets of a finite set, and a lemma
applies them to the set of the values it is true of.  So a
changed value changes the sum by the difference, two values are bounded by it, and
the rows of an instantiation, when no address comes twice, have the sum of the balances that
they leave (`SumRenames`).
With these each handler has a lemma for its two writes (`MoveTokensSum`,
`BurnTokensSupply`, `MintSupply`, `InstantiateSupply`).  That no account holds more than there is
(`BalancesWithinSupply`) and that no credit overflows (`CreditsNeverOverflow`) follow: two balances are
part of a sum that is a `Uint128`.

`Cw20Authority` builds on `IInv` and proves the four action properties of the
contract (`DebitIsAuthorized`, `ApprovalIsAuthorized`, `MintingIsAuthorized`,
`MarketingIsAuthorized`) and `LogoIsNamed`.  Each has one lemma for its kind of
step, by cases on the handlers.  For
transfers to oneself `DebitStep` holds because the second write of `MoveTokens`
starts from the first.  The last part is the refinement, `ImplementsTokenLedger`.
`Created`, `Funds`, `Approvals` and `Issuer` name the four parts of the mapping;
`LedgerAuthority` shows that a deduction is what the ledger calls an authority,
`MoveTokensFunds` that two writes of one map are one payment, also
when both concern the same account, and one lemma per kind of message gives the
step of the ledger.  The amount zero is a case of its own: the ledger pays
nothing, and what the contract writes must be what was there.

`Cw20TransactionProofs` carries `IInv` and the sum of the balances through
transactions (`TxInv`).  Roll-back
needs that the storage to go back to is as good as the present one (`SavedInv`).
`ReceiptsAreBacked` needs that of all messages that wait only the
first can be a `Cw20ReceiveMsg` (`OutboxInv`): it was put there by the message that moved the tokens, and nothing
has run since.  `LossIsGranted` is not inductive: an account that has lost all it granted could
lose more, if its approvals were still there.  `GrantInv` adds that what it has lost and what
others may still spend of it are together no more than it granted, so each loss has
to lower an approval by as much; TLC checked that it is inductive on the
instance of `callbacks` before it was proved.
`TransactionsFollowLedger` is the refinement of `TokenLedger` with roll-back: a step
in a transaction is a step of the ledger, or it ends the transaction and takes the token back to
what it began with.

`PagingProofs` proves `NothingMissed` for any set of keys and any limits.  The
argument is that the entries that stayed and lie behind the cursor were seen:
a page is a set of smallest keys, so none lies between two of its own, and an
empty page means that none is left.  That of some keys one is the smallest is the well-foundedness of `<`.

`AdminMergeProofs` proves that the merge removes exactly the leavers and
ends with the list.  What is behind the index is smaller than every admin still to
be looked at (`SearchedIsBehind`), since both are visited in order; so a search of a
suffix finds what a search of the list would find.

`Cw1Proofs`: for the whitelist, `ListWithinRights` says that during a
transaction the list differs from the one it began with only if that one was
open and somebody in it has called; with it each step of the contract is a step of `AdminGroup` or
none (`WhitelistRefinesGroup`, `SubkeysRefinesGroup`).  For the subkeys `ChangesOnCalls` says
that inside a transaction anything can have changed only if an admin has called, and another contract
called or the contract is its own admin.  So in a transaction without an admin what was authorised at the beginning
still is when a message for others is sent, and who signs alone cannot change its own grants
(`SubkeysGrantsAreByOthers`) unless the contract is an admin of itself.  That is as far as
`CannotSetOwnAccount` goes: an admin contract that is called meanwhile may change the signer's
grants, and one that calls twice may make the contract its own admin in between, so the
statement makes an exception for both.  `ExpiredIsForgotten` rests on `WrittenIsLive`.
`Covers` goes through the coins of a message one after the other.  `CoversEach` proves, by
`NumberInduction` on the coins gone through, that
coins of different denominations do not compete: a message is covered just if the balance
has enough of each.  `SubkeysBatchesAreHonest` says so of the allowance query and messages of any
length; `QueriesAreHonest`, which the run checks, is the case of one coin, and of permissions.

`SylviaProofs` proves for any set of programs that are well formed
(`SylviaAssumption`), and any names of methods, that calls reach their method and that a name in JSON belongs to one
method.  Where the two namings of a method disagree, its message is read as no other method's: if serde's name is listed
by any block, it is by the method's own and for this method (`ListedByItsBlock`, from `NamesAssumption` and the overlap
check).  That a client is understood at all is stated and proved for messages whose name is listed by
their block (`Listed`); `comment_names` shows one that is not, and the panic of its proxy in a test is among
those that `PanicsAreForeign` allows.  `CallInv` follows a call from the client to the method.
`SubInv` follows its submessages: those that ran and those that are left are the method's, and the
replies so far are those that the former call for.  `PanicInv` follows the error: where responses are converted
the compiler has made sure that the contract's error is `StdError` (`ConversionFits`).

`NoIntersectionProofs` proves, for any number of sorted arrays of any finite
length, that no index leaves its array, that `done` means no shared name and
`panicked` means one, and that the unreachable arm is never reached.  The
invariant that carries it: every name that a cursor has passed differs from all
names of the other arrays, and, since the scan picked the smallest current name and
arrays are sorted, no name still ahead can be below it.

Every invariant and every action property of the passing runs is proved.  Only model-checked
are the liveness properties (`Terminates`, `ReadersFinish`): they rest on
fairness, and so on when an action is enabled, about which TLAPS cannot reason.

## Not modelled

* The byte scans of `validation.rs` (the XML preamble, the PNG header, the
  characters of a symbol): pure functions of one text, without any state;
  their verdict is the `format` of a logo.
* The `RefCell` of the multitest `App`, and what the builder methods of the proxies
  set (funds, label, admin), except that a call may be refused over it: one test runs one call at a time.
* The submessages of reply methods one by one, and so replies to these.
* The syntax helpers of `sylvia-derive` (`strip_generics`, `strip_input`, `check_generics`, `fold.rs`,
  `utils.rs`), and generics, where clauses and schemas in what it emits: they decide
  nothing that messages depend on.
* The examples `custom` and `entry-points-overriding`: counters that show attributes
  and entry points which `SylviaContract` has.
* `cw4`: an interface without an implementation here.

What is left to do: the byte scans against reference definitions; what a bank
message that names a denomination twice takes from an allowance, for
which `CoversEach` has to count the coins of one denomination together.

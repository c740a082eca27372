----------------------------- MODULE TokenLedger -----------------------------
(***************************************************************************)
(* What a token with allowances promises its holders: who may move, create *)
(* and destroy tokens.  It knows one map of approvals and no total supply, *)
(* and nothing of versions, entries of zero, caps or marketing.            *)
(***************************************************************************)
EXTENDS Integers

CONSTANTS
  Addr,    \* the parties
  None,    \* no party
  Never    \* the deadline of an approval without one

VARIABLES
  created,   \* whether the token exists
  funds,     \* what each party owns
  approved,  \* approved[o][s]: what o lets s spend, and until when
  issuer,    \* who may create tokens, None when nobody ever will
  now,       \* block height
  caller     \* who signed the last message

ledgerVars == <<created, funds, approved, issuer, now, caller>>

Nothing == [allowance |-> 0, expires |-> Never]

Init ==
  created \/ /\ funds = [a \in Addr |-> 0]
             /\ approved = [o \in Addr |-> [s \in Addr |-> Nothing]]

Create ==
  /\ ~created
  /\ created'
  /\ UNCHANGED <<approved, now>>

-----------------------------------------------------------------------------
\* A live approval covers amount.
Covers(approval, amount) ==
  /\ approval.expires = Never \/ approval.expires > now
  /\ amount <= approval.allowance

\* The caller owns the tokens, or uses up its approval to spend them.
Authority(owner, amount) ==
  \/ caller' = owner /\ UNCHANGED approved
  \/ \E s \in Addr :
       /\ caller' = s
       /\ Covers(approved[owner][s], amount)
       /\ approved' = [approved EXCEPT ![owner][s].allowance = @ - amount]

\* Tokens of from become tokens of to.
Pay(from, to, amount) ==
  LET taken == [funds EXCEPT ![from] = @ - amount]
  IN  /\ Authority(from, amount)
      /\ amount <= funds[from]
      /\ funds' = [taken EXCEPT ![to] = @ + amount]
      /\ UNCHANGED <<issuer, now>>

Destroy(from, amount) ==
  /\ Authority(from, amount)
  /\ amount <= funds[from]
  /\ funds' = [funds EXCEPT ![from] = @ - amount]
  /\ UNCHANGED <<issuer, now>>

Issue(to, amount) ==
  /\ issuer # None
  /\ caller' = issuer
  /\ funds' = [funds EXCEPT ![to] = @ + amount]
  /\ UNCHANGED <<approved, issuer, now>>

HandOver ==
  /\ issuer # None
  /\ caller' = issuer
  /\ issuer' \in Addr \cup {None}
  /\ UNCHANGED <<funds, approved, now>>

\* The caller lets another party spend anything it likes, until it likes.
Approve(s) ==
  /\ caller' \in Addr \ {s}
  /\ \A o, t \in Addr : <<o, t>> # <<caller', s>> => approved'[o][t] = approved[o][t]
  /\ UNCHANGED <<funds, issuer, now>>

\* Time passes, or a message has no effect on the ledger.
Idle ==
  /\ now' >= now
  /\ UNCHANGED <<funds, approved, issuer>>

Next ==
  \/ Create
  \/ /\ UNCHANGED created
     /\ \/ Idle
        \/ created /\ \/ \E a, b \in Addr : \E n \in 1 .. funds[a] : Pay(a, b, n) \/ Destroy(a, n)
                      \/ \E a \in Addr : funds'[a] > funds[a] /\ Issue(a, funds'[a] - funds[a])
                      \/ \E s \in Addr : Approve(s)
                      \/ HandOver

Spec == Init /\ [][Next]_ledgerVars
=============================================================================

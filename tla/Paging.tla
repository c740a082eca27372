-------------------------------- MODULE Paging --------------------------------
(***************************************************************************)
(* The queries of the contracts that list a map page by page: all_allowan- *)
(* ces, all_spender_allowances and all_accounts of cw20-base, and          *)
(* all_allowances and all_permissions of cw1-subkeys.  A client reads the  *)
(* whole map: it asks for the page after the last key it was given, until  *)
(* a page is empty.  Between two pages messages add and remove entries.    *)
(*                                                                         *)
(* A store maps a key to the deadline of its entry, or to None where there *)
(* is no entry; an entry without a deadline has Never.                     *)
(***************************************************************************)
EXTENDS Integers, FiniteSets

CONSTANTS
  Keys,          \* the addresses that may have an entry, in the order of their bytes
  None,          \* Option::None
  Never,         \* Expiration::Never
  Expirations,   \* the deadlines that messages carry
  MaxHeight,     \* bound: the last block height that is explored
  Requests,      \* the limits that clients ask for
  DefaultLimit,  \* DEFAULT_LIMIT
  MaxLimit       \* MAX_LIMIT

\* A client that asks for pages of no entries is told nothing.
ASSUME PagingAssumption ==
  /\ Keys \subseteq Nat /\ IsFiniteSet(Keys)
  /\ None \notin Nat \cup {Never}
  /\ Expirations \subseteq Nat /\ Never \notin Nat
  /\ MaxHeight \in Nat
  /\ Requests \subseteq (Nat \ {0}) \cup {None}
  /\ DefaultLimit \in Nat \ {0} /\ MaxLimit \in Nat \ {0}

VARIABLES
  query,   \* the query the client uses
  store,   \* the map it lists
  height,  \* env.block.height
  cursor,  \* start_after of its next request
  seen,    \* the keys it was given
  done,    \* it was given an empty page
  steady   \* the keys that were listed all along, since it began

vars == <<query, store, height, cursor, seen, done, steady>>

Queries == {"all_allowances", "all_spender_allowances", "all_accounts",
            "subkeys_all_allowances", "subkeys_all_permissions"}

\* cw1-subkeys leaves expired allowances out of its list.
HidesExpired == query = "subkeys_all_allowances"

\* Nothing removes a balance or permissions.
Removable == query \notin {"all_accounts", "subkeys_all_permissions"}

\* An allowance has a deadline; the other list that hides nothing by it.
Deadlines == IF HidesExpired THEN Expirations \cup {Never} ELSE {Never}

-----------------------------------------------------------------------------
IsExpired(expires) == expires # Never /\ expires <= height

Stored == {k \in Keys : store[k] # None}
Listed == {k \in Stored : HidesExpired => ~ IsExpired(store[k])}

\* calc_limit
Limit(request) ==
  LET asked == IF request = None THEN DefaultLimit ELSE request
  IN  IF asked <= MaxLimit THEN asked ELSE MaxLimit

\* Mutant: the page starts at the key the last one ended with.
BeyondInclusive(k) == cursor # None => k >= cursor

\* The range after Bound::Exclusive.
Beyond(k) == cursor # None => k > cursor

\* Mutant: take comes before filter.
PageTakesFirst(limit) ==
  {k \in Listed : Beyond(k) /\ Cardinality({j \in Stored : Beyond(j) /\ j < k}) < limit}

\* range, filter, take: the first entries that are listed after start_after.
Page(limit) ==
  {k \in Listed : Beyond(k) /\ Cardinality({j \in Listed : Beyond(j) /\ j < k}) < limit}

Read ==
  /\ ~ done
  /\ \E request \in Requests :
       LET page == Page(Limit(request))
       IN  /\ seen' = seen \cup page
           /\ \/ page = {} /\ done' = TRUE /\ UNCHANGED cursor
              \/ \E last \in page :
                   /\ \A k \in page : k <= last
                   /\ cursor' = last
                   /\ UNCHANGED done
  /\ UNCHANGED <<query, store, height, steady>>

-----------------------------------------------------------------------------
(***************************************************************************)
(* What happens between two pages.                                         *)
(***************************************************************************)

\* What was listed all along still has to be.
StillListed == steady' = steady \cap Listed'

\* An entry is saved, new or again, with a deadline that has not passed.
Put ==
  /\ \E k \in Keys, expires \in Deadlines :
       /\ ~ IsExpired(expires)
       /\ store' = [store EXCEPT ![k] = expires]
  /\ UNCHANGED <<query, height, cursor, seen, done>>
  /\ StillListed

\* decrease_allowance, which cw1-subkeys refuses for an expired one.
Remove ==
  /\ Removable
  /\ \E k \in Listed : store' = [store EXCEPT ![k] = None]
  /\ UNCHANGED <<query, height, cursor, seen, done>>
  /\ StillListed

NextBlock ==
  /\ height < MaxHeight
  /\ height' = height + 1
  /\ UNCHANGED <<query, store, cursor, seen, done>>
  /\ StillListed

Init ==
  /\ query \in Queries
  /\ store \in [Keys -> Deadlines \cup {None}]
  /\ height = 0
  /\ cursor = None
  /\ seen = {}
  /\ done = FALSE
  /\ steady = Listed

Next == Read \/ Put \/ Remove \/ NextBlock

\* A client that reads a map goes on until it was given all of it, and a
\* query is always answered.
Spec == Init /\ [][Next]_vars /\ WF_vars(Read)

-----------------------------------------------------------------------------
(***************************************************************************)
(* Correctness.                                                            *)
(***************************************************************************)
TypeOK ==
  /\ query \in Queries
  /\ store \in [Keys -> Deadlines \cup {None}]
  /\ height \in 0 .. MaxHeight
  /\ cursor \in Keys \cup {None}
  /\ seen \subseteq Keys
  /\ done \in BOOLEAN
  /\ steady \subseteq Listed

\* A client that has read to the end was given every entry that was listed
\* all the time it read, whatever was added, removed and expired meanwhile.
NothingMissed == done => steady \subseteq seen

\* However the map changes, the client reaches the end.
ReadersFinish == <>done
=============================================================================

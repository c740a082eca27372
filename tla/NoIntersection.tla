---------------------------- MODULE NoIntersection ----------------------------
(***************************************************************************)
(* sylvia::utils::assert_no_intersection: the check, run by the compiler   *)
(* on the message names of a contract and of the interfaces it implements, *)
(* that no name occurs in two of those lists.                              *)
(*                                                                         *)
(* A message name is an integer: only the order of names matters.  Arrays  *)
(* and their elements are numbered from 1.  The loop of the function, and  *)
(* the two loops that it calls, take one step of the machine an iteration. *)
(***************************************************************************)
EXTENDS Integers, Sequences

CONSTANTS
  N,       \* the number of arrays
  Inputs   \* the values of msgs

Arrays == 1 .. N

Sorted(s) == \A j, k \in DOMAIN s : j <= k => s[j] <= s[k]

\* "Requires sorted arrays to work."
ASSUME NoIntersectionAssumption ==
  /\ N \in Nat
  /\ \A m \in Inputs :
       /\ m \in [Arrays -> Seq(Int)]
       /\ \A a \in Arrays : Sorted(m[a])

VARIABLES
  msgs,    \* the parameter
  states,  \* the State of each array
  pc,      \* the loop that runs, or how the function ended
  i,       \* the counter of the inner loop
  index    \* output_index, then the index it returned

vars == <<msgs, states, pc, i, index>>

Empty       == [tag |-> "Empty", at |-> 0]
Ongoing(w)  == [tag |-> "Ongoing", at |-> w]
Finished(w) == [tag |-> "Finished", at |-> w]

IsOngoing(a) == states[a].tag = "Ongoing"

\* The message an array that is not empty is at.
Current(a) == msgs[a][states[a].at]

-----------------------------------------------------------------------------
\* init_states
Init ==
  /\ msgs \in Inputs
  /\ states = [a \in Arrays |-> IF msgs[a] = <<>> THEN Empty ELSE Ongoing(1)]
  /\ pc = "loop"
  /\ i = 1
  /\ index = 1

ShouldEnd == \A a \in Arrays : ~IsOngoing(a)

Loop ==
  /\ pc = "loop"
  /\ pc' = IF ShouldEnd THEN "done" ELSE "scan"
  /\ i' = 1
  /\ index' = 1
  /\ UNCHANGED <<msgs, states>>

\* Mutant: the scan looks for the largest name.
PrecedesReversed(a, b) == ~IsOngoing(b) \/ Current(b) < Current(a)

\* Mutant: the array the scan starts from is taken to be ongoing.
PrecedesUnchecked(a, b) == states[b].tag = "Ongoing" /\ Current(b) > Current(a)

\* The ongoing array a goes before b, the best one so far.
Precedes(a, b) == ~IsOngoing(b) \/ Current(b) > Current(a)

\* get_next_alphabetical_index
Scan ==
  /\ pc = "scan"
  /\ IF i > N
     THEN pc' = "verify" /\ i' = 1 /\ UNCHANGED index
     ELSE /\ index' = IF IsOngoing(i) /\ Precedes(i, index) THEN i ELSE index
          /\ i' = i + 1
          /\ UNCHANGED pc
  /\ UNCHANGED <<msgs, states>>

\* Mutant: an array is compared with itself.
CollidesWithItself(a) == states[a] # Empty /\ IsOngoing(index) /\ Current(a) = Current(index)

Collides(a) ==
  /\ a # index
  /\ states[a] # Empty
  /\ IsOngoing(index)
  /\ Current(a) = Current(index)

\* verify_no_collissions
Verify ==
  /\ pc = "verify"
  /\ IF i > N
     THEN pc' = "advance" /\ i' = 1
     ELSE IF Collides(i)
          THEN pc' = "panicked" /\ UNCHANGED i
          ELSE i' = i + 1 /\ UNCHANGED pc
  /\ UNCHANGED <<msgs, states, index>>

\* Mutant: an exhausted array stays ongoing, at its last message.
AdvancedStuck(a) ==
  IF Len(msgs[a]) = states[a].at THEN states[a] ELSE Ongoing(states[a].at + 1)

\* Mutant: the last message is compared one step too late.
AdvancedPastEnd(a) ==
  IF Len(msgs[a]) < states[a].at THEN Finished(states[a].at) ELSE Ongoing(states[a].at + 1)

Advanced(a) ==
  IF Len(msgs[a]) = states[a].at THEN Finished(states[a].at) ELSE Ongoing(states[a].at + 1)

Advance ==
  /\ pc = "advance"
  /\ IF IsOngoing(index)
     THEN pc' = "loop" /\ states' = [states EXCEPT ![index] = Advanced(index)]
     ELSE pc' = "unreachable" /\ UNCHANGED states
  /\ UNCHANGED <<msgs, i, index>>

Next == Loop \/ Scan \/ Verify \/ Advance

Spec == Init /\ [][Next]_vars

\* The compiler evaluates the function until it returns or panics.
FairSpec == Spec /\ WF_vars(Next)

-----------------------------------------------------------------------------
\* Cursors stay inside their arrays: none of the indexings panics.
TypeOK ==
  /\ msgs \in Inputs
  /\ states \in [Arrays -> [tag: {"Empty", "Ongoing", "Finished"}, at: Nat]]
  /\ \A a \in Arrays :
       IF msgs[a] = <<>> THEN states[a] = Empty
                         ELSE states[a].tag # "Empty" /\ states[a].at \in 1 .. Len(msgs[a])
  /\ pc \in {"loop", "scan", "verify", "advance", "done", "panicked", "unreachable"}
  /\ i \in 1 .. N + 1
  /\ index \in Nat /\ (pc \in {"scan", "verify", "advance"} => index \in Arrays)

\* One name occurs in two arrays.
Overlap ==
  \E a, b \in Arrays : a # b /\ \E j \in DOMAIN msgs[a], k \in DOMAIN msgs[b] : msgs[a][j] = msgs[b][k]

\* A contract that compiles has no message in two of its interfaces, so that
\* dispatch can tell by its name where a message goes.  Each name is compared
\* with one name of every other array; that this suffices hangs on the order.
AcceptsOnlyDisjoint == pc = "done" => ~Overlap

\* A contract is rejected only for a name that does occur twice.
RejectsOnlyOverlap == pc = "panicked" => Overlap

\* The unreachable!() arm is never taken: the scan ends on an ongoing array,
\* although it starts from one that may be empty or finished.
ScanFindsOngoing == pc # "unreachable"

\* The evaluation ends, so the compiler does not run into its step limit for
\* want of progress.
Terminates == <>(pc \in {"done", "panicked"})
=============================================================================

------------------------------ MODULE Resolver ------------------------------
(***************************************************************************)
(* cbom.py, _Estate.is_vulnerable: which components of a bill of materials *)
(* rest on a quantum-vulnerable algorithm.  A certificate, key or protocol *)
(* is resolved by a depth-first search through its references, which stops *)
(* at the first vulnerable one; verdicts are memoised for the whole file,  *)
(* and a reference into the path being resolved counts as safe.            *)
(*                                                                         *)
(* The recursion is an explicit stack of frames [ref, next].  Algorithms   *)
(* and components of unknown type are leaves, whose own properties decide  *)
(* (Components).                                                           *)
(***************************************************************************)
EXTENDS Components, FiniteSets

VARIABLES
  bom,      \* the file, never written
  polled,   \* number of components polled so far, in order
  stack,    \* frames of the recursion, innermost last
  memo      \* _vuln_memo: ref -> BOOLEAN

resolverVars == <<bom, polled, stack, memo>>

Known == KnownIn(bom)
Refs(r) == bom.comp[r].refs
Frame(r) == [ref |-> r, next |-> 1]
Top == Last(stack)
Visiting == {f.ref : f \in ToSet(stack)}

Remember(r, verdict) ==
  memo' = [x \in DOMAIN memo \cup {r} |-> IF x = r THEN verdict ELSE memo[x]]

-----------------------------------------------------------------------------
NothingResolved ==
  /\ polled = 0
  /\ stack = <<>>
  /\ memo = [r \in {} |-> FALSE]

\* {ref for ref in by_ref if is_vulnerable(ref)}: the next component
Ask ==
  /\ stack = <<>> /\ polled < Len(bom.order)
  /\ polled' = polled + 1
  /\ LET r == bom.order[polled + 1]
     IN  stack' = IF r \in DOMAIN memo THEN <<>> ELSE <<Frame(r)>>
  /\ UNCHANGED <<bom, memo>>

\* the verdict on a reference that needs no frame of its own
Quick(r) == r \in DOMAIN memo \/ r \in Visiting \/ r \notin Known
Verdict(r) == r \in DOMAIN memo /\ memo[r]

Return(verdict) ==
  /\ Remember(Top.ref, verdict)
  /\ stack' = Front(stack)

\* mutant: every leaf is vulnerable
Leaf_Default ==
  /\ stack # <<>> /\ Refs(Top.ref) = <<>>
  /\ Return(TRUE)
  /\ UNCHANGED <<bom, polled>>

Leaf ==
  /\ stack # <<>> /\ Refs(Top.ref) = <<>>
  /\ Return(Weak(bom, Top.ref))
  /\ UNCHANGED <<bom, polled>>

\* any(): the next reference is looked up, resolved, or ends the search
Look ==
  /\ stack # <<>> /\ Top.next <= Len(Refs(Top.ref))
  /\ LET r == Refs(Top.ref)[Top.next]
     IN  IF ~Quick(r)
         THEN stack' = Append(stack, Frame(r)) /\ UNCHANGED memo
         ELSE IF Verdict(r)
         THEN Return(TRUE)
         ELSE /\ stack' = [stack EXCEPT ![Len(stack)].next = @ + 1]
              /\ UNCHANGED memo
  /\ UNCHANGED <<bom, polled>>

\* mutant: only the first reference of a component counts
Exhausted_Early ==
  /\ stack # <<>> /\ Refs(Top.ref) # <<>>
  /\ Top.next > 1
  /\ Return(FALSE)
  /\ UNCHANGED <<bom, polled>>

\* no reference is vulnerable
Exhausted ==
  /\ stack # <<>> /\ Refs(Top.ref) # <<>>
  /\ Top.next > Len(Refs(Top.ref))
  /\ Return(FALSE)
  /\ UNCHANGED <<bom, polled>>

Resolved == stack = <<>> /\ polled = Len(bom.order)

-----------------------------------------------------------------------------
(* Properties *)

Links == {e \in Known \X Known : e[2] \in ToSet(Refs(e[1]))}

\* the components r refers to through Links, r included
Reach(r) ==
  LET grow(S) == S \cup {b \in Known : \E a \in S : <<a, b>> \in Links}
  IN  FoldLeft(LAMBDA S, x : grow(S), {r}, bom.order)

Acyclic == \A e \in Links : e[1] \notin Reach(e[2])

(***************************************************************************)
(* cbom.py:321-327: in a file without reference cycles every verdict       *)
(* memoised on the way, for whichever component and in whichever order, is *)
(* the transitive one.                                                     *)
(***************************************************************************)
MemoIsTransitive ==
  Acyclic => \A r \in DOMAIN memo : memo[r] <=> \E x \in Reach(r) : Weak(bom, x)

(***************************************************************************)
(* cbom.py:324-325, cycles included: cutting a cycle can only lose assets. *)
(* A component that is kept rests on a weak algorithm through components   *)
(* that are all kept as well.                                              *)
(***************************************************************************)
NoFalseAlarm ==
  \A r \in DOMAIN memo : memo[r] =>
    \/ Weak(bom, r)
    \/ \E b \in ToSet(Refs(r)) : b \in DOMAIN memo /\ memo[b]

(***************************************************************************)
(* cbom.py:335, "cycle or dangling ref: do not memoize a partial result":  *)
(* no verdict that was reached by cutting a cycle is remembered.           *)
(***************************************************************************)
NoPartialResultMemoized ==
  \A r \in DOMAIN memo : memo[r] <=> \E x \in Reach(r) : Weak(bom, x)

=============================================================================

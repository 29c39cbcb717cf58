-------------------------- MODULE InOrderExecution --------------------------
(***************************************************************************)
(* What authenticated commanding promises: the satellite executes commands *)
(* the operator issued, each at most once and in the order of issue.       *)
(* Commands may be skipped (lost on the link), never repeated, reordered,  *)
(* altered or invented.                                                    *)
(***************************************************************************)
EXTENDS Integers, Sequences

VARIABLES issued,     \* the commands, in the order of issue
          executed    \* the executed ones: their content and place of issue

vars == <<issued, executed>>

Init == issued = << >> /\ executed = << >>

LastPlace == IF executed = << >> THEN 0 ELSE executed[Len(executed)].place

Issue ==
  /\ Len(issued') = Len(issued) + 1
  /\ SubSeq(issued', 1, Len(issued)) = issued
  /\ UNCHANGED executed

Execute ==
  \E i \in (LastPlace + 1)..Len(issued) :
    /\ executed' = Append(executed, [place |-> i, command |-> issued[i]])
    /\ UNCHANGED issued

Next == Issue \/ Execute

Spec == Init /\ [][Next]_vars

=============================================================================

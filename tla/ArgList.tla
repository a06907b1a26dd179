------------------------------ MODULE ArgList -------------------------------
(***************************************************************************)
(* What a dynamic call promises, without registers or stacks ("bind        *)
(* argument parameters from left to right and then call", dyncall.3): the  *)
(* caller keeps a list of arguments, a call gives the target the list as   *)
(* it is then, and the target fetches the list's elements in order.        *)
(***************************************************************************)
EXTENDS Naturals, Sequences

CONSTANT Values

VARIABLES
  list,    \* the arguments bound since the last reset
  active   \* the calls in progress: what each was given and has fetched

avars == <<list, active>>

Init == list = <<>> /\ active = <<>>

Bind(v) == list' = Append(list, v) /\ UNCHANGED active

Clear == list' = <<>> /\ UNCHANGED active

Call ==
  /\ active' = Append(active, [given |-> list, got |-> <<>>])
  /\ UNCHANGED list

Fetch ==
  /\ active # <<>>
  /\ LET top == active[Len(active)] IN
       /\ Len(top.got) < Len(top.given)
       /\ active' = [active EXCEPT ![Len(active)].got =
                                     Append(@, top.given[Len(top.got) + 1])]
  /\ UNCHANGED list

Leave ==
  /\ active # <<>>
  /\ active' = SubSeq(active, 1, Len(active) - 1)
  /\ UNCHANGED list

Next == (\E v \in Values : Bind(v)) \/ Clear \/ Call \/ Fetch \/ Leave

Spec == Init /\ [][Next]_avars
=============================================================================

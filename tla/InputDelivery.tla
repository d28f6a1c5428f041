--------------------------- MODULE InputDelivery ---------------------------
(***************************************************************************)
(* What an input sink (IInputSink, idd/LGIdd/input) promises about the     *)
(* keyboard: the reports it accepts reach the guest in order, reports may  *)
(* be lost only from the end of what is pending, and after a loss nothing  *)
(* reaches the guest before a report with no key in it does.  InputPipe is *)
(* shown to implement this specification.                                  *)
(***************************************************************************)
EXTENDS Integers, Sequences

CONSTANT Contents       \* what a keyboard report can hold: sets of keys

Neutral == {}

VARIABLES
  pend,     \* keyboard reports on their way to the guest, oldest first
  guest,    \* the keys the guest sees held
  gap       \* reports were lost and the neutral report is still owed

vars == <<pend, guest, gap>>

Init ==
  /\ pend  = << >>
  /\ guest = Neutral
  /\ gap   = TRUE

Submit(k) ==
  /\ ~gap
  /\ pend' = Append(pend, k)
  /\ UNCHANGED <<guest, gap>>

Deliver ==
  /\ pend # << >>
  /\ guest' = Head(pend)
  /\ pend'  = Tail(pend)
  /\ UNCHANGED gap

(* A report equal to the one before it says nothing new.                   *)
Merge(i) ==
  /\ pend[i] = pend[i + 1]
  /\ pend' = SubSeq(pend, 1, i) \o SubSeq(pend, i + 2, Len(pend))
  /\ UNCHANGED <<guest, gap>>

(* The newest reports are lost, all but the first n.                       *)
Lose(n) ==
  /\ pend' = SubSeq(pend, 1, n)
  /\ gap'  = TRUE
  /\ UNCHANGED guest

(* ... and a report with no key in it follows what is left.                *)
Neutralise(n) ==
  /\ pend' = Append(SubSeq(pend, 1, n), Neutral)
  /\ gap' \in BOOLEAN
  /\ UNCHANGED guest

(* ... or reaches a guest that waits for it at once; the reset may be      *)
(* repeated.                                                               *)
Release ==
  /\ pend' \in {<< >>, <<Neutral>>}
  /\ guest' = Neutral
  /\ gap' \in BOOLEAN

Next ==
  \/ \E k \in Contents : Submit(k)
  \/ Deliver
  \/ \E i \in 1..Len(pend) - 1 : Merge(i)
  \/ \E n \in 0..Len(pend) : Lose(n) \/ Neutralise(n)
  \/ Release

Spec == Init /\ [][Next]_vars

=============================================================================

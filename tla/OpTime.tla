------------------------------- MODULE OpTime -------------------------------
(***************************************************************************)
(* Positions in a replica set's log (OpTime, harness/converge.go).         *)
(***************************************************************************)
EXTENDS Naturals

(* OpTime.Compare: by term, then seconds, then increment. *)
Less(a, b) ==
  \/ a.t < b.t
  \/ a.t = b.t /\ a.s < b.s
  \/ a.t = b.t /\ a.s = b.s /\ a.i < b.i

AtLeast(a, b) == ~Less(a, b)

(* OpTime.IsZero does not look at the term. *)
IsZero(o) == o.s = 0 /\ o.i = 0

(* A MemberProgress that was never filled in has the zero position. *)
NoProgress == [t |-> 0, s |-> 0, i |-> 0]
=============================================================================

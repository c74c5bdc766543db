------------------------------ MODULE Outcomes ------------------------------
(***************************************************************************)
(* The functions of the HAL as operators from a state s to the set of      *)
(* their outcomes [s, ok, val]: the state they leave, whether they report  *)
(* success, and what they read.  A function is the composition of its      *)
(* calls; each may fail.                                                   *)
(***************************************************************************)
EXTENDS Integers, Sequences, SequencesExt

Result(s, ok) == [s |-> s, ok |-> ok, val |-> <<0, 0>>]
Fails(s) == {Result(s, FALSE)}
Succeeds(s) == {Result(s, TRUE)}

\* f applied to every outcome of outs that succeeded (if (err) return err).
Then(outs, f(_)) == UNION {IF o.ok THEN f(o) ELSE {o} : o \in outs}
AndThen(outs, f(_)) == UNION {IF o.ok THEN f(o.s) ELSE {o} : o \in outs}

\* f applied to every outcome, the errors accumulated (err |= f()).
Also(outs, f(_)) == UNION {{[p EXCEPT !.ok = @ /\ o.ok] : p \in f(o.s)} : o \in outs}

\* f applied to every outcome, its result kept and the earlier ones forgotten.
Anyway(outs, f(_)) == UNION {f(o.s) : o \in outs}

\* The outcomes of a call nobody looks at the result of.
Ignoring(outs) == {[o EXCEPT !.ok = TRUE] : o \in outs}

=============================================================================

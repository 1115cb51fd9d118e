------------------------------- MODULE Lists -------------------------------
(***************************************************************************)
(* The loops of the managers and of the validation runtime that go through *)
(* a list and take over the entries that pass a test.                      *)
(***************************************************************************)
EXTENDS Naturals, Sequences, SequencesExt

\* The entries of s that pass, in order.  SelectSeq says the same; this form
\* is one that can be reasoned about, since FlattenSeq has a definition.
Selected(s, Passes(_)) ==
    FlattenSeq([k \in DOMAIN s |-> IF Passes(s[k]) THEN <<s[k]>> ELSE <<>>])

\* A sequence, of whatever its entries are.
IsSequence(s) == s \in Seq(ToSet(s))
============================================================================

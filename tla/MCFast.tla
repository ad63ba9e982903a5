------------------------------- MODULE MCFast -------------------------------
(***************************************************************************)
(* The bot of the fast bridge: a confirmation on each chain; limits that one transfer fits and *)
(* two in one direction exceed; a window is one step of time.  Stories of  *)
(* two transfers, or of one with a crash, a lost answer, a reorganisation  *)
(* or a sweep.  MCFastTwice: one transfer to Ethereum, and no fault.       *)
(***************************************************************************)
EXTENDS FastBridge

MCFloat == [c \in Chain |-> IF c = "eth" THEN 3 ELSE 4]
MCMaxStock == [c \in Chain |-> 5]
MCConfirmations == [c \in Chain |-> 1]
\* Two transfers, or one with a fault or a sweep; gas is steady in a story of
\* two, or with a fault.
Short ==
  LET met == {s \in Transfer : at[s] # 0 \/ Has(book, s) \/ Has(disk, s)}
      sweeps == {t \in known : t.for = Cold}
  IN /\ tip["eth"] + tip["molibra"] + Cardinality(met) <= 5
     /\ Cardinality(met) + faults >= 2 /\ tick # None => tick.gas = 1
     /\ 2 * Cardinality(met) + faults + 2 * Cardinality(sweeps) <= 4
Symmetry == Permutations(Transfer)
=============================================================================

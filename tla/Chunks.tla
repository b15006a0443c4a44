------------------------------- MODULE Chunks -------------------------------
(***************************************************************************)
(* chunk_text of knowledge/ingest.py: a text with its white space           *)
(* normalised, cut into windows of size characters that start every step     *)
(* characters.  Of a text only its length matters.                         *)
(***************************************************************************)
EXTENDS Integers

(* Mutant: the windows do not overlap. *)
StepWithoutOverlap(size, overlap) == IF size > 1 THEN size ELSE 1

(* max(size - overlap, 1)                                                   *)
Step(size, overlap) == IF size - overlap > 1 THEN size - overlap ELSE 1

(* len(range(0, length, step)): no window of an empty text.                 *)
PieceCount(length, size, overlap) ==
  (length + Step(size, overlap) - 1) \div Step(size, overlap)

(* text[i : i + size], as the offsets of the characters it holds.           *)
Window(piece, length, size, overlap) ==
  LET first == piece * Step(size, overlap) IN
  {offset \in first .. first + size - 1 : offset < length}

(* The characters from one offset to another are whole in one of the pieces. *)
WholeIn(pieces, first, last, length, size, overlap) ==
  \E piece \in pieces : first .. last \subseteq Window(piece, length, size, overlap)
=============================================================================

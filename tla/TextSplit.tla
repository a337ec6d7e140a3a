------------------------------ MODULE TextSplit ------------------------------
(***************************************************************************)
(* split_document() of workload/document/split.py: where the pieces of the *)
(* library's splitter start in the text.  A text is a sequence of          *)
(* characters, a place in it a number from 0; the pieces are given.        *)
(***************************************************************************)
EXTENDS Integers, Sequences, SequencesExt, FiniteSetsExt

(* str.find(): the first place not before from, or -1. *)
Find(text, piece, from) ==
  LET places == {p \in from..(Len(text) - Len(piece)) :
                   SubSeq(text, p + 1, p + Len(piece)) = piece}
  IN IF places = {} THEN -1 ELSE Min(places)

(* From the cursor on, else anywhere, else the cursor. *)
Place(text, piece, cursor) ==
  IF Find(text, piece, cursor) >= 0 THEN Find(text, piece, cursor)
  ELSE IF Find(text, piece, 0) >= 0 THEN Find(text, piece, 0) ELSE cursor

(* Bug: the cursor is set to the end of the piece, overlap or not.         *)
CursorsBug(text, pieces) ==
  LET cursor[i \in 0..Len(pieces)] ==
        IF i = 0 THEN 0
        ELSE Max({cursor[i - 1],
                  Place(text, pieces[i], cursor[i - 1]) + Len(pieces[i])})
  IN cursor

(* The cursor after each piece. *)
Cursors(text, pieces) ==
  LET cursor[i \in 0..Len(pieces)] ==
        IF i = 0 THEN 0
        ELSE Max({cursor[i - 1], Place(text, pieces[i], cursor[i - 1]) + 1})
  IN cursor

(* The starts of the pieces in order; an end is a start plus a length. *)
Starts(text, pieces) ==
  [i \in DOMAIN pieces |-> Place(text, pieces[i], Cursors(text, pieces)[i - 1])]
=============================================================================

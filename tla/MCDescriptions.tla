--------------------------- MODULE MCDescriptions ---------------------------
(***************************************************************************)
(* Contents of .sd files for Descriptions.                                 *)
(***************************************************************************)
EXTENDS Descriptions, TLC

NameSymmetry == Permutations(Names)

Stream(f, p, k) == [file |-> f, priority |-> p, kind |-> k]
Content(m, s) == [multicast |-> m, streams |-> s]

\* Two good files, one whose second stream does not parse, one without streams,
\* one whose encoding nobody reads.
FiveContents ==
  {Content(FALSE, <<Stream("a", 1, "valid"), Stream("b", 2, "valid")>>),
   Content(TRUE, <<Stream("b", 1, "valid")>>),
   Content(FALSE, <<Stream("a", 1, "valid"), Stream("b", 2, "invalid")>>),
   Content(FALSE, << >>),
   Content(FALSE, <<Stream("a", 1, "unsupported")>>)}
=============================================================================

----------------------------- MODULE Reference -----------------------------
(***************************************************************************)
(* The tree of a document's bytes, as tests/reference.py parses it.        *)
(***************************************************************************)
EXTENDS Walk, JsonTree
-----------------------------------------------------------------------------
(* parse(): the tree of a valid document and where its text ends.          *)

RECURSIVE Parse(_, _), ParseMembers(_, _, _), ParseElements(_, _, _)

Parsed(tree, at) == [tree |-> tree, at |-> at]

Parse(d, i) ==
  CASE d[i + 1] = LBrace   -> ParseMembers(d, NextObject(d, i), <<>>)
    [] d[i + 1] = LBracket -> ParseElements(d, NextArray(d, i), <<>>)
    [] OTHER -> LET end == ScalarEnd(d, i).at
                IN  Parsed(Scalar(Slice(d, i, end)), end)

ParseMembers(d, entry, members) ==
  IF ~entry.some THEN Parsed(Object(members), entry.at)
  ELSE LET v == Parse(d, Ws(d, entry.at))
       IN  ParseMembers(d, NextKey(d, v.at),
                        Append(members, Member(entry.name, v.tree)))

ParseElements(d, el, elements) ==
  IF ~el.some THEN Parsed(Array(elements), el.at)
  ELSE LET v == Parse(d, el.at)
       IN  ParseElements(d, ArrayStep(d, v.at), Append(elements, v.tree))

Tree(d) == Parse(d, Ws(d, 0)).tree

=============================================================================

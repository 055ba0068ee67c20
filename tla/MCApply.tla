------------------------------ MODULE MCApply ------------------------------
(***************************************************************************)
(* apply_stream on a few sources, read in pieces of every size.            *)
(***************************************************************************)
EXTENDS ApplyStream, Documents, WholeDocument

MCSpecs == { SObject(OnlyA(SKeep)), SExclude(OnlyA(SDiscard)) }

MCObject == Obj(<<Mem(Key(a), Num(1)), Mem(Key(b), Arr(<<Num(2)>>))>>)

MCSources ==
  { <<>>, <<LBracket, RBracket>>, MCObject \o <<10>>, MCObject \o <<LBrace>>,
    Missing(MCObject, Len(MCObject)),
    Obj(<<Mem(Key(b), Arr(<<Arr(<<Num(0)>>)>>))>>),
    Obj(<<Mem(<<Quote, 255, Quote>>, Num(0))>>) }
=============================================================================

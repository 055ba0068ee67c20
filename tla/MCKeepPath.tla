----------------------------- MODULE MCKeepPath -----------------------------
(* Values for the run of KeepPath: derived specs with and without arrays,  *)
(* with a dict under two keys, and adapters of two fields.                 *)
EXTENDS KeepPath

CONSTANTS a, b, root, d1, d2, d3, d4, f, g

MCKeys  == {a, b, Everything}
MCDicts == {root, d1, d2, d3, d4}

Empty     == [k \in MCKeys |-> Absent]
Derived(h) ==
  [ heap |-> [d \in MCDicts |-> IF d \in DOMAIN h THEN h[d] ELSE Empty],
    used |-> DOMAIN h ]
Two(x, y) == [Empty EXCEPT ![a] = x, ![b] = y]

Specs ==
  { Derived([d \in {root} |-> Empty]),
    Derived([d \in {root, d1} |-> IF d = root THEN Two(d1, Elements) ELSE Two(Elements, Whole)]),
    (* one field's dict, under its alias and its name *)
    Derived([d \in {root, d1} |-> IF d = root THEN Two(d1, d1) ELSE Two(Absent, Elements)]),
    Derived([d \in {root, d1, d2} |-> IF d = root THEN Two(Whole, d1)
                                      ELSE IF d = d1 THEN Two(d2, d2) ELSE Two(Absent, Whole)]) }

Some == { <<a>>, <<b>>, <<a, a>>, <<a, b, a>>, <<b, b, b>>, <<b, Everything, a>> }

Adapter(in, ct, req, decl, ret, s) ==
  [ derived |-> s, inputs |-> in, controls |-> ct, requires |-> req,
    declared |-> decl, retained |-> ret ]
Field(n, ps) == [field |-> n, paths |-> ps]

MCRequests ==
  { Adapter(<<Field(f, <<p, q>>), Field(g, <<r>>)>>, <<>>, {}, {f, g}, {f}, s) :
      p, q \in Some, r \in {<<a>>}, s \in Specs }
  \cup { Adapter(<<Field(g, <<p>>), Field(f, <<q>>)>>, <<r>>, {<<f, g>>}, {f, g}, {f, g}, s) :
      p, q, r \in Some, s \in Specs }
  \cup { Adapter(<<Field(f, <<<<a>>>>), Field(g, <<p>>)>>, <<<<b>>>>, req, decl, ret, s) :
      p \in {<<b>>, <<Everything>>}, req \in SUBSET {<<f, g>>}, decl \in {{f}, {f, g}},
      ret \in {{f}, {g}}, s \in Specs }
=============================================================================

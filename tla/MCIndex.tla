------------------------------- MODULE MCIndex -------------------------------
EXTENDS Index, TLC
CONSTANTS small, large, other
\* As in the registry of models: some are of one width, some are not.
MCDims == [m \in Model |-> IF m = small THEN 384 ELSE 1024]
Symmetry == Permutations(Doc)
\* The files are read at the ready engine and between the documents of a pass,
\* and no property looks at them elsewhere: an edit made at another moment is
\* as good as one made then, and only those are explored.
ReadSoon == file' # file => engine.steps = <<>> /\ engine.at \in {"ready", "reindexing"}

\* A memo of an earlier generation, of an index that is gone, or from before a
\* store was rebuilt is never served again unwatched, whatever happens: states
\* that differ in it alone have the same future, and a VIEW may take them for
\* one.  So may it those that differ in the document done last.
ServedMemo ==
  IF remade \/ memo.generation < generation \/ memo.instance # instance THEN NoMemo ELSE memo
SeenEngine == IF engine.steps = <<>> THEN [engine EXCEPT !.doc = "none", !.text = 0] ELSE engine
=============================================================================

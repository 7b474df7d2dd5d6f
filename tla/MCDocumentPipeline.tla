------------------------- MODULE MCDocumentPipeline -------------------------
(* Instances of DocumentPipeline for TLC. *)
EXTENDS DocumentPipeline, TLC

CONSTANTS memo,   \* a text document the scanner passes or cannot scan
          photo,  \* a document without text that the scanner passes
          virus   \* a text document on which no good verdict is possible

MCVerdicts ==
    [d \in Documents |-> CASE d = memo  -> {"clean", "error"}
                           [] d = photo -> {"clean"}
                           [] d = virus -> {"infected", "error"}]

MCTextual == Documents \ {photo}

Symmetry == Permutations(Workers)
=============================================================================

--------------------------- MODULE MCModelRouter ---------------------------
(* Small instances of ModelRouter for TLC. *)
EXTENDS ModelRouter

InOrder == [p \in {"openai", "anthropic", "gemini"} |->
               CASE p = "openai" -> 1 [] p = "anthropic" -> 2 [] OTHER -> 3]
=============================================================================

----------------------------- MODULE MCAskStream -----------------------------
(* The first model may be tried twice, the fallback once.                  *)
EXTENDS AskStream

TwoThenOne == <<2, 1>>
=============================================================================
